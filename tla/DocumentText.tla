----------------------------- MODULE DocumentText -----------------------------
(* From the text of a document to its chunks (processing._parse_markdown,   *)
(* parse_document, _sentences, _split_text and chunk_pages): lines are      *)
(* gathered into paragraphs and these into blocks, each on its page and     *)
(* under its section; a block is cut into chunks of at most MaxChars        *)
(* characters: sentences, or words of a longer one that fit together, or    *)
(* the parts of a longer word.                                              *)
(*                                                                          *)
(* A character of a document is its place in the source and its kind.  The  *)
(* pages of the code are kept as the sequence of their blocks.              *)
EXTENDS Naturals, Sequences

CONSTANTS Texts, Titles,  \* lines of text, and of headings: sequences of kinds
          MaxChars, MaxChunks, MaxPages,
          MaxLines        \* bound: lines of the document

VARIABLES media,          \* "markdown" or "text"
          source,         \* the lines read
          blocks, page, section, paragraph,
          chunks,
          cut,            \* where the text is being cut, and the current piece
          status

vars == <<media, source, blocks, page, section, paragraph, chunks, cut, status>>

Kinds == {"letter", "stop", "space"}
IsBlank(char) == char.kind \in {"space", "newline"}

\* A line is stripped, one with nothing left is blank.  A chunk has room.
Trimmed == /\ MaxChars \in Nat \ {0} /\ MaxPages \in Nat
           /\ Texts \cup Titles \subseteq Seq(Kinds)
           /\ \A t \in Texts \cup Titles : t # <<>> /\ t[1] # "space" /\ t[Len(t)] # "space"

Lines == [level : {0}, text : Texts \cup {<<>>}] \cup [level : 1 .. 3, text : Titles]

CharsOf(i, l) == [p \in DOMAIN l.text |-> [line |-> i, at |-> p, kind |-> l.text[p]]]

\* What joins the lines of a paragraph.
Separator == [line |-> 0, at |-> 0, kind |-> IF media = "text" THEN "newline" ELSE "space"]
Space == [line |-> 0, at |-> 0, kind |-> "space"]

None == 0                 \* sections are named by the line of their heading
-----------------------------------------------------------------------------
Block(under, text) == [page |-> page, section |-> under, text |-> text]

(* flush: the paragraph goes under the section it stands in.  *)
Flush == IF paragraph = <<>> THEN blocks ELSE Append(blocks, Block(section, paragraph))

(* The page after these blocks; one without blocks is not left.  *)
NextPage(b) == IF b # <<>> /\ b[Len(b)].page = page THEN page + 1 ELSE page

(* A heading.  The second level begins a page, the first one is also text.  *)
Heading(i, l) ==
    /\ section' = i
    /\ paragraph' = <<>>
    /\ page' = IF l.level = 2 THEN NextPage(Flush) ELSE page
    /\ blocks' = IF l.level = 1 THEN Append(Flush, Block(i, CharsOf(i, l))) ELSE Flush

BlankLine == /\ paragraph' = <<>>
             /\ blocks' = Flush
             /\ page' = IF media = "text" THEN NextPage(Flush) ELSE page
             /\ UNCHANGED section

TextLine(i, l) == /\ paragraph' = (IF paragraph = <<>> THEN <<>>
                                   ELSE Append(paragraph, Separator)) \o CharsOf(i, l)
                  /\ UNCHANGED <<section, page, blocks>>

ReadLine ==
    /\ status = "reading"
    /\ Len(source) < MaxLines
    /\ \E l \in Lines :
          LET i == Len(source) + 1
          IN  /\ media = "text" => l.level = 0
              /\ source' = Append(source, l)
              /\ \/ l.level > 0 /\ Heading(i, l)
                 \/ l.level = 0 /\ l.text = <<>> /\ BlankLine
                 \/ l.level = 0 /\ l.text # <<>> /\ TextLine(i, l)
    /\ UNCHANGED <<media, chunks, cut, status>>

(* The end of the document; too many pages or none.  *)
Parse == /\ status = "reading"
         /\ blocks' = Flush
         /\ paragraph' = <<>>
         /\ status' = IF Flush = <<>> THEN "no_extractable_text"
                      ELSE IF Flush[Len(Flush)].page > MaxPages THEN "too_many_pages"
                      ELSE "splitting"
         /\ UNCHANGED <<media, source, page, section, chunks, cut>>
-----------------------------------------------------------------------------
(* chunk_pages: the text at cut.block is cut from cut.next on; end is that  *)
(* of a sentence taken word by word, or 0.                                  *)
Text == blocks[cut.block].text

Yield(pieces) ==
    IF Len(chunks) + Len(pieces) > MaxChunks
    THEN status' = "too_many_chunks" /\ UNCHANGED chunks
    ELSE /\ chunks' = chunks \o [k \in DOMAIN pieces |->
                                   [blocks[cut.block] EXCEPT !.text = pieces[k]]]
         /\ UNCHANGED status

NothingPending == <<>>    \* a form the definition below must not take
Pending == IF cut.current = <<>> THEN <<>> ELSE <<cut.current>>

\* The first character from cut.next on that is no space; there is none.
Starts(s) == ~IsBlank(Text[s]) /\ \A q \in cut.next .. s - 1 : IsBlank(Text[q])
NothingUntil(e) == \A q \in cut.next .. e : IsBlank(Text[q])

EndsSentence(e) == e < Len(Text) => \/ Text[e + 1].kind = "newline"
                                    \/ Text[e].kind = "stop" /\ IsBlank(Text[e + 1])
EndsWord(e) == e < cut.end => IsBlank(Text[e + 1])

(* _sentences; one that fits is a piece.  *)
Sentence ==
    /\ status = "splitting" /\ cut.end = 0
    /\ \E s \in cut.next .. Len(Text) : \E e \in s .. Len(Text) :
          /\ Starts(s) /\ EndsSentence(e) /\ \A q \in s .. e - 1 : ~EndsSentence(q)
          /\ IF e - s + 1 <= MaxChars
             THEN Yield(<<SubSeq(Text, s, e)>>) /\ cut' = [cut EXCEPT !.next = e + 1]
             ELSE /\ cut' = [cut EXCEPT !.next = s, !.end = e]
                  /\ UNCHANGED <<chunks, status>>
    /\ UNCHANGED <<media, source, blocks, page, section, paragraph>>

(* The parts of a word longer than a piece.  *)
Parts(w) == [k \in 1 .. (Len(w) + MaxChars - 1) \div MaxChars |->
                SubSeq(w, (k - 1) * MaxChars + 1,
                       IF k * MaxChars < Len(w) THEN k * MaxChars ELSE Len(w))]

(* The next word of a longer sentence: in parts of its own, in a new piece, *)
(* or in the current one.                                                   *)
Longer(w) == Len(w) > MaxChars
Fits(w) == cut.current = <<>> \/ Len(cut.current) + 1 + Len(w) <= MaxChars
AddWord(w, after) ==
    \/ /\ Longer(w)
       /\ Yield(Pending \o Parts(w))
       /\ cut' = [cut EXCEPT !.next = after, !.current = <<>>]
    \/ /\ ~Longer(w) /\ ~Fits(w)
       /\ Yield(Pending)
       /\ cut' = [cut EXCEPT !.next = after, !.current = w]
    \/ /\ ~Longer(w) /\ Fits(w)
       /\ cut' = [cut EXCEPT !.next = after,
                             !.current = IF @ = <<>> THEN w ELSE Append(@, Space) \o w]
       /\ UNCHANGED <<chunks, status>>

Word ==
    /\ status = "splitting" /\ cut.end > 0
    /\ \E s \in cut.next .. cut.end : \E e \in s .. cut.end :
          /\ Starts(s) /\ EndsWord(e) /\ \A q \in s .. e - 1 : ~EndsWord(q)
          /\ AddWord(SubSeq(Text, s, e), e + 1)
    /\ UNCHANGED <<media, source, blocks, page, section, paragraph>>

EndOfSentence ==
    /\ status = "splitting" /\ cut.end > 0 /\ NothingUntil(cut.end)
    /\ Yield(Pending)
    /\ cut' = [cut EXCEPT !.next = cut.end + 1, !.end = 0, !.current = <<>>]
    /\ UNCHANGED <<media, source, blocks, page, section, paragraph>>

EndOfBlock ==
    /\ status = "splitting" /\ cut.end = 0 /\ NothingUntil(Len(Text))
    /\ IF cut.block < Len(blocks)
       THEN cut' = [cut EXCEPT !.block = @ + 1, !.next = 1] /\ UNCHANGED status
       ELSE status' = "chunked" /\ UNCHANGED cut
    /\ UNCHANGED <<media, source, blocks, page, section, paragraph, chunks>>
-----------------------------------------------------------------------------
Init == /\ media \in {"markdown", "text"}
        /\ source = <<>> /\ blocks = <<>> /\ paragraph = <<>> /\ chunks = <<>>
        /\ page = 1
        /\ section = None
        /\ cut = [block |-> 1, next |-> 1, end |-> 0, current |-> <<>>]
        /\ status = "reading"

Next == ReadLine \/ Parse \/ Sentence \/ Word \/ EndOfSentence \/ EndOfBlock

Spec == Init /\ [][Next]_vars
-----------------------------------------------------------------------------
Letters(text) == {text[q] : q \in {p \in DOMAIN text : ~IsBlank(text[p])}}
LettersIn(list) == UNION {Letters(list[c].text) : c \in DOMAIN list}

Before(x, y) == x.line < y.line \/ (x.line = y.line /\ x.at < y.at)
Ordered(text) == \A q, r \in DOMAIN text :
    q < r /\ ~IsBlank(text[q]) /\ ~IsBlank(text[r]) => Before(text[q], text[r])
InOrder(list) ==
    /\ \A c \in DOMAIN list : Ordered(list[c].text)
    /\ \A c, d \in DOMAIN list : c < d =>
          \A x \in Letters(list[c].text), y \in Letters(list[d].text) : Before(x, y)

\* The text of the source: its lines, but for the deeper headings.
Written == UNION {Letters(CharsOf(i, source[i])) : i \in {j \in DOMAIN source : source[j].level <= 1}}
StandsUnder(i, s) == /\ s = None \/ (s \in 1 .. i /\ source[s].level > 0)
                     /\ \A h \in s + 1 .. i : source[h].level = 0
Breaks(i, j) == \E h \in i + 1 .. j : IF media = "markdown" THEN source[h].level = 2
                                      ELSE source[h].text = <<>>

\* A word longer than a chunk goes on after its character at p.
LongWordAt(i, p) == \E a \in 1 .. p, b \in p + 1 .. Len(source[i].text) :
                       b - a >= MaxChars /\ \A q \in a .. b : source[i].text[q] # "space"

(* The chunks are the text of the document, every character once and in     *)
(* order, none longer than the limit; each stands under the section of its  *)
(* lines, two are on one page exactly when no page break separates them     *)
(* (FR-8), pages are counted from one without a gap and not beyond the      *)
(* limit, and only a word longer than a chunk is divided.                   *)
SourceIsKept ==
    status = "chunked" =>
        /\ InOrder(chunks) /\ LettersIn(chunks) = Written
        /\ \A c \in DOMAIN chunks :
              /\ Len(chunks[c].text) \in 1 .. MaxChars
              /\ \A x \in Letters(chunks[c].text) : StandsUnder(x.line, chunks[c].section)
              /\ chunks[c].page \in 1 .. MaxPages
              /\ \A n \in 1 .. chunks[c].page : \E d \in DOMAIN chunks : chunks[d].page = n
        /\ \A c, d \in DOMAIN chunks :
              \A x \in Letters(chunks[c].text), y \in Letters(chunks[d].text) :
                 /\ x.line <= y.line => (chunks[c].page = chunks[d].page <=> ~Breaks(x.line, y.line))
                 /\ x.line = y.line /\ y.at = x.at + 1 /\ c # d => LongWordAt(x.line, x.at)
==============================================================================
