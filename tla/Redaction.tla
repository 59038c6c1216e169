----------------------------- MODULE Redaction -----------------------------
(***************************************************************************)
(* redact.Mask: the lexer that replaces the values of a query by ?, before *)
(* a snapshot is stored, streamed or recorded.  An action is one case of   *)
(* Mask's switch, or one round of the loop that the case starts.           *)
(*                                                                         *)
(* A character stands for its class: "l" for a letter or an underscore,    *)
(* "e" for e and E, "d" for a digit, "q" for a single quote, "nl" and "cr" *)
(* for the ends of a line, and any other for itself.  Positions count from *)
(* 1.                                                                      *)
(*                                                                         *)
(* Lexed says how PostgreSQL reads a text, Misread which of its lexemes    *)
(* Mask takes for something else.                                          *)
(***************************************************************************)
EXTENDS Integers, Sequences, FiniteSets

CONSTANTS Chars,   \* classes of characters
          Bytes,   \* how many bytes of UTF-8 each takes
          Inputs   \* [text, role, lexemes]: queries, and how PostgreSQL may read them

Marks == {"l", "e", "d", "q", "nl", "cr", "$", "-", "+", ".", "/", "*", "\\", "\""}

ASSUME RedactionAssumption ==
    /\ Bytes \in [Chars -> 1..4]
    /\ Marks \subseteq Chars /\ \A c \in Marks : Bytes[c] = 1
    /\ "end" \notin Chars
    /\ \A x \in Inputs : /\ x.text \in Seq(Chars)
                        /\ x.role \in [DOMAIN x.text -> {"value", "plain", "mark"}]
                        /\ x.lexemes \subseteq Nat \X Nat

VARIABLES
    text,  \* r, the query
    role,  \* what each character is to PostgreSQL: part of a value or of a comment,
           \* plain text to be kept, or a mark where either begins or ends
    lexemes, \* where its lexemes start, and where the text after them does
    mode,  \* "switch", or the loop Mask is in: "line", "block", "string", "param",
           \* "ident" or "number"
    i,     \* i
    out    \* b: positions of characters that were copied, Hole for ?, Close for a
           \* closing mark that Mask writes itself

vars == <<text, role, lexemes, mode, i, out>>

Hole == 0
Close == -1

n == Len(text)

\* The character at position j, if there is one.
At(j) == IF j \in 1..n THEN text[j] ELSE "end"

isWord(c) == c \in {"l", "e", "d"}

TypeOK == /\ text \in Seq(Chars)
          /\ role \in [1..n -> {"value", "plain", "mark"}]
          /\ mode \in {"switch", "line", "block", "string", "param", "ident", "number"}
          /\ i \in 1..4*n+1
          /\ out \in Seq(-1..n)

-----------------------------------------------------------------------------
(* What Mask looks for in the text *)

\* The marks of comments.
IsLine(j) == At(j) = "-" /\ At(j + 1) = "-"
IsBlock(j) == At(j) = "/" /\ At(j + 1) = "*"
IsBlockEnd(j) == At(j) = "*" /\ At(j + 1) = "/"

\* Whether the text from j to k is an opening $tag$.
IsTag(j, k) == /\ At(j) = "$" /\ At(k) = "$" /\ j < k
               /\ \A m \in j+1..k-1 : isWord(text[m])

\* Whether the same characters stand at m, past the tag from j to k.
Repeats(j, k, m) == m > k /\ m + (k - j) <= n /\ \A d \in 0..k-j : text[m + d] = text[j + d]

\* The bytes between the tag that ends at k and its repetition at m, beyond one for
\* each character.
Extra(k, m) == Cardinality({x \in (k+1..m-1) \X (2..4) : x[2] <= Bytes[text[x[1]]]})

\* Whether a number that has begun goes on at j.
Continues(j) == \/ At(j) \in {".", "e", "d"}
                \/ At(j) \in {"+", "-"} /\ At(j - 1) = "e"

-----------------------------------------------------------------------------
(* How PostgreSQL reads the text: a lexeme from b up to before c.  Any may be cut off *)
(* by the end of the text.                                                            *)

\* Characters of several bytes.  They, and $, may stand in a word.
Wide == {c \in Chars : Bytes[c] > 1}
OfWord(c) == isWord(c) \/ c = "$" \/ c \in Wide

Word(b, c) == /\ text[b] \notin {"d", "$"} /\ \A j \in b..c-1 : OfWord(text[j])
              /\ ~OfWord(At(c))

\* An operator, a space, the end of a line, the point a number begins with, or the first
\* half of a mark that is cut off.
Symbol(b, c) == /\ c = b + 1 /\ ~OfWord(text[b]) /\ text[b] \notin {"q", "\""}
                /\ ~IsLine(b) /\ ~IsBlock(b)

\* Whether the text from j to k is an opening $tag$: a word, if any, but without $.
OpensQuote(j, k) == /\ At(j) = "$" /\ At(k) = "$" /\ j < k /\ text[j + 1] # "d"
                    /\ \A m \in j+1..k-1 : isWord(text[m]) \/ text[m] \in Wide

\* A parameter, or what is left of an opening tag.
Dollar(b, c) == /\ text[b] = "$" /\ \A k \in 1..n : ~OpensQuote(b, k)
                /\ \A j \in b+1..c-1 : isWord(text[j]) \/ text[j] \in Wide
                /\ At(c) # "d"

\* A string or a quoted identifier.  With a doubled quote inside it counts as two.
Quoting(b, c, quote) == /\ text[b] = quote /\ \A j \in b+1..c-2 : text[j] # quote
                        /\ c = n + 1 \/ (b + 1 < c /\ text[c - 1] = quote)

\* In E'...', and with standard_conforming_strings off in every string, a backslash
\* takes away the meaning of what follows: of a quote after an odd number of them.
Escaped(b, j) ==
    Cardinality({k \in b+1..j-1 : \A m \in k..j-1 : text[m] = "\\"}) % 2 = 1
Escaping(b, c) == /\ text[b] = "q" /\ \A j \in b+1..c-2 : text[j] = "q" => Escaped(b, j)
                  /\ \/ c = n + 1
                     \/ b + 1 < c /\ text[c - 1] = "q" /\ ~Escaped(b, c - 1)

DollarQuoted(b, c) ==
    \E k \in 1..n :
        /\ OpensQuote(b, k)
        /\ \/ c = n + 1 /\ \A m \in 1..n : ~Repeats(b, k, m)
           \/ \E m \in 1..n : /\ Repeats(b, k, m) /\ \A h \in 1..m-1 : ~Repeats(b, k, h)
                              /\ c = m + (k - b) + 1

\* A decimal number; or one of another base, or with its digits in groups (0xFF, 1_000).
Number(b, c) == /\ text[b] = "d" /\ ~isWord(At(b - 1)) /\ At(b - 1) \notin Wide /\ At(c) # "d"
                /\ \/ \A j \in b+1..c-1 : Continues(j)
                   \/ \A j \in b+1..c-1 : isWord(text[j]) \/ text[j] = "."

Line(b, c) == /\ IsLine(b) /\ b + 1 < c /\ \A j \in b..c-1 : text[j] \notin {"nl", "cr"}
              /\ At(c) \in {"nl", "cr", "end"}

\* Comments in this one that are open at k, itself included.  (Of marks that overlap, as in
\* /*/, both count.)
Depth(b, k) == Cardinality({j \in b..k : IsBlock(j)}) - Cardinality({j \in b+2..k : IsBlockEnd(j)})
Block(b, c) == /\ IsBlock(b) /\ b + 1 < c /\ \A k \in b..c-3 : Depth(b, k) > 0
               /\ c = n + 1 \/ (b + 4 <= c /\ Depth(b, c - 2) = 0)

\* What the lexeme is, and the roles that gives to its characters.
IsKept(b, c) == /\ Word(b, c) \/ Symbol(b, c) \/ Dollar(b, c) \/ Quoting(b, c, "\"")
                /\ \A j \in b..c-1 : role[j] # "value"
IsLiteral(b, c) == /\ \/ Quoting(b, c, "q") \/ Escaping(b, c) \/ DollarQuoted(b, c) \/ Number(b, c)
                   /\ \A j \in b..c-1 : role[j] # "plain"
IsComment(b, c) == /\ Line(b, c) \/ Block(b, c)
                   /\ role[b] = "mark" /\ role[b + 1] = "mark"
                   /\ \A j \in b..c-1 : role[j] # "plain"

\* The text is a row of lexemes.
Lexed == /\ n > 0 => \E l \in lexemes : l[1] = 1
         /\ \A l \in lexemes :
               /\ l[1] \in 1..n /\ l[2] \in l[1]+1..n+1
               /\ l[2] <= n => \E k \in lexemes : k[1] = l[2]
               /\ \/ IsKept(l[1], l[2]) \/ IsLiteral(l[1], l[2]) \/ IsComment(l[1], l[2])

-----------------------------------------------------------------------------
(* What Mask takes for something else *)

\* E'\'': Mask knows no escape but the doubled quote, and ends the string early.
EscapesQuote(b, c) == text[b] = "q" /\ \E j \in b+1..c-2 : text[j] = "q"

\* It ends a comment at the end of the first one inside,
Nests(b, c) == IsBlock(b) /\ \E j \in b+2..c-3 : IsBlock(j)

\* and a line not at a carriage return.
Returns(b, c) == Line(b, c) /\ At(c) = "cr"

\* a$b$c, $1$2: the part between the $ is an opening tag to it,
HoldsTag(b, c) == /\ Word(b, c) \/ Dollar(b, c)
                  /\ \E j \in b..c-1, k \in 1..n : IsTag(j, k)

\* a digit after a character of several bytes a number.
HoldsNumber(b, c) == /\ Word(b, c) \/ Dollar(b, c)
                     /\ \E j \in b+1..c-1 : text[j] = "d" /\ text[j - 1] \in Wide

\* A number ends at the first x or _, and not before the second point of 1..2.
OddNumber(b, c) == Number(b, c) /\ (Continues(c) \/ \E j \in b+1..c-1 : text[j] = "l")

\* A tag with characters of several bytes is none, and after a body with some Mask is off
\* by as many bytes.
WideQuote(b, c) == DollarQuoted(b, c) /\ \E j \in b..c-1 : text[j] \in Wide

Misread(b, c) == \/ EscapesQuote(b, c) \/ Nests(b, c) \/ Returns(b, c) \/ HoldsTag(b, c)
                 \/ HoldsNumber(b, c) \/ OddNumber(b, c) \/ WideQuote(b, c)

Legible == \A l \in lexemes : ~Misread(l[1], l[2])

-----------------------------------------------------------------------------

\* Source.Snapshot hands Mask the query of every session, one after the other.
Init == /\ \E x \in Inputs : text = x.text /\ role = x.role /\ lexemes = x.lexemes
        /\ Lexed
        /\ mode = "switch" /\ i = 1 /\ out = << >>

Write(s) == out' = out \o s
Goto(m, j) == mode' = m /\ i' = j /\ UNCHANGED <<text, role, lexemes>>

-----------------------------------------------------------------------------
(* Faulty variants, for the mutants of PROJECT.json *)

\* Of two quotes only one is skipped.
InStringHalfway == /\ mode = "string" /\ UNCHANGED out
                   /\ IF i > n THEN Goto("switch", i)
                      ELSE Goto(IF At(i) = "q" /\ At(i + 1) # "q" THEN "switch" ELSE "string", i + 1)

\* A digit inside a word starts a number.
StartsNumberAnywhere(j) == At(j) = "d"

\* The clamp at the end of an open block comment left out, with the test of the
\* loop on i alone.
InBlockStuck == /\ mode = "block" /\ UNCHANGED out
                /\ IF At(i) = "*" /\ At(i + 1) = "/" THEN Goto("switch", i + 2)
                   ELSE i + 1 <= n /\ Goto("block", i + 1)

-----------------------------------------------------------------------------
(* The cases of the switch, in its order *)

\* -- up to the end of the line.
LineComment == /\ mode = "switch" /\ IsLine(i)
               /\ Write(<<i, i + 1, Hole>>) /\ Goto("line", i)
InLine == /\ mode = "line" /\ UNCHANGED out
          /\ IF At(i) \in {"nl", "end"} THEN Goto("switch", i) ELSE Goto("line", i + 1)

\* A block comment up to its end or that of the text.
BlockComment == /\ mode = "switch" /\ IsBlock(i)
                /\ Write(<<i, i + 1, Hole, Close>>) /\ Goto("block", i + 2)
InBlock == /\ mode = "block" /\ UNCHANGED out
           /\ IF i + 1 > n THEN Goto("switch", n + 1)
              ELSE IF IsBlockEnd(i) THEN Goto("switch", i + 2)
              ELSE Goto("block", i + 1)

\* A string, in which two quotes stand for one.
StringLiteral == /\ mode = "switch" /\ At(i) = "q"
                 /\ Write(<<Hole>>) /\ Goto("string", i + 1)
InString == /\ mode = "string" /\ UNCHANGED out
            /\ IF i > n THEN Goto("switch", i)
               ELSE IF At(i) # "q" THEN Goto("string", i + 1)
               ELSE IF At(i + 1) = "q" THEN Goto("string", i + 2)
               ELSE Goto("switch", i + 1)

\* A dollar-quoted string up to the next such tag, or to the end of the text.  Where the
\* tag comes next is counted in bytes (strings.Index), the position it is added to in
\* characters.
DollarQuote(k) ==
    /\ mode = "switch" /\ IsTag(i, k)
    /\ Write(<<Hole>>)
    /\ \/ /\ \A m \in 1..n : ~Repeats(i, k, m)
          /\ Goto("switch", n + 1)
       \/ \E m \in 1..n : /\ Repeats(i, k, m) /\ \A h \in 1..m-1 : ~Repeats(i, k, h)
                          /\ Goto("switch", m + Extra(k, m) + (k - i) + 1)

\* $ that opens no string, with the digits of a parameter.
Param == /\ mode = "switch" /\ At(i) = "$" /\ \A k \in 1..n : ~IsTag(i, k)
         /\ Write(<<i>>) /\ Goto("param", i + 1)
InParam == /\ mode = "param"
           /\ IF At(i) = "d" THEN Write(<<i>>) /\ Goto("param", i + 1)
              ELSE UNCHANGED out /\ Goto("switch", i)

\* A quoted identifier, which is kept.
QuotedIdent == /\ mode = "switch" /\ At(i) = "\""
               /\ Write(<<i>>) /\ Goto("ident", i + 1)
InIdent == /\ mode = "ident"
           /\ IF i > n THEN UNCHANGED out /\ Goto("switch", i)
              ELSE Write(<<i>>) /\ Goto(IF At(i) = "\"" THEN "switch" ELSE "ident", i + 1)

\* A number, unless the digit continues a word.
StartsNumber(j) == At(j) = "d" /\ ~isWord(At(j - 1))
Numeric == /\ mode = "switch" /\ StartsNumber(i)
           /\ Write(<<Hole>>) /\ Goto("number", i)
InNumber == /\ mode = "number" /\ UNCHANGED out
            /\ IF Continues(i) THEN Goto("number", i + 1) ELSE Goto("switch", i)

\* Everything else is kept.
Default == /\ mode = "switch" /\ i <= n
           /\ ~IsLine(i) /\ ~IsBlock(i) /\ At(i) \notin {"q", "$", "\""} /\ ~StartsNumber(i)
           /\ Write(<<i>>) /\ Goto("switch", i + 1)

Next == \/ LineComment \/ InLine \/ BlockComment \/ InBlock \/ StringLiteral \/ InString
        \/ \E k \in 1..n : DollarQuote(k)
        \/ Param \/ InParam \/ QuotedIdent \/ InIdent \/ Numeric \/ InNumber \/ Default

Spec == Init /\ [][Next]_vars
FairSpec == Spec /\ WF_vars(Next)

-----------------------------------------------------------------------------
(* Properties *)

\* redact.go:1: no character of a literal or of the body of a comment is copied,
\* wherever the server cut the text off, if none of its lexemes is one that Mask
\* misreads.
ValuesMasked == Legible => \A k \in 1..Len(out) : out[k] > 0 => role[out[k]] # "value"

Returned == mode = "switch" /\ i > n

\* All that is plain has been copied, in its order.
Readable == LET plain == {p \in 1..n : role[p] = "plain"}
            IN  /\ \A p \in plain : \E k \in 1..Len(out) : out[k] = p
                /\ \A j, k \in 1..Len(out) :
                      j < k /\ out[j] \in plain /\ out[k] \in plain => out[j] < out[k]

\* redact.go:8: keywords, identifiers, parameters and structure stay readable: when
\* Mask returns, all of them are there, in their order, if it misreads no lexeme.
StructureKept == Legible /\ Returned => Readable

\* redact.go:6: "it replaces string literals, dollar-quoted strings, numeric literals, and
\* comment bodies with ?, preserving keywords, identifiers, and structure", in every text.
MasksExactly == Returned => Readable /\ \A k \in 1..Len(out) : out[k] > 0 => role[out[k]] # "value"

\* Mask returns, also from a text that it misreads.
MaskEnds == <>Returned
=============================================================================
