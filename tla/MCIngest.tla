------------------------------ MODULE MCIngest ------------------------------
(***************************************************************************)
(* What a poll brings in, for TLC: Ingest on a lock table of shared and    *)
(* exclusive locks; WaitForest on every input, also those no lock table    *)
(* gives; and Redaction on queries put together from lexemes of PostgreSQL *)
(* and cut off anywhere, as pg_stat_activity cuts them at                  *)
(* track_activity_query_size.  The three share no state but the forest.    *)
(***************************************************************************)
EXTENDS Redaction, Ingest

CONSTANTS share, excl,   \* modes
          t1, t2, xid    \* objects: two relations, and the transaction of a row lock

MCConflicts == {<<share, excl>>, <<excl, share>>, <<excl, excl>>}
MCRelationOf == [o \in Objects |-> IF o = xid THEN NoRelation ELSE o]

\* "w" is a letter outside ASCII, of two bytes.
MCChars == Marks \cup {" ", "w"}
MCBytes == [c \in MCChars |-> IF c = "w" THEN 2 ELSE 1]

\* A lexeme is a text with its roles; a ++ b is one after the other.
Lexeme(s, roles) == [text |-> s, role |-> roles, lexemes |-> {<<1, Len(s) + 1>>}]
Alike(s, r) == Lexeme(s, [k \in DOMAIN s |-> r])
Plain(s) == Alike(s, "plain")
Quoted(open, body, close) ==
    Lexeme(open \o body \o close,
           [k \in 1..Len(open \o body \o close) |->
               IF k - Len(open) \in 1..Len(body) THEN "value" ELSE "mark"])
Divided(x, k) == [x EXCEPT !.lexemes = {<<1, k>>, <<k, Len(x.text) + 1>>}]
a ++ b == [text |-> a.text \o b.text, role |-> a.role \o b.role,
           lexemes |-> a.lexemes \cup {<<l[1] + Len(a.text), l[2] + Len(a.text)>> : l \in b.lexemes}]

Words == {Plain(s) : s \in {<<"l">>, <<"l", "d">>, <<"e">>, <<"l", "w">>, <<"w", "d">>,
                            <<"l", "$", "d", "l">>, <<"l", "$", "l", "$", "d">>}}
Params == {Plain(<<"$", "d">>)}
Operators == {Plain(<<c>>) : c \in {" ", "nl", "-", "+", ".", "/", "*"}}
Identifiers == {Plain(<<"\"">> \o s \o <<"\"">>) :
                    s \in {<<"q">>, <<"-", "-">>, <<" ", "d">>}}
               \cup {Divided(Plain(<<"\"", "l", "\"", "\"", "d", "\"">>), 4)}
Numbers == {Alike(s, "value") :
                s \in {<<"d">>, <<"d", ".", "d">>, <<"d", "e", "d">>, <<"d", "e", "-", "d">>}}
           \cup {Alike(<<"d", "l", "d">>, "value"), Alike(<<".">>, "mark") ++ Alike(<<"d">>, "value"),
                 Alike(<<"d">>, "value") ++ Plain(<<".">>) ++ Plain(<<".">>) ++ Alike(<<"d">>, "value")}
Doubled == Divided(Quoted(<<"q">>, <<"q", "q", "l">>, <<"q">>), 3)
Strings == {Quoted(<<"q">>, s, <<"q">>) :
                s \in {<< >>, <<"l">>, <<"-", "-">>, <<"/", "*">>, <<"$", "$">>, <<"\"", "nl">>, <<"w">>,
                      <<"\\">>, <<"\\", "\\">>, <<"\\", "q", "l">>}}
           \cup {Doubled}
DollarQuotes == {Quoted(<<"$", "$">>, s, <<"$", "$">>) : s \in {<< >>, <<"q">>, <<"$", "l">>, <<"w">>}}
                \cup {Quoted(<<"$", "l", "$">>, s, <<"$", "l", "$">>) :
                          s \in {<<"d">>, <<"$", "$">>, <<"l", "$">>}}
                \cup {Quoted(<<"$", "w", "$">>, <<"l">>, <<"$", "w", "$">>)}
Comments == {Quoted(<<"-", "-">>, s, << >>) ++ Plain(<<"nl">>) : s \in {<<"l">>, <<"q">>, <<"-">>}}
            \cup {Quoted(<<"/", "*">>, s, <<"*", "/">>) : s \in {<< >>, <<"q">>, <<"*">>, <<"-", "-">>, <<"/", "*", "*", "/", "l">>}}
            \cup {Quoted(<<"-", "-">>, <<"l">>, << >>) ++ Plain(<<"cr">>)}

Lexemes == Words \cup Params \cup Operators \cup Identifiers \cup Numbers \cup Strings
           \cup DollarQuotes \cup Comments

\* Which lexemes PostgreSQL tells apart without a space between them: no word,
\* parameter or number runs into the next, no operator into a comment.
Apart(x, y) ==
    LET last == x.text[Len(x.text)]
        next == y.text[1]
        open == x \in Words \cup Params \cup Numbers
    IN  /\ open => next \notin {"l", "e", "d", "$", "w"}
        /\ x \in Numbers => next # "."
        /\ last = "-" => next # "-"
        /\ last = "/" /\ x \in Operators => next # "*"
        /\ last = "." => y \notin Numbers

\* Every two lexemes, and every three of some that hold what could mislead Mask.
Some == {Plain(<<"e">>), Plain(<<"$", "d">>), Plain(<<" ">>), Plain(<<"-">>), Plain(<<"\"", "q", "\"">>),
         Alike(<<"d", "e", "-", "d">>, "value"), Quoted(<<"q">>, <<"-", "-">>, <<"q">>),
         Doubled, Quoted(<<"$", "$">>, <<"q">>, <<"$", "$">>),
         Quoted(<<"$", "l", "$">>, <<"$", "$">>, <<"$", "l", "$">>),
         Quoted(<<"-", "-">>, <<"q">>, << >>) ++ Plain(<<"nl">>),
         Quoted(<<"/", "*">>, <<"q">>, <<"*", "/">>)}

Followed(X, Y) == UNION {{x ++ y : y \in {z \in Y : Apart(x, z)}} : x \in X}
Queries == Followed(Lexemes, Lexemes)
           \cup UNION {{x ++ z : x \in {w \in Some : Apart(w, z)}} : z \in Followed(Some, Some)}

Cut(x, k) == [text |-> SubSeq(x.text, 1, k), role |-> SubSeq(x.role, 1, k),
              lexemes |-> {<<l[1], Min({l[2], k + 1})>> : l \in {m \in x.lexemes : m[1] <= k}}]
MCInputs == UNION {{Cut(x, k) : k \in 0..Len(x.text)} : x \in Queries}

\* A dollar-quoted string with a letter outside ASCII, a word, and E'\'l'.
OddInputs == {Quoted(<<"$", "$">>, <<"w">>, <<"$", "$">>) ++ Plain(<<"l">>) ++ Plain(<<" ">>)
              ++ Plain(<<"e">>) ++ Quoted(<<"q">>, <<"\\", "q", "l">>, <<"q">>)}

-----------------------------------------------------------------------------

VARIABLE part  \* which of the three this behaviour is about

NoText == text = << >> /\ role = << >> /\ lexemes = {} /\ mode = "switch" /\ i = 1 /\ out = << >>

MCInit == \/ part = "mask" /\ Init /\ IngestInit
          \/ part = "poll" /\ NoText /\ IngestInit
          \/ part = "build" /\ NoText /\ LockInit /\ ForestInit

MaskStep == part = "mask" /\ Next /\ UNCHANGED <<ingestVars, part>>
PollStep == part = "poll" /\ IngestNext /\ UNCHANGED <<vars, part>>
BuildStep == part = "build" /\ ForestNext /\ UNCHANGED <<vars, lockVars, part>>

MCVars == <<vars, ingestVars, part>>

MCSpec == /\ MCInit
          /\ [][MaskStep \/ PollStep \/ BuildStep]_MCVars
          /\ WF_MCVars(MaskStep)
=============================================================================
