------------------------------ MODULE MCAccess ------------------------------
(***************************************************************************)
(* Access for TLC: configurations with up to two principals or mappings,   *)
(* valid and invalid, over one environment variable that may be unset and  *)
(* one that is set, requests with well and badly written headers, and a    *)
(* statement of the docs that the model does not bear out.                 *)
(***************************************************************************)
EXTENDS Access

UpToTwo(S) == {<< >>} \cup {<<x>> : x \in S} \cup {<<x, y>> : x, y \in S}

SomeRoles == validRoles \cup {"root"}
Names == {"", "ann", "bob"}

Vars == {"PGLOCKR_DSN", "PGLOCKR_TOKEN", "PGLOCKR_DB_PATH", "E1", "E2", ""}
Env(dsn, token, path, e1) ==
    [v \in Vars |-> CASE v = "PGLOCKR_DSN" -> dsn [] v = "PGLOCKR_TOKEN" -> token
                      [] v = "PGLOCKR_DB_PATH" -> path [] v = "E1" -> e1
                      [] v = "E2" -> "t2" [] OTHER -> ""]

NoProxy == [trustMode |-> "", sep |-> "", secretEnv |-> "", defaultRole |-> "", roleMappings |-> << >>]
PlainFile == [mode |-> "", principals |-> << >>, proxy |-> NoProxy, enabled |-> FALSE,
              retention |-> 86400, interval |-> 1, ringSize |-> 300, statementTimeout |-> 3]

TokenStarts ==
    {[file |-> [PlainFile EXCEPT !.mode = m, !.principals = ps], env |-> Env("dsn", t, "", e)] :
        m \in {"", "basic"}, t \in {"", "t1"}, e \in {"", "t1"},
        ps \in UpToTwo([name : Names, role : SomeRoles, tokenEnv : {"", "E1", "E2"}])}

\* Group names, two of which no header can list if the delimiter is a comma.
g1 == <<"g1">>
g2 == <<"g2">>
Padded == <<Blank, "g1">>
Joined == <<"g1", ",", "g2">>
Spaced == <<"g1", Blank, "g2">>

ProxyStart(tm, sep, se, d, ms, e) ==
    [file |-> [PlainFile EXCEPT !.mode = "proxy",
                  !.proxy = [trustMode |-> tm, sep |-> sep, secretEnv |-> se, defaultRole |-> d,
                             roleMappings |-> ms]],
     env |-> Env("dsn", "", "", e)]
ProxyStarts ==
    {ProxyStart(tm, "", se, d, ms, e) :
        tm \in {"", "secret", "network", "vpn"}, se \in {"", "E1"}, e \in {"", "t1"},
        d \in {"", "viewer", "root"},
        ms \in UpToTwo([group : {<< >>, g1, g2}, role : SomeRoles])}
    \cup
    {ProxyStart("network", sep, "", d, ms, "") :
        sep \in {"", ";", Blank}, d \in {"", "viewer"},
        ms \in UpToTwo([group : {g1, Padded, Joined, Spaced}, role : {"operator", "admin"}])}

SettingStarts ==
    {[file |-> [PlainFile EXCEPT !.enabled = en, !.retention = rt, !.interval = iv,
                    !.ringSize = rs, !.statementTimeout = st],
      env |-> Env(dsn, "t1", path, "")] :
        en \in BOOLEAN, rt \in {-1, 0, 2}, iv \in {0, 2}, rs \in {0, 2}, st \in {0, 2},
        dsn \in {"", "dsn"}, path \in {"", "db"}}

MCStarts == TokenStarts \cup ProxyStarts \cup SettingStarts

Host == <<"app">>
\* None, the page's own, another, one that ends in the Host, and the one of a sandbox.
Origins == {<< >>, <<"https", "://", "app">>, <<"https", "://", "www">>,
            <<"https", "://", "my", "app">>, <<"null">>}

\* Headers that list up to two groups, and some with blanks and other delimiters.
Lists == {<< >>} \cup {<<g>> : g \in {"g1", "g2", "g3"}}
         \cup {<<g, ",", h>> : g, h \in {"g1", "g2", "g3"}}
         \cup {<<",", Blank, "g1">>, <<Blank, "g1", ",", Blank, "g2">>, <<Blank, ",", Blank>>,
               <<"g1", Blank, "g2">>, <<"g3", ";", "g1", ",", "g2">>,
               <<"g1", Blank, Blank, "g2", Blank, ";">>}

MCRequests ==
    [route : {"view", "stream", "act", "audit"}, host : {Host}, origin : Origins,
     bearer : {"none", "", "t1", "t2", "t9"}, cookie : {"", "t2"},
     secret : {""}, user : {""}, groups : {<< >>}]
    \cup [route : {"view", "act", "audit"}, host : {Host},
          origin : {<<"https", "://", "app">>, <<"https", "://", "www">>}, bearer : {"none"}, cookie : {""},
          secret : {"", "t1"}, user : {"", "eve"}, groups : Lists]

\* README.md:148: a retention of 0 in the config keeps the durable history for ever,
\* which persist.Open would do.
ZeroRetentionKeeps ==
    phase = "serving" /\ start.file.retention = 0 /\ cfg.enabled => cfg.retention <= 0
=============================================================================
