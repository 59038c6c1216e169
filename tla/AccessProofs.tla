---------------------------- MODULE AccessProofs ----------------------------
(***************************************************************************)
(* Access for every set of configurations and requests: a configuration    *)
(* that validate accepts can be served, and a request is handled exactly   *)
(* if the configuration as written grants it.                              *)
(***************************************************************************)
EXTENDS Access, SequenceTheorems, WellFoundedInduction, TLAPS

-----------------------------------------------------------------------------
(* Indexes and loops *)

\* A nonempty set of naturals has a least element.
LEMMA Least == ASSUME NEW S \in SUBSET Nat, S # {} PROVE \E m \in S : \A k \in S : m <= k
  <1>1. \E x \in S : \A y \in S : ~(y < x)
    <2>1. \E x \in S : \A y \in S : ~(<<y, x>> \in OpToRel(<, Nat))
      BY NatLessThanWellFounded, WFMin
    <2> QED BY <2>1 DEF OpToRel
  <1> QED BY <1>1

\* A set of naturals with 0 and the successors of its members is all of them.
LEMMA AllNaturals ==
    ASSUME NEW S, 0 \in S, \A n \in Nat : n \in S => n + 1 \in S
    PROVE  \A n \in Nat : n \in S
  <1> DEFINE bad == {n \in Nat : n \notin S}
  <1> SUFFICES ASSUME bad # {} PROVE FALSE OBVIOUS
  <1>1. PICK m \in bad : \A k \in bad : m <= k BY Least
  <1>2. m \in Nat /\ m # 0 BY <1>1
  <1>3. m - 1 \in Nat /\ m - 1 \in S BY <1>1, <1>2
  <1>4. (m - 1) + 1 \in S BY <1>3
  <1> QED BY <1>1, <1>2, <1>4

\* The first of several indexes is one of them, and none is before it; the same for the
\* last.
LEMMA Extremes ==
    ASSUME NEW n \in Nat, NEW S \in SUBSET (0..n), S # {}
    PROVE  /\ Min(S) \in S /\ \A y \in S : Min(S) <= y
           /\ Max(S) \in S /\ \A y \in S : y <= Max(S)
  <1>1. Min(S) \in S /\ \A y \in S : Min(S) <= y
    <2>1. S \in SUBSET Nat OBVIOUS
    <2>2. \E x \in S : \A y \in S : x <= y BY <2>1, Least
    <2> QED BY <2>2 DEF Min
  <1>2. Max(S) \in S /\ \A y \in S : Max(S) >= y
    <2> DEFINE D == {n - i : i \in S}
    <2>1. D \in SUBSET Nat /\ D # {}
      <3>1. \A i \in S : n - i \in Nat OBVIOUS
      <3> QED BY <3>1
    <2>2. PICK m \in D : \A k \in D : m <= k
      <3> HIDE DEF D
      <3> QED BY <2>1, Least
    <2>3. PICK i \in S : m = n - i BY <2>2
    <2>4. ASSUME NEW y \in S PROVE i >= y
      <3>1. n - i <= n - y BY <2>2, <2>3
      <3> QED BY <3>1
    <2> QED BY <2>4 DEF Max
  <1>3. \A y \in S : Max(S) >= y => y <= Max(S)
    <2>1. Max(S) \in 0..n BY <1>2
    <2> QED BY <2>1
  <1> QED BY <1>1, <1>2, <1>3

\* The last of several indexes, the one that stays in a map, is one of them.
LEMMA LastIndex ==
    ASSUME NEW n \in Nat, NEW S \in SUBSET (1..n), S # {}
    PROVE  Max(S) \in S
  <1>1. S \in SUBSET (0..n) OBVIOUS
  <1> QED BY <1>1, Extremes

\* The ranks of the roles.
LEMMA Ranks == /\ Rank("") = 0
               /\ \A role \in validRoles : Rank(role) \in 1..3 /\ role # ""
  <1>1. Rank("viewer") = 1 /\ Rank("operator") = 2 /\ Rank("admin") = 3 /\ Rank("") = 0
    BY Zenon DEF Rank
  <1>2. \A role \in validRoles : role # "" BY DEF validRoles
  <1>3. \A role \in validRoles : Rank(role) = 1 \/ Rank(role) = 2 \/ Rank(role) = 3
    BY <1>1, Zenon DEF validRoles
  <1>4. ASSUME NEW role \in validRoles PROVE Rank(role) \in 1..3
    <2> DEFINE n == Rank(role)
    <2>1. n = 1 \/ n = 2 \/ n = 3 BY <1>3
    <2> HIDE DEF n
    <2>2. n \in 1..3 BY <2>1
    <2> QED BY <2>2 DEF n
  <1> QED BY <1>1, <1>2, <1>4, Zenon

\* One round of highestRole's loop, after the rounds b has.
RoleRound(b, k, groups) == IF k = 0 THEN "" ELSE Better(b[k - 1], groups[k])

\* There is a function that takes the rounds one after the other.
LEMMA RoleLoopExists ==
    ASSUME NEW groups, NEW z \in Nat
    PROVE  \E b : b = [k \in 0..z |-> RoleRound(b, k, groups)]
  <1> DEFINE Loops(n) == \E b : b = [k \in 0..n |-> RoleRound(b, k, groups)]
             S == {n \in Nat : Loops(n)}
  <1>1. Loops(0)
    <2> DEFINE b == [k \in 0..0 |-> ""]
    <2>1. \A k \in 0..0 : RoleRound(b, k, groups) = "" BY DEF RoleRound
    <2>2. b = [k \in 0..0 |-> RoleRound(b, k, groups)] BY <2>1
    <2> QED BY <2>2
  <1>2. ASSUME NEW n \in Nat, Loops(n) PROVE Loops(n + 1)
    <2>1. PICK b : b = [k \in 0..n |-> RoleRound(b, k, groups)] BY <1>2
    <2> DEFINE h == [k \in 0..n+1 |-> IF k = n + 1 THEN RoleRound(b, n + 1, groups) ELSE b[k]]
    <2>2. ASSUME NEW k \in 0..n+1 PROVE h[k] = RoleRound(h, k, groups)
      <3>1. \A j \in 0..n : h[j] = b[j] BY <2>1
      <3>2. k = 0 \/ (k - 1 \in 0..n /\ h[k - 1] = b[k - 1]) BY <3>1
      <3>3. RoleRound(h, k, groups) = RoleRound(b, k, groups)
        <4> HIDE DEF h
        <4> QED BY <3>2, Zenon DEF RoleRound
      <3>4. CASE k = n + 1 BY <3>3, <3>4
      <3>5. CASE k # n + 1
        <4>1. k \in 0..n BY <3>5
        <4>2. b[k] = RoleRound(b, k, groups) BY <2>1, <4>1
        <4> QED BY <3>1, <3>3, <4>1, <4>2
      <3> QED BY <3>4, <3>5
    <2>3. h = [k \in 0..n+1 |-> RoleRound(h, k, groups)] BY <2>2
    <2> QED BY <2>3
  <1> HIDE DEF Loops
  <1>3. 0 \in S /\ \A n \in Nat : n \in S => n + 1 \in S BY <1>1, <1>2
  <1> HIDE DEF S
  <1>4. z \in S BY <1>3, AllNaturals
  <1> QED BY <1>4 DEF S, Loops

\* The groups of a request that the configuration maps, and the role of one.
Mapped(groups) == {k \in DOMAIN groups : /\ groups[k] # << >>
                                         /\ groups[k] \in DOMAIN identity.groupToRole}
RoleOf(groups, k) == identity.groupToRole[groups[k]]

\* highestRole finds nothing if no group is mapped, and else the role of one of the
\* mapped groups that no other outranks.
LEMMA HighestIs ==
    ASSUME NEW groups, Len(groups) \in Nat, DOMAIN groups = 1..Len(groups),
           \A g \in DOMAIN identity.groupToRole : identity.groupToRole[g] \in validRoles
    PROVE  /\ \/ HighestRole(groups) = "" /\ Mapped(groups) = {}
              \/ \E k \in Mapped(groups) : HighestRole(groups) = RoleOf(groups, k)
           /\ \A k \in Mapped(groups) : Rank(HighestRole(groups)) >= Rank(RoleOf(groups, k))
  <1> DEFINE z == Len(groups)
             none == ""
             F == CHOOSE b : b = [k \in 0..z |-> RoleRound(b, k, groups)]
             Best(role, n) ==
                 /\ \/ role = none /\ \A k \in Mapped(groups) : k > n
                    \/ \E k \in Mapped(groups) : k <= n /\ role = RoleOf(groups, k)
                 /\ \A k \in Mapped(groups) : k <= n => Rank(role) >= Rank(RoleOf(groups, k))
             T == {n \in Nat : n <= z => Best(F[n], n)}
  <1>0. z \in Nat /\ DOMAIN groups = 1..z OBVIOUS
  <1>1. F = [k \in 0..z |-> RoleRound(F, k, groups)] BY <1>0, RoleLoopExists
  <1>2. HighestRole(groups) = F[z] BY DEF HighestRole, RoleRound
  <1> HIDE DEF F
  <1>3. \A k \in Mapped(groups) : k \in 1..z /\ RoleOf(groups, k) \in validRoles
    BY <1>0 DEF Mapped, RoleOf
  <1>9. /\ Rank(none) = 0
        /\ \A role \in validRoles : Rank(role) \in 1..3 /\ role # none
    BY Ranks, Zenon
  <1> HIDE DEF z, none
  <1>4. 0 \in T
    <2>1. F[0] = RoleRound(F, 0, groups) BY <1>0, <1>1
    <2>4. RoleRound(F, 0, groups) = none BY Zenon DEF RoleRound, none
    <2>2. \A k \in Mapped(groups) : k > 0 BY <1>0, <1>3
    <2>3. Best(none, 0)
      <3>1. \A k \in Mapped(groups) : ~(k <= 0) BY <1>0, <1>3
      <3> QED BY <2>2, <3>1
    <2> HIDE DEF Best
    <2> QED BY <2>1, <2>4, <2>3
  <1>5. ASSUME NEW n \in Nat, n \in T PROVE n + 1 \in T
    <2> SUFFICES ASSUME n + 1 <= z PROVE Best(F[n + 1], n + 1)
      <3> HIDE DEF Best
      <3> QED OBVIOUS
    <2>1. Best(F[n], n)
      <3> HIDE DEF Best
      <3> QED BY <1>0, <1>5
    <2>2. n + 1 \in 1..z /\ n + 1 \in 0..z /\ (n + 1) - 1 = n /\ n + 1 # 0 BY <1>0
    <2>9. F[n + 1] = RoleRound(F, n + 1, groups) BY <1>1, <2>2
    <2>3. F[n + 1] = Better(F[n], groups[n + 1]) BY <2>9, <2>2, Zenon DEF RoleRound
    <2>4. n + 1 \in Mapped(groups) <=>
             groups[n + 1] # << >> /\ groups[n + 1] \in DOMAIN identity.groupToRole
      BY <1>0, <2>2 DEF Mapped
    <2>5. \A k \in Mapped(groups) : k \in Nat /\ (k <= n + 1 <=> k <= n \/ k = n + 1)
                                    /\ (k > n + 1 <=> k > n /\ k # n + 1)
      BY <1>0, <1>3
    <2>6. Rank(F[n]) \in Nat BY <1>9, <1>3, <2>1
    <2>10. \A k \in Mapped(groups) : Rank(RoleOf(groups, k)) \in Nat BY <1>9, <1>3
    <2>7. CASE n + 1 \in Mapped(groups) /\ Rank(RoleOf(groups, n + 1)) > Rank(F[n])
      <3>1. F[n + 1] = RoleOf(groups, n + 1) BY <2>3, <2>4, <2>7 DEF Better, RoleOf
      <3>2. ASSUME NEW k \in Mapped(groups), k <= n + 1
            PROVE  Rank(F[n + 1]) >= Rank(RoleOf(groups, k))
        <4>1. CASE k = n + 1 BY <3>1, <4>1, <2>6, <2>10
        <4>2. CASE k <= n
          <5>1. Rank(F[n]) >= Rank(RoleOf(groups, k)) BY <2>1, <4>2
          <5> QED BY <5>1, <3>1, <2>7, <2>6, <2>10
        <4> QED BY <3>2, <4>1, <4>2, <2>5
      <3>3. n + 1 <= n + 1 OBVIOUS
      <3> QED BY <2>7, <3>1, <3>2, <3>3
    <2>8. CASE ~(n + 1 \in Mapped(groups) /\ Rank(RoleOf(groups, n + 1)) > Rank(F[n]))
      <3>1. F[n + 1] = F[n] BY <2>3, <2>4, <2>8 DEF Better, RoleOf
      <3>2. ASSUME NEW k \in Mapped(groups), k <= n + 1
            PROVE  Rank(F[n]) >= Rank(RoleOf(groups, k))
        <4>1. CASE k = n + 1 BY <4>1, <3>2, <2>8, <2>6, <2>10
        <4>2. CASE k <= n BY <2>1, <4>2
        <4> QED BY <3>2, <4>1, <4>2, <2>5
      <3>3. CASE F[n] = none /\ \A k \in Mapped(groups) : k > n
        <4>1. n + 1 \notin Mapped(groups)
          <5>1. n + 1 \in Mapped(groups) => Rank(RoleOf(groups, n + 1)) > Rank(F[n])
            BY <1>9, <1>3, <3>3
          <5> QED BY <5>1, <2>8
        <4>2. \A k \in Mapped(groups) : k > n + 1 BY <3>3, <4>1, <2>5
        <4> QED BY <3>1, <3>2, <3>3, <4>2
      <3>4. CASE \E k \in Mapped(groups) : k <= n /\ F[n] = RoleOf(groups, k)
        BY <3>1, <3>2, <3>4, <2>5
      <3> QED BY <2>1, <3>3, <3>4
    <2> QED BY <2>7, <2>8
  <1>6. z \in T
    <2>1. \A n \in Nat : n \in T => n + 1 \in T BY <1>5
    <2> HIDE DEF T
    <2> QED BY <1>0, <1>4, <2>1, AllNaturals
  <1>7. Best(F[z], z)
    <2> HIDE DEF Best
    <2> QED BY <1>0, <1>6
  <1>8. \A k \in Mapped(groups) : k <= z /\ ~(k > z) BY <1>0, <1>3
  <1> QED BY <1>2, <1>7, <1>8 DEF none

-----------------------------------------------------------------------------
(* Bearer tokens *)

\* The process serves the configuration it loaded.
ConfigLoaded == /\ start \in Starts
                /\ cfg = Loaded(start.file, start.env)
                /\ Valid(cfg)

\* What a configuration that is accepted for bearer tokens holds.
LEMMA TokenConfig ==
    ASSUME ConfigLoaded, cfg.mode # "proxy"
    PROVE  /\ start.file.mode # "proxy"
           /\ cfg.token = start.env["PGLOCKR_TOKEN"]
           /\ cfg.token # "" \/ cfg.principals # << >>
           /\ Len(start.file.principals) \in Nat
           /\ DOMAIN start.file.principals = 1..Len(start.file.principals)
           /\ cfg.principals = [i \in 1..Len(start.file.principals) |->
                 [p |-> start.file.principals[i],
                  token |-> Getenv(start.env, start.file.principals[i].tokenEnv)]]
           /\ \A i \in 1..Len(start.file.principals) :
                 /\ cfg.principals[i].token = start.env[start.file.principals[i].tokenEnv]
                 /\ cfg.principals[i].token # "" /\ start.file.principals[i].name # ""
                 /\ start.file.principals[i].role \in validRoles
  <1> DEFINE ps == start.file.principals
  <1>1. ps \in Seq([name : STRING, role : STRING, tokenEnv : STRING])
    BY FilesTyped DEF ConfigLoaded
  <1>2. Len(ps) \in Nat /\ DOMAIN ps = 1..Len(ps) BY <1>1
  <1>3. /\ cfg.mode = IF start.file.mode = "" THEN "token" ELSE start.file.mode
        /\ cfg.token = start.env["PGLOCKR_TOKEN"]
        /\ cfg.principals = [i \in DOMAIN ps |->
                               [p |-> ps[i], token |-> Getenv(start.env, ps[i].tokenEnv)]]
    BY DEF ConfigLoaded, Loaded
  <1>4. ValidTokenAuth(cfg) BY DEF ConfigLoaded, Valid
  <1>5. start.file.mode # "proxy" BY <1>3
  <1> HIDE DEF ps
  <1>6. ASSUME NEW i \in 1..Len(ps)
        PROVE  /\ cfg.principals[i].token = start.env[ps[i].tokenEnv]
               /\ cfg.principals[i].token # "" /\ ps[i].name # "" /\ ps[i].role \in validRoles
    <2>1. cfg.principals[i] = [p |-> ps[i], token |-> Getenv(start.env, ps[i].tokenEnv)]
          /\ i \in DOMAIN cfg.principals
      BY <1>2, <1>3
    <2>2. cfg.principals[i].p = ps[i]
          /\ cfg.principals[i].token = Getenv(start.env, ps[i].tokenEnv)
      BY <2>1
    <2>3. /\ cfg.principals[i].p.name # "" /\ cfg.principals[i].p.role \in validRoles
          /\ cfg.principals[i].p.tokenEnv # "" /\ cfg.principals[i].token # ""
      BY <1>4, <2>1 DEF ValidTokenAuth
    <2>4. Getenv(start.env, ps[i].tokenEnv) = start.env[ps[i].tokenEnv]
      BY <2>2, <2>3, Zenon DEF Getenv
    <2> QED BY <2>2, <2>3, <2>4
  <1>7. cfg.token # "" \/ cfg.principals # << >> BY <1>4 DEF ValidTokenAuth
  <1> QED BY <1>2, <1>3, <1>5, <1>6, <1>7 DEF ps

\* The entries of the identity: the legacy token, if it is set, and one per principal.
Legacy == [name |-> "default", role |-> "admin", token |-> cfg.token]
EntryOf(i) == [name |-> start.file.principals[i].name, role |-> start.file.principals[i].role,
               token |-> cfg.principals[i].token]

\* Each of them is there, and nothing else.
LEMMA EntriesAre ==
    ASSUME ConfigLoaded, cfg.mode # "proxy"
    PROVE  /\ Len(Entries(cfg)) \in Nat /\ DOMAIN Entries(cfg) = 1..Len(Entries(cfg))
           /\ \A j \in DOMAIN Entries(cfg) :
                 \/ cfg.token # "" /\ Entries(cfg)[j] = Legacy
                 \/ \E i \in 1..Len(start.file.principals) : Entries(cfg)[j] = EntryOf(i)
           /\ cfg.token # "" => \E j \in DOMAIN Entries(cfg) : Entries(cfg)[j] = Legacy
           /\ \A i \in 1..Len(start.file.principals) :
                 \E j \in DOMAIN Entries(cfg) : Entries(cfg)[j] = EntryOf(i)
  <1> DEFINE n == Len(start.file.principals)
             tail == [i \in 1..n |-> EntryOf(i)]
             lead == IF cfg.token = "" THEN << >> ELSE <<Legacy>>
             S == {Legacy} \cup {EntryOf(i) : i \in 1..n}
  <1>1. n \in Nat BY TokenConfig
  <1>2. Entries(cfg) = lead \o tail
    <2>1. DOMAIN cfg.principals = 1..n BY TokenConfig
    <2>2. \A i \in 1..n : cfg.principals[i].p = start.file.principals[i]
      <3>1. cfg.principals = [i \in 1..n |->
               [p |-> start.file.principals[i],
                token |-> Getenv(start.env, start.file.principals[i].tokenEnv)]]
        BY TokenConfig
      <3> HIDE DEF n
      <3> QED BY <3>1
    <2>3. [i \in DOMAIN cfg.principals |->
             [name |-> cfg.principals[i].p.name, role |-> cfg.principals[i].p.role,
              token |-> cfg.principals[i].token]] = tail
      BY <2>1, <2>2 DEF EntryOf
    <2> QED BY <2>3, Zenon DEF Entries, Legacy
  <1> HIDE DEF n
  <1>3. tail \in Seq(S) /\ Len(tail) = n /\ \A i \in 1..n : tail[i] = EntryOf(i)
    <2>1. \A i \in 1..n : EntryOf(i) \in S OBVIOUS
    <2> HIDE DEF S
    <2> QED BY <1>1, <2>1
  <1> HIDE DEF tail
  <1>4. Legacy \in S OBVIOUS
  <1> HIDE DEF S
  <1> DEFINE e == lead \o tail
  <1>5. CASE cfg.token = ""
    <2>1. lead = << >> BY <1>5
    <2> HIDE DEF lead
    <2>2. Entries(cfg) = tail BY <1>2, <1>3, <2>1
    <2>3. DOMAIN tail = 1..n BY <1>1, <1>3
    <2> QED BY <1>1, <1>3, <1>5, <2>2, <2>3 DEF n
  <1>6. CASE cfg.token # ""
    <2>1. lead = <<Legacy>> BY <1>6
    <2> HIDE DEF lead
    <2>2. lead \in Seq(S) /\ Len(lead) = 1 /\ lead[1] = Legacy BY <1>4, <2>1
    <2>3. /\ e \in Seq(S) /\ Len(e) = n + 1 /\ e[1] = Legacy
          /\ \A j \in 2..n+1 : e[j] = tail[j - 1]
      <3>1. tail \in Seq(S) /\ Len(tail) = n BY <1>3
      <3>7. lead \in Seq(S) BY <2>2
      <3>2. /\ e \in Seq(S) /\ Len(e) = Len(lead) + Len(tail)
            /\ \A j \in 1..Len(lead) + Len(tail) :
                  e[j] = IF j <= Len(lead) THEN lead[j] ELSE tail[j - Len(lead)]
        BY <3>1, <3>7, ConcatProperties, Zenon
      <3>3. \A j \in 1..Len(e) : e[j] = IF j <= Len(lead) THEN lead[j] ELSE tail[j - Len(lead)]
        BY <3>2
      <3>4. Len(e) = n + 1 BY <1>1, <2>2, <3>1, <3>2
      <3> HIDE DEF e
      <3>5. e[1] = Legacy
        <4>1. 1 \in 1..Len(e) /\ 1 <= Len(lead) BY <1>1, <2>2, <3>4
        <4> QED BY <2>2, <3>3, <4>1
      <3>6. ASSUME NEW j \in 2..n+1 PROVE e[j] = tail[j - 1]
        <4>1. j \in 1..Len(e) /\ ~(j <= Len(lead)) BY <1>1, <2>2, <3>4
        <4> QED BY <2>2, <3>3, <4>1
      <3> QED BY <3>2, <3>4, <3>5, <3>6
    <2> HIDE DEF e
    <2>4. DOMAIN e = 1..n+1 BY <2>3
    <2>5. \A j \in 1..n+1 : j = 1 \/ (j \in 2..n+1 /\ j - 1 \in 1..n) BY <1>1
    <2>6. \A i \in 1..n : i + 1 \in 2..n+1 /\ i + 1 \in 1..n+1 /\ (i + 1) - 1 = i BY <1>1
    <2>7. \A j \in 1..n+1 : e[j] = Legacy \/ \E i \in 1..n : e[j] = EntryOf(i)
      BY <1>3, <2>3, <2>5
    <2>8. \A i \in 1..n : e[i + 1] = EntryOf(i) BY <1>3, <2>3, <2>6
    <2>9. 1 \in 1..n+1 /\ n + 1 \in Nat BY <1>1
    <2>10. e = Entries(cfg) BY <1>2 DEF e
    <2> QED BY <1>6, <2>3, <2>4, <2>6, <2>7, <2>8, <2>9, <2>10 DEF n
  <1> QED BY <1>5, <1>6

\* The identity that is built from the configuration.
IdentityBuilt == identity = IF cfg.mode = "proxy" THEN NewProxyIdentity(cfg)
                            ELSE NewTokenIdentity(Entries(cfg))

\* Authenticate finds no one for a request that can claim nothing, and otherwise one of
\* the grants it can claim, which every one of its credentials has a grant up to.
Grants(r, p) ==
    \/ p = NoOne /\ Claims(r) = {}
    \/ /\ p # NoOne /\ p.name # "" /\ p.role \in validRoles
       /\ \E G \in Claims(r) : <<p.name, p.role>> \in G
       /\ \A G \in Claims(r) : \E g \in G : g[2] \in validRoles /\ Rank(g[2]) <= Rank(p.role)

\* The tokens the identity knows, and whom it takes them for.
LEMMA ByHash ==
    ASSUME ConfigLoaded, cfg.mode # "proxy", IdentityBuilt, NEW t
    PROVE  /\ t \in DOMAIN identity.byHash <=>
                 t # "" /\ \E j \in DOMAIN Entries(cfg) : Entries(cfg)[j].token = t
           /\ t \in DOMAIN identity.byHash =>
                 \E j \in DOMAIN Entries(cfg) :
                    Entries(cfg)[j].token = t /\ identity.byHash[t] = Entries(cfg)[j]
  <1> DEFINE e == Entries(cfg)
             last(u) == Max({j \in DOMAIN e : e[j].token = u})
             known == {e[j].token : j \in DOMAIN e} \ {""}
  <1>1. identity.byHash = [u \in known |-> e[last(u)]]
    BY DEF IdentityBuilt, NewTokenIdentity
  <1>2. t \in known <=> t # "" /\ \E j \in DOMAIN e : e[j].token = t OBVIOUS
  <1>3. ASSUME t \in known PROVE last(t) \in DOMAIN e /\ e[last(t)].token = t
    <2>1. Len(e) \in Nat /\ DOMAIN e = 1..Len(e) BY EntriesAre
    <2> DEFINE J == {j \in DOMAIN e : e[j].token = t}
    <2>2. J # {} BY <1>2, <1>3
    <2>3. J \in SUBSET (1..Len(e)) BY <2>1
    <2>4. Max(J) \in J
      <3> HIDE DEF J, e
      <3> QED BY <2>1, <2>2, <2>3, LastIndex
    <2> QED BY <2>4
  <1> HIDE DEF e, last, known
  <1>4. DOMAIN identity.byHash = known BY <1>1
  <1>5. t \in known => identity.byHash[t] = e[last(t)] BY <1>1
  <1>6. /\ t \in DOMAIN identity.byHash <=> t # "" /\ \E j \in DOMAIN e : e[j].token = t
        /\ t \in DOMAIN identity.byHash =>
              \E j \in DOMAIN e : e[j].token = t /\ identity.byHash[t] = e[j]
    BY <1>2, <1>3, <1>4, <1>5, Zenon
  <1> QED BY <1>6 DEF e

\* The grants of a token, as the configuration has them.
LEMMA ByTokenIs ==
    ASSUME ConfigLoaded, cfg.mode # "proxy", NEW t
    PROVE  \A g : g \in ByToken(t) <=>
              \/ cfg.token = t /\ g = <<"default", "admin">>
              \/ \E i \in 1..Len(start.file.principals) :
                    /\ cfg.principals[i].token = t
                    /\ g = <<start.file.principals[i].name, start.file.principals[i].role>>
  <1> DEFINE ps == start.file.principals
  <1>1. /\ DOMAIN ps = 1..Len(ps) /\ cfg.token = start.env["PGLOCKR_TOKEN"]
        /\ \A i \in 1..Len(ps) : cfg.principals[i].token = start.env[ps[i].tokenEnv]
    BY TokenConfig
  <1>2. ByToken(t) = {<<p.name, p.role>> : p \in {q \in Range(ps) : start.env[q.tokenEnv] = t}}
                     \cup (IF start.env["PGLOCKR_TOKEN"] = t THEN {<<"default", "admin">>} ELSE {})
    BY DEF ByToken
  <1> HIDE DEF ps
  <1>3. \A p : p \in Range(ps) <=> \E i \in 1..Len(ps) : p = ps[i]
    BY <1>1 DEF Range
  <1> DEFINE A == {<<p.name, p.role>> : p \in {q \in Range(ps) : start.env[q.tokenEnv] = t}}
             B == IF start.env["PGLOCKR_TOKEN"] = t THEN {<<"default", "admin">>} ELSE {}
  <1>4. ASSUME NEW g
        PROVE  g \in A <=> \E i \in 1..Len(ps) : /\ start.env[ps[i].tokenEnv] = t
                                                 /\ g = <<ps[i].name, ps[i].role>>
    <2>1. g \in A <=> \E p \in Range(ps) : start.env[p.tokenEnv] = t /\ g = <<p.name, p.role>>
      BY Zenon
    <2> HIDE DEF A
    <2>2. ASSUME NEW i \in 1..Len(ps), start.env[ps[i].tokenEnv] = t, g = <<ps[i].name, ps[i].role>>
          PROVE  g \in A
      <3>1. ps[i] \in Range(ps) BY <1>3
      <3> QED BY <2>1, <2>2, <3>1, Zenon
    <2>3. ASSUME g \in A
          PROVE  \E i \in 1..Len(ps) : /\ start.env[ps[i].tokenEnv] = t
                                        /\ g = <<ps[i].name, ps[i].role>>
      <3>1. PICK p \in Range(ps) : start.env[p.tokenEnv] = t /\ g = <<p.name, p.role>>
        BY <2>1, <2>3, Zenon
      <3>2. PICK i \in 1..Len(ps) : p = ps[i] BY <1>3
      <3> QED BY <3>1, <3>2, Zenon
    <2> QED BY <2>2, <2>3, Zenon
  <1>5. \A g : g \in B <=> cfg.token = t /\ g = <<"default", "admin">> BY <1>1, Zenon
  <1> HIDE DEF A, B
  <1>6. \A g : g \in ByToken(t) <=> g \in A \/ g \in B BY <1>2 DEF A, B
  <1>7. ASSUME NEW g
        PROVE  (\E i \in 1..Len(ps) : /\ start.env[ps[i].tokenEnv] = t
                                       /\ g = <<ps[i].name, ps[i].role>>)
               <=> \E i \in 1..Len(ps) : /\ cfg.principals[i].token = t
                                          /\ g = <<ps[i].name, ps[i].role>>
    BY <1>1, Zenon
  <1> QED BY <1>4, <1>5, <1>6, <1>7, Zenon DEF ps

\* A pair that is a grant of a role, and the ranks compared in Grants.
LEMMA OwnGrant ==
    ASSUME NEW name, NEW role \in validRoles, NEW G, <<name, role>> \in G
    PROVE  \E g \in G : g[2] \in validRoles /\ Rank(g[2]) <= Rank(role)
  <1>1. Rank(role) \in 1..3 BY Ranks
  <1> DEFINE n == Rank(role)
  <1>2. n <= n
    <2> HIDE DEF n
    <2> QED BY <1>1 DEF n
  <1>3. <<name, role>>[2] = role OBVIOUS
  <1> QED BY <1>2, <1>3, Zenon

\* The token of a request is taken for a principal of the configuration that has it.
LEMMA TokenGrants ==
    ASSUME ConfigLoaded, cfg.mode # "proxy", IdentityBuilt, NEW r
    PROVE  Grants(r, Authenticate(r))
  <1> DEFINE t == TokenFromRequest(r)
             e == Entries(cfg)
             n == Len(start.file.principals)
  <1>1. Authenticate(r) = IF t \in DOMAIN identity.byHash
                          THEN [name |-> identity.byHash[t].name, role |-> identity.byHash[t].role]
                          ELSE NoOne
    <2>1. identity.kind = "token" BY DEF IdentityBuilt, NewTokenIdentity
    <2> QED BY <2>1, Zenon DEF Authenticate, AuthenticateToken
  <1>2. Claims(r) = IF t = "" THEN {} ELSE {ByToken(t)} \ {{}}
    <2>1. start.file.mode # "proxy" BY TokenConfig
    <2> QED BY <2>1, Zenon DEF Claims
  <1> HIDE DEF t, e, n
  <1>3. ASSUME NEW j \in DOMAIN e
        PROVE  \/ cfg.token # "" /\ e[j] = Legacy
               \/ \E i \in 1..n : e[j] = EntryOf(i)
    BY EntriesAre DEF e, n
  <1>4. CASE t \notin DOMAIN identity.byHash
    <2>1. Authenticate(r) = NoOne BY <1>1, <1>4
    <2>2. ASSUME t # "", NEW g \in ByToken(t) PROVE FALSE
      <3>1. ~ \E j \in DOMAIN e : e[j].token = t BY <1>4, <2>2, ByHash DEF e
      <3>2. CASE cfg.token = t
        <4>1. PICK j \in DOMAIN e : e[j] = Legacy BY <2>2, <3>2, EntriesAre DEF e
        <4>2. Legacy.token = cfg.token BY DEF Legacy
        <4> QED BY <3>1, <3>2, <4>1, <4>2
      <3>3. CASE \E i \in 1..n : cfg.principals[i].token = t
        <4>1. PICK i \in 1..n : cfg.principals[i].token = t BY <3>3
        <4>2. PICK j \in DOMAIN e : e[j] = EntryOf(i) BY EntriesAre DEF e, n
        <4>3. EntryOf(i).token = cfg.principals[i].token BY DEF EntryOf
        <4> QED BY <3>1, <4>1, <4>2, <4>3
      <3> QED BY <3>2, <3>3, ByTokenIs, Zenon DEF n
    <2>3. Claims(r) = {} BY <1>2, <2>2
    <2> QED BY <2>1, <2>3 DEF Grants
  <1>5. CASE t \in DOMAIN identity.byHash
    <2>1. t # "" BY <1>5, ByHash
    <2>2. PICK j \in DOMAIN e : e[j].token = t /\ identity.byHash[t] = e[j]
      BY <1>5, ByHash DEF e
    <2> DEFINE p == Authenticate(r)
    <2>3. p = [name |-> e[j].name, role |-> e[j].role] BY <1>1, <1>5, <2>2
    <2>4. p.name = e[j].name /\ p.role = e[j].role BY <2>3
    <2> HIDE DEF p
    <2>5. /\ p.name # "" /\ p.role \in validRoles /\ <<p.name, p.role>> \in ByToken(t)
      <3>1. CASE e[j] = Legacy
        <4>1. p.name = "default" /\ p.role = "admin" BY <2>4, <3>1 DEF Legacy
        <4>2. cfg.token = t BY <2>2, <3>1 DEF Legacy
        <4>3. <<p.name, p.role>> = <<"default", "admin">> BY <4>1
        <4>4. <<p.name, p.role>> \in ByToken(t) BY <4>2, <4>3, ByTokenIs, Zenon
        <4> QED BY <4>1, <4>4 DEF validRoles
      <3>2. CASE \E i \in 1..n : e[j] = EntryOf(i)
        <4>1. PICK i \in 1..n : e[j] = EntryOf(i) BY <3>2
        <4>2. /\ p.name = start.file.principals[i].name /\ p.role = start.file.principals[i].role
              /\ cfg.principals[i].token = t
          BY <2>2, <2>4, <4>1 DEF EntryOf
        <4>3. <<p.name, p.role>> = <<start.file.principals[i].name, start.file.principals[i].role>>
          BY <4>2
        <4>4. <<p.name, p.role>> \in ByToken(t) BY <4>2, <4>3, ByTokenIs, Zenon DEF n
        <4>5. start.file.principals[i].name # "" /\ start.file.principals[i].role \in validRoles
          BY TokenConfig DEF n
        <4> QED BY <4>2, <4>4, <4>5
      <3> QED BY <1>3, <3>1, <3>2
    <2>6. Claims(r) = {ByToken(t)} BY <1>2, <2>1, <2>5
    <2>7. p # NoOne
      <3>1. NoOne.name = "" BY DEF NoOne
      <3> QED BY <2>5, <3>1, Zenon
    <2>8. \E g \in ByToken(t) : g[2] \in validRoles /\ Rank(g[2]) <= Rank(p.role)
      BY <2>5, OwnGrant, Zenon
    <2> QED BY <2>5, <2>6, <2>7, <2>8, Zenon DEF Grants, p
  <1> QED BY <1>4, <1>5

-----------------------------------------------------------------------------
(* The headers of an SSO proxy *)

\* A stretch of a stretch of a text is a stretch of the text.
LEMMA Stretch ==
    ASSUME NEW h \in Seq(STRING), NEW a \in Nat, NEW z \in Nat, a <= z, z <= Len(h),
           NEW lo \in 1..z-a, NEW hi \in 1..z-a
    PROVE  /\ SubSeq(h, a + 1, z) \in Seq(STRING) /\ Len(SubSeq(h, a + 1, z)) = z - a
           /\ \A x \in 1..z-a : SubSeq(h, a + 1, z)[x] = h[a + x]
           /\ SubSeq(SubSeq(h, a + 1, z), lo, hi) = SubSeq(h, a + lo, a + hi)
  <1> DEFINE s == SubSeq(h, a + 1, z)
  <1>1. s \in Seq(STRING) /\ Len(s) = z - a /\ \A x \in 1..z-a : s[x] = h[a + x] OBVIOUS
  <1> HIDE DEF s
  <1>2. SubSeq(s, lo, hi) = [x \in 1..hi-lo+1 |-> s[lo + x - 1]] BY <1>1
  <1>3. SubSeq(h, a + lo, a + hi) = [x \in 1..(a+hi)-(a+lo)+1 |-> h[a + lo + x - 1]] OBVIOUS
  <1>4. (a + hi) - (a + lo) + 1 = hi - lo + 1 OBVIOUS
  <1>5. \A x \in 1..hi-lo+1 : s[lo + x - 1] = h[a + lo + x - 1]
    <2> TAKE x \in 1..hi-lo+1
    <2>1. lo + x - 1 \in 1..z-a /\ a + (lo + x - 1) = a + lo + x - 1 OBVIOUS
    <2> QED BY <1>1, <2>1
  <1>6. SubSeq(s, lo, hi) = SubSeq(h, a + lo, a + hi) BY <1>2, <1>3, <1>4, <1>5
  <1> QED BY <1>1, <1>6 DEF s

\* The places lo and hi are where a text begins and ends but for blanks.
Within(s, lo, hi) == /\ lo \in DOMAIN s /\ hi \in DOMAIN s /\ lo <= hi
                     /\ s[lo] # Blank /\ s[hi] # Blank
                     /\ \A x \in DOMAIN s : x < lo \/ x > hi => s[x] = Blank

\* TrimSpace leaves what is between them.
LEMMA TrimIs ==
    ASSUME NEW s \in Seq(STRING)
    PROVE  /\ Trim(s) # << >> => \E lo, hi \in DOMAIN s :
                                     Within(s, lo, hi) /\ Trim(s) = SubSeq(s, lo, hi)
           /\ \A lo, hi \in DOMAIN s : Within(s, lo, hi) => Trim(s) = SubSeq(s, lo, hi)
  <1> DEFINE solid == {i \in DOMAIN s : s[i] # Blank}
  <1>1. Len(s) \in Nat /\ DOMAIN s = 1..Len(s) /\ solid \in SUBSET (0..Len(s)) OBVIOUS
  <1>2. Trim(s) = IF solid = {} THEN << >> ELSE SubSeq(s, Min(solid), Max(solid)) BY DEF Trim
  <1>3. solid # {} => /\ Min(solid) \in solid /\ \A y \in solid : Min(solid) <= y
                      /\ Max(solid) \in solid /\ \A y \in solid : y <= Max(solid)
    <2> HIDE DEF solid
    <2> QED BY <1>1, Extremes
  <1>4. \A x \in DOMAIN s : x \in solid <=> s[x] # Blank OBVIOUS
  <1>5. ASSUME Trim(s) # << >>
        PROVE  \E lo, hi \in DOMAIN s : Within(s, lo, hi) /\ Trim(s) = SubSeq(s, lo, hi)
    <2> DEFINE lo == Min(solid)
               hi == Max(solid)
    <2>1. solid # {} BY <1>2, <1>5
    <2>2. /\ lo \in solid /\ hi \in solid /\ lo <= hi
          /\ \A y \in solid : lo <= y /\ y <= hi
      BY <1>3, <2>1
    <2>3. lo \in DOMAIN s /\ hi \in DOMAIN s BY <1>1, <2>2
    <2>4. Trim(s) = SubSeq(s, lo, hi) BY <1>2, <2>1
    <2> HIDE DEF lo, hi, solid
    <2>5. \A x \in DOMAIN s : x < lo \/ x > hi => s[x] = Blank BY <1>1, <1>4, <2>2, <2>3
    <2>6. Within(s, lo, hi) BY <1>4, <2>2, <2>3, <2>5 DEF Within
    <2> QED BY <2>3, <2>4, <2>6
  <1>6. ASSUME NEW lo \in DOMAIN s, NEW hi \in DOMAIN s, Within(s, lo, hi)
        PROVE  Trim(s) = SubSeq(s, lo, hi)
    <2>1. /\ lo \in solid /\ hi \in solid /\ \A y \in solid : lo <= y /\ y <= hi
      <3>1. lo \in solid /\ hi \in solid BY <1>6 DEF Within
      <3>2. ASSUME NEW y \in solid PROVE lo <= y /\ y <= hi
        <4>1. y \in DOMAIN s /\ s[y] # Blank OBVIOUS
        <4>2. ~(y < lo) /\ ~(y > hi) BY <1>6, <4>1 DEF Within
        <4> QED BY <1>1, <4>1, <4>2
      <3> QED BY <3>1, <3>2
    <2>2. solid # {} BY <2>1
    <2> HIDE DEF solid
    <2>3. Min(solid) \in 1..Len(s) /\ Max(solid) \in 1..Len(s)
      <3>1. solid \subseteq DOMAIN s BY DEF solid
      <3> QED BY <1>1, <1>3, <2>2, <3>1
    <2>4. Min(solid) = lo BY <1>1, <1>3, <2>1, <2>2, <2>3
    <2>5. Max(solid) = hi BY <1>1, <1>3, <2>1, <2>2, <2>3
    <2> QED BY <1>2, <2>2, <2>4, <2>5
  <1> QED BY <1>5, <1>6

\* A header is split and trimmed into the groups it lists.
LEMMA GroupsListed ==
    ASSUME NEW h \in Seq(STRING), NEW g
    PROVE  /\ Len(GroupsOf(h)) \in Nat /\ DOMAIN GroupsOf(h) = 1..Len(GroupsOf(h))
           /\ (\E k \in DOMAIN GroupsOf(h) : GroupsOf(h)[k] # << >> /\ GroupsOf(h)[k] = g)
                 <=> Listed(h, identity.sep, g)
  <1> DEFINE n == Len(h)
             sep == identity.sep
             ends == {k \in DOMAIN h : h[k] = sep} \cup {n + 1}
             before(k) == Max({0} \cup {e \in ends : e < k})
             part(k) == SubSeq(h, before(k) + 1, k - 1)
             solid(s) == {i \in DOMAIN s : s[i] # Blank}
  <1>1. n \in Nat /\ DOMAIN h = 1..n OBVIOUS
  <1>2. Split(h, sep) = [k \in 1..n+1 |-> IF k \in ends THEN part(k) ELSE << >>] BY DEF Split
  <1>3. /\ DOMAIN GroupsOf(h) = 1..n+1
        /\ \A k \in 1..n+1 : GroupsOf(h)[k] = Trim(IF k \in ends THEN part(k) ELSE << >>)
    <2> HIDE DEF ends, part
    <2>1. DOMAIN Split(h, sep) = 1..n+1 BY <1>2
    <2> QED BY <1>2, <2>1 DEF GroupsOf
  <1>4. Len(GroupsOf(h)) = n + 1
    <2>1. GroupsOf(h) = [k \in 1..n+1 |-> GroupsOf(h)[k]] BY <1>3 DEF GroupsOf
    <2> QED BY <1>1, <1>3, <2>1
  <1>5. ends \subseteq 1..n+1 BY <1>1
  <1>6. ASSUME NEW k \in ends
        PROVE  /\ before(k) \in 0..k-1
               /\ before(k) = 0 \/ h[before(k)] = sep
               /\ \A e \in ends : e < k => e <= before(k)
    <2> DEFINE E == {0} \cup {e \in ends : e < k}
    <2>1. E \in SUBSET (0..n+1) /\ E # {} BY <1>1, <1>5
    <2>2. Max(E) \in E /\ \A y \in E : y <= Max(E)
      <3> HIDE DEF E
      <3>1. n + 1 \in Nat BY <1>1
      <3> QED BY <2>1, <3>1, Extremes
    <2>3. before(k) \in E /\ \A y \in E : y <= before(k) BY <2>2
    <2> HIDE DEF before
    <2>4. k \in 1..n+1 BY <1>5
    <2>5. before(k) \in 0..k-1 BY <1>1, <1>5, <2>3, <2>4
    <2>6. before(k) = 0 \/ (before(k) \in ends /\ before(k) < k) BY <2>3
    <2>7. before(k) # n + 1 BY <1>1, <2>4, <2>5
    <2> QED BY <2>3, <2>5, <2>6, <2>7
  <1>7. ASSUME NEW k \in ends, NEW a \in 0..k-1, a = before(k)
        PROVE  /\ a \in Nat /\ k - 1 \in Nat /\ a <= k - 1 /\ k - 1 <= n
               /\ a = 0 \/ h[a] = sep
               /\ k = n + 1 \/ h[k] = sep
               /\ \A e \in ends : e < k => e <= a
               /\ GroupsOf(h)[k] = Trim(SubSeq(h, a + 1, k - 1))
    <2>1. k \in 1..n+1 BY <1>5
    <2>2. GroupsOf(h)[k] = Trim(SubSeq(h, a + 1, k - 1)) BY <1>3, <1>7, <2>1
    <2>3. a = 0 \/ h[a] = sep BY <1>6, <1>7
    <2>4. \A e \in ends : e < k => e <= a BY <1>6, <1>7
    <2>5. k = n + 1 \/ h[k] = sep OBVIOUS
    <2> HIDE DEF ends
    <2> QED BY <1>1, <2>1, <2>2, <2>3, <2>4, <2>5
  <1>8. \A x \in 1..n : h[x] = sep => x \in ends BY <1>1
  <1>9. n + 1 \in ends OBVIOUS
  <1>10. \A k \in 1..n+1 : k \notin ends => GroupsOf(h)[k] = << >>
    <2>1. Trim(<< >>) = << >> BY DEF Trim
    <2> HIDE DEF ends
    <2> QED BY <1>3, <2>1
  <1> HIDE DEF ends, before, n
  <1>11. ASSUME NEW k \in DOMAIN GroupsOf(h), GroupsOf(h)[k] # << >>, GroupsOf(h)[k] = g
         PROVE  Listed(h, sep, g)
    <2>1. k \in ends BY <1>3, <1>10, <1>11
    <2>2. PICK a \in 0..k-1 : a = before(k) BY <1>6, <2>1
    <2> DEFINE s == SubSeq(h, a + 1, k - 1)
    <2>3. /\ a \in Nat /\ k - 1 \in Nat /\ a <= k - 1 /\ k - 1 <= n
          /\ a = 0 \/ h[a] = sep
          /\ k = n + 1 \/ h[k] = sep
          /\ \A e \in ends : e < k => e <= a
          /\ g = Trim(s)
      BY <1>7, <1>11, <2>1, <2>2
    <2>4. s \in Seq(STRING) /\ Len(s) = (k - 1) - a BY <2>3, <1>1 DEF n
    <2>5. PICK lo \in DOMAIN s, hi \in DOMAIN s : Within(s, lo, hi) /\ Trim(s) = SubSeq(s, lo, hi)
      <3> HIDE DEF s
      <3> QED BY <1>11, <2>3, <2>4, TrimIs
    <2>6. lo \in 1..(k-1)-a /\ hi \in 1..(k-1)-a BY <2>4, <2>5
    <2>7. /\ \A x \in 1..(k-1)-a : s[x] = h[a + x]
          /\ SubSeq(s, lo, hi) = SubSeq(h, a + lo, a + hi)
      BY <2>3, <2>6, Stretch DEF n
    <2> HIDE DEF s
    <2> DEFINE i == a + lo
               j == a + hi
    <2>8. /\ i \in 1..n /\ j \in 1..n /\ i <= j /\ a \in 0..i-1 /\ k \in j+1..n+1
          /\ h[i] # Blank /\ h[j] # Blank
          /\ \A x \in a+1..i-1 : h[x] = Blank
          /\ \A x \in j+1..k-1 : h[x] = Blank
      <3>1. lo <= hi /\ s[lo] # Blank /\ s[hi] # Blank BY <2>5 DEF Within
      <3>2. s[lo] = h[i] /\ s[hi] = h[j] BY <2>6, <2>7
      <3>7. k \in 1..n+1 BY <1>5, <2>1
      <3>8. a \in Nat /\ a <= k - 1 /\ k - 1 <= n BY <2>3
      <3>3. i \in 1..n /\ j \in 1..n /\ i <= j /\ a \in 0..i-1 /\ k \in j+1..n+1
        BY <1>1, <2>6, <3>1, <3>7, <3>8
      <3>4. ASSUME NEW x \in a+1..k-1, x < i \/ x > j PROVE h[x] = Blank
        <4> DEFINE y == x - a
        <4>1. y \in 1..(k-1)-a /\ a + y = x /\ (y < lo \/ y > hi) BY <2>3, <2>6, <3>4
        <4>2. y \in DOMAIN s BY <2>4, <4>1
        <4>3. s[y] = Blank BY <2>5, <4>1, <4>2 DEF Within
        <4> QED BY <2>7, <4>1, <4>3
      <3>5. \A x \in a+1..i-1 : h[x] = Blank
        <4> TAKE x \in a+1..i-1
        <4>1. x \in a+1..k-1 /\ x < i BY <2>3, <2>6, <3>3
        <4> QED BY <3>4, <4>1
      <3>6. \A x \in j+1..k-1 : h[x] = Blank
        <4> TAKE x \in j+1..k-1
        <4>1. x \in a+1..k-1 /\ x > j BY <2>3, <2>6, <3>3
        <4> QED BY <3>4, <4>1
      <3> QED BY <3>1, <3>2, <3>3, <3>5, <3>6
    <2>9. g = SubSeq(h, i, j) BY <2>3, <2>5, <2>7
    <2> HIDE DEF i, j
    <2>10. /\ Len(g) = j - i + 1 /\ DOMAIN g = 1..j-i+1
           /\ \A m \in 1..j-i+1 : g[m] = h[i + m - 1]
      BY <1>1, <2>8, <2>9 DEF n
    <2>11. g # << >> BY <1>11
    <2>12. g[1] # Blank /\ g[Len(g)] # Blank
      <3>1. 1 \in 1..j-i+1 /\ j - i + 1 \in 1..j-i+1 /\ i + 1 - 1 = i /\ i + (j - i + 1) - 1 = j
        BY <1>1, <2>8
      <3>2. g[1] = h[i] /\ g[j-i+1] = h[j] BY <2>10, <3>1
      <3> QED BY <2>8, <2>10, <3>2
    <2>13. ASSUME NEW m \in DOMAIN g, g[m] = sep PROVE FALSE
      <3> DEFINE x == i + m - 1
      <3>1. x \in 1..n /\ x > a /\ x < k BY <1>1, <2>8, <2>10
      <3>2. h[x] = sep BY <2>10, <2>13
      <3>3. x \in ends BY <1>8, <3>1, <3>2
      <3>4. x <= a BY <2>3, <3>1, <3>3
      <3> QED BY <2>3, <3>1, <3>4
    <2>14. i \in DOMAIN h /\ j \in DOMAIN h BY <1>1, <2>8
    <2>15. \E c \in 0..i-1 : (c = 0 \/ h[c] = sep) /\ \A x \in c+1..i-1 : h[x] = Blank
      BY <2>3, <2>8
    <2>16. \E b \in j+1..n+1 : (b = n + 1 \/ h[b] = sep) /\ \A x \in j+1..b-1 : h[x] = Blank
      BY <2>3, <2>8
    <2> QED BY <2>9, <2>11, <2>12, <2>13, <2>14, <2>15, <2>16 DEF Listed, n
  <1>12. ASSUME Listed(h, sep, g)
         PROVE  \E k \in DOMAIN GroupsOf(h) : GroupsOf(h)[k] # << >> /\ GroupsOf(h)[k] = g
    <2>1. /\ g # << >> /\ g[1] # Blank /\ g[Len(g)] # Blank
          /\ \A m \in DOMAIN g : g[m] # sep
      BY <1>12 DEF Listed
    <2>2. PICK i \in DOMAIN h, j \in DOMAIN h :
             /\ SubSeq(h, i, j) = g
             /\ \E a \in 0..i-1 : /\ a = 0 \/ h[a] = sep
                                  /\ \A x \in a+1..i-1 : h[x] = Blank
             /\ \E b \in j+1..n+1 : /\ b = n + 1 \/ h[b] = sep
                                    /\ \A x \in j+1..b-1 : h[x] = Blank
      BY <1>12 DEF Listed, n
    <2>3. PICK a \in 0..i-1 : (a = 0 \/ h[a] = sep) /\ \A x \in a+1..i-1 : h[x] = Blank BY <2>2
    <2>4. PICK b \in j+1..n+1 : (b = n + 1 \/ h[b] = sep) /\ \A x \in j+1..b-1 : h[x] = Blank
      BY <2>2
    <2>5. i \in 1..n /\ j \in 1..n /\ i <= j
      <3>1. i \in 1..n /\ j \in 1..n BY <1>1
      <3>2. ~(i <= j) => SubSeq(h, i, j) = << >> BY <1>1, <3>1
      <3> QED BY <2>1, <2>2, <3>1, <3>2
    <2>6. /\ Len(g) = j - i + 1 /\ DOMAIN g = 1..j-i+1
          /\ \A m \in 1..j-i+1 : g[m] = h[i + m - 1]
      <3>1. g = SubSeq(h, i, j) BY <2>2
      <3>2. i \in 1..n /\ j \in 1..n /\ i <= j BY <2>5
      <3> QED BY <1>1, <3>1, <3>2 DEF n
    <2>7. h[i] # Blank /\ h[j] # Blank /\ \A x \in i..j : h[x] # sep
      <3>1. 1 \in 1..j-i+1 /\ j - i + 1 \in 1..j-i+1 /\ i + 1 - 1 = i /\ i + (j - i + 1) - 1 = j
        BY <1>1, <2>5
      <3>2. h[i] = g[1] /\ h[j] = g[Len(g)] BY <2>6, <3>1
      <3>3. ASSUME NEW x \in i..j PROVE h[x] # sep
        <4>1. x - i + 1 \in 1..j-i+1 /\ i + (x - i + 1) - 1 = x BY <2>5
        <4>2. g[x - i + 1] = h[x] BY <2>6, <4>1
        <4> QED BY <2>1, <2>6, <4>1, <4>2
      <3> QED BY <2>1, <3>2, <3>3
    <2> DEFINE later == {e \in ends : e > j}
               k == Min(later)
    <2>8. later \in SUBSET (0..n+1) /\ b \in later
      <3>2. b = n + 1 \/ b \in 1..n BY <1>1, <2>4, <2>5
      <3>1. b \in ends BY <1>8, <1>9, <2>4, <3>2
      <3>3. \A e \in ends : e \in 0..n+1 BY <1>1, <1>5
      <3>4. b > j BY <2>4, <2>5
      <3> QED BY <3>1, <3>3, <3>4
    <2>9. k \in later /\ \A e \in later : k <= e
      <3> HIDE DEF later
      <3>1. n + 1 \in Nat /\ later # {} BY <1>1, <2>8
      <3> QED BY <2>8, <3>1, Extremes
    <2>10. k \in ends /\ k > j /\ k <= b /\ \A e \in ends : e > j => k <= e BY <2>8, <2>9
    <2> HIDE DEF later, k
    <2>11. PICK c \in 0..k-1 : c = before(k) BY <1>6, <2>10
    <2>12. /\ c \in Nat /\ k - 1 \in Nat /\ c <= k - 1 /\ k - 1 <= n
           /\ c = 0 \/ h[c] = sep
           /\ \A e \in ends : e < k => e <= c
           /\ GroupsOf(h)[k] = Trim(SubSeq(h, c + 1, k - 1))
      BY <1>7, <2>10, <2>11
    <2>13. k \in 1..n+1 BY <1>5, <2>10
    <2>14. c < i
      <3> SUFFICES ASSUME c >= i PROVE FALSE BY <2>12, <2>5
      <3>1. c \in 1..n /\ h[c] = sep BY <2>5, <2>12, <1>1
      <3>2. c \in ends BY <1>8, <3>1
      <3>3. ~(c > j) BY <2>10, <2>11, <2>13, <3>2, <1>1, <2>12
      <3>4. c \in i..j BY <2>5, <3>1, <3>3
      <3> QED BY <2>7, <3>1, <3>4
    <2>15. a <= c
      <3>1. a \in 1..n /\ h[a] = sep => a \in ends BY <1>8
      <3>2. a < k BY <2>3, <2>5, <2>10, <2>13
      <3>3. a = 0 \/ a \in 1..n BY <2>3, <2>5, <1>1
      <3> QED BY <2>3, <2>12, <3>1, <3>2, <3>3
    <2> DEFINE s == SubSeq(h, c + 1, k - 1)
               lo == i - c
               hi == j - c
    <2>16. lo \in 1..(k-1)-c /\ hi \in 1..(k-1)-c /\ lo <= hi /\ c + lo = i /\ c + hi = j
      BY <2>5, <2>10, <2>12, <2>13, <2>14
    <2>17. /\ s \in Seq(STRING) /\ Len(s) = (k - 1) - c
           /\ \A x \in 1..(k-1)-c : s[x] = h[c + x]
           /\ SubSeq(s, lo, hi) = SubSeq(h, c + lo, c + hi)
      <3> HIDE DEF lo, hi
      <3> QED BY <2>12, <2>16, Stretch DEF n
    <2>18. SubSeq(s, lo, hi) = g BY <2>2, <2>16, <2>17
    <2>19. GroupsOf(h)[k] = Trim(s) BY <2>12
    <2> HIDE DEF s, lo, hi
    <2>20. Within(s, lo, hi)
      <3>1. DOMAIN s = 1..(k-1)-c BY <2>12, <2>17
      <3>2. s[lo] # Blank /\ s[hi] # Blank BY <2>7, <2>16, <2>17
      <3>3. ASSUME NEW x \in DOMAIN s, x < lo \/ x > hi PROVE s[x] = Blank
        <4>1. x \in 1..(k-1)-c /\ s[x] = h[c + x] BY <2>17, <3>1
        <4>2. CASE x < lo
          <5>2. a \in Nat /\ i \in Nat BY <2>3, <2>5
          <5>3. c \in Nat BY <2>12
          <5>4. x \in Nat /\ x >= 1 /\ x < i - c BY <4>1, <4>2 DEF lo
          <5>1. c + x \in a+1..i-1 BY <2>15, <5>2, <5>3, <5>4
          <5> QED BY <2>3, <4>1, <5>1
        <4>3. CASE x > hi
          <5>2. j \in Nat /\ b \in Int /\ k \in Nat /\ k <= b BY <1>1, <2>4, <2>5, <2>10, <2>13
          <5>3. c \in Nat BY <2>12
          <5>4. x \in Nat /\ x <= (k - 1) - c /\ x > j - c BY <4>1, <4>3 DEF hi
          <5>1. c + x \in j+1..b-1 BY <5>2, <5>3, <5>4
          <5> QED BY <2>4, <4>1, <5>1
        <4> QED BY <3>3, <4>2, <4>3
      <3> QED BY <2>16, <3>1, <3>2, <3>3 DEF Within
    <2>21. Trim(s) = SubSeq(s, lo, hi)
      <3>1. lo \in DOMAIN s /\ hi \in DOMAIN s BY <2>20 DEF Within
      <3> QED BY <2>17, <2>20, <3>1, TrimIs
    <2> QED BY <1>3, <2>1, <2>13, <2>18, <2>19, <2>21
  <1>13. Len(GroupsOf(h)) \in Nat /\ DOMAIN GroupsOf(h) = 1..Len(GroupsOf(h)) BY <1>1, <1>3, <1>4
  <1> QED BY <1>11, <1>12, <1>13

\* What a configuration that is accepted for a proxy holds.
LEMMA ProxyConfig ==
    ASSUME ConfigLoaded, cfg.mode = "proxy"
    PROVE  LET px == start.file.proxy
           IN  /\ start.file.mode = "proxy"
               /\ cfg.trustMode = "network" <=> px.trustMode = "network"
               /\ cfg.trustMode \in {"secret", "network"}
               /\ cfg.trustMode = "secret" => cfg.secret = start.env[px.secretEnv]
               /\ cfg.defaultRole = px.defaultRole /\ cfg.defaultRole \in validRoles \cup {""}
               /\ cfg.roleMappings = px.roleMappings
               /\ Len(px.roleMappings) \in Nat
               /\ DOMAIN px.roleMappings = 1..Len(px.roleMappings)
               /\ \A i \in 1..Len(px.roleMappings) : px.roleMappings[i].role \in validRoles
               /\ cfg.sep = IF px.sep = "" THEN "," ELSE px.sep
  <1> DEFINE px == start.file.proxy
  <1>1. px.roleMappings \in Seq([group : Seq(STRING), role : STRING])
    BY FilesTyped DEF ConfigLoaded
  <1>2. Len(px.roleMappings) \in Nat /\ DOMAIN px.roleMappings = 1..Len(px.roleMappings)
    BY <1>1
  <1>3. /\ cfg.mode = IF start.file.mode = "" THEN "token" ELSE start.file.mode
        /\ cfg.trustMode = IF cfg.mode = "proxy" /\ px.trustMode = "" THEN "secret"
                           ELSE px.trustMode
        /\ cfg.secretEnv = px.secretEnv /\ cfg.secret = Getenv(start.env, px.secretEnv)
        /\ cfg.defaultRole = px.defaultRole /\ cfg.roleMappings = px.roleMappings
    BY DEF ConfigLoaded, Loaded
  <1>4. ValidProxyAuth(cfg) BY DEF ConfigLoaded, Valid
  <1> HIDE DEF px
  <1>5. start.file.mode = "proxy" BY <1>3
  <1>6. /\ cfg.trustMode = "network" <=> px.trustMode = "network"
        /\ cfg.trustMode \in {"secret", "network"}
    BY <1>3, <1>4 DEF ValidProxyAuth
  <1>7. cfg.trustMode = "secret" => cfg.secret = start.env[px.secretEnv]
    <2>1. cfg.trustMode = "secret" => px.secretEnv # "" BY <1>3, <1>4, Zenon DEF ValidProxyAuth
    <2> QED BY <1>3, <2>1, Zenon DEF Getenv
  <1>8. \A i \in 1..Len(px.roleMappings) : px.roleMappings[i].role \in validRoles
    BY <1>2, <1>3, <1>4 DEF ValidProxyAuth
  <1>9. cfg.defaultRole \in validRoles \cup {""} BY <1>4 DEF ValidProxyAuth
  <1>10. cfg.sep = IF px.sep = "" THEN "," ELSE px.sep BY DEF ConfigLoaded, Loaded, px
  <1> QED BY <1>2, <1>3, <1>5, <1>6, <1>7, <1>8, <1>9, <1>10, Zenon DEF px

\* The groups the identity knows, and the role it gives them.
LEMMA GroupToRole ==
    ASSUME ConfigLoaded, cfg.mode = "proxy", IdentityBuilt, NEW g
    PROVE  /\ g \in DOMAIN identity.groupToRole <=>
                 \E i \in DOMAIN cfg.roleMappings : cfg.roleMappings[i].group = g
           /\ g \in DOMAIN identity.groupToRole =>
                 \E i \in DOMAIN cfg.roleMappings :
                    /\ cfg.roleMappings[i].group = g
                    /\ identity.groupToRole[g] = cfg.roleMappings[i].role
                    /\ identity.groupToRole[g] \in validRoles
  <1> DEFINE ms == cfg.roleMappings
             last(u) == Max({i \in DOMAIN ms : ms[i].group = u})
             known == {ms[i].group : i \in DOMAIN ms}
  <1>1. identity.groupToRole = [u \in known |-> ms[last(u)].role]
    BY DEF IdentityBuilt, NewProxyIdentity
  <1>2. g \in known <=> \E i \in DOMAIN ms : ms[i].group = g OBVIOUS
  <1>3. Len(ms) \in Nat /\ DOMAIN ms = 1..Len(ms) /\ \A i \in DOMAIN ms : ms[i].role \in validRoles
    BY ProxyConfig
  <1>4. ASSUME g \in known PROVE last(g) \in DOMAIN ms /\ ms[last(g)].group = g
    <2> DEFINE J == {i \in DOMAIN ms : ms[i].group = g}
    <2>1. J # {} BY <1>2, <1>4
    <2>2. J \in SUBSET (1..Len(ms)) BY <1>3
    <2>3. Max(J) \in J
      <3> HIDE DEF J, ms
      <3> QED BY <1>3, <2>1, <2>2, LastIndex
    <2> QED BY <2>3
  <1> HIDE DEF ms, last, known
  <1>5. DOMAIN identity.groupToRole = known BY <1>1
  <1>6. g \in known => identity.groupToRole[g] = ms[last(g)].role BY <1>1
  <1>7. /\ g \in DOMAIN identity.groupToRole <=> \E i \in DOMAIN ms : ms[i].group = g
        /\ g \in DOMAIN identity.groupToRole =>
              \E i \in DOMAIN ms : /\ ms[i].group = g /\ identity.groupToRole[g] = ms[i].role
                                    /\ identity.groupToRole[g] \in validRoles
    BY <1>2, <1>3, <1>4, <1>5, <1>6, Zenon
  <1> QED BY <1>7 DEF ms

\* The grants of a group, as the configuration has them.
LEMMA ByGroupIs ==
    ASSUME ConfigLoaded, cfg.mode = "proxy", NEW r, NEW g, NEW x
    PROVE  x \in ByGroup(r, g) <=> \E i \in DOMAIN cfg.roleMappings :
              cfg.roleMappings[i].group = g /\ x = <<r.user, cfg.roleMappings[i].role>>
  <1> DEFINE ms == cfg.roleMappings
  <1>1. ms = start.file.proxy.roleMappings BY ProxyConfig
  <1>2. ByGroup(r, g) = {<<r.user, m.role>> : m \in {q \in Range(ms) : q.group = g}}
    BY <1>1 DEF ByGroup
  <1> HIDE DEF ms
  <1>3. \A m : m \in Range(ms) <=> \E i \in DOMAIN ms : m = ms[i] BY DEF Range
  <1>4. x \in ByGroup(r, g) <=> \E m \in Range(ms) : m.group = g /\ x = <<r.user, m.role>>
    BY <1>2, Zenon
  <1>5. ASSUME NEW i \in DOMAIN ms, ms[i].group = g, x = <<r.user, ms[i].role>>
        PROVE  x \in ByGroup(r, g)
    <2>1. ms[i] \in Range(ms) BY <1>3
    <2> QED BY <1>4, <1>5, <2>1, Zenon
  <1>6. ASSUME x \in ByGroup(r, g)
        PROVE  \E i \in DOMAIN ms : ms[i].group = g /\ x = <<r.user, ms[i].role>>
    <2>1. PICK m \in Range(ms) : m.group = g /\ x = <<r.user, m.role>> BY <1>4, <1>6, Zenon
    <2>2. PICK i \in DOMAIN ms : m = ms[i] BY <1>3
    <2> QED BY <2>1, <2>2, Zenon
  <1> QED BY <1>5, <1>6, Zenon DEF ms

\* A trusted request of a user has the highest role of its groups that are mapped, or
\* the default role if none is.
LEMMA ProxyGrants ==
    ASSUME ConfigLoaded, cfg.mode = "proxy", IdentityBuilt, NEW r \in Requests
    PROVE  Grants(r, Authenticate(r))
  <1> DEFINE px == start.file.proxy
             trusted == px.trustMode = "network" \/ r.secret = start.env[px.secretEnv]
             sep == IF px.sep = "" THEN "," ELSE px.sep
             list == {n \in Range(px.roleMappings) : Listed(r.groups, sep, n.group)}
             groups == {ByGroup(r, m.group) : m \in list}
             gs == GroupsOf(r.groups)
             mapped == HighestRole(gs)
             role == IF mapped = "" THEN cfg.defaultRole ELSE mapped
             default == cfg.defaultRole
  <1>1. /\ identity.kind = "proxy" /\ identity.trustMode = cfg.trustMode
        /\ identity.secret = cfg.secret /\ identity.defaultRole = cfg.defaultRole
    BY DEF IdentityBuilt, NewProxyIdentity
  <1>2. (identity.trustMode = "secret" => r.secret = identity.secret) <=> trusted
    <2>1. /\ cfg.trustMode = "network" <=> px.trustMode = "network"
          /\ cfg.trustMode \in {"secret", "network"}
          /\ cfg.trustMode = "secret" => cfg.secret = start.env[px.secretEnv]
      BY ProxyConfig
    <2> QED BY <1>1, <2>1
  <1>3. Authenticate(r) = IF trusted /\ r.user # "" /\ role # ""
                          THEN [name |-> r.user, role |-> role] ELSE NoOne
    <2>1. Authenticate(r) = AuthenticateProxy(r) BY <1>1 DEF Authenticate
    <2> HIDE DEF trusted
    <2> QED BY <1>1, <1>2, <2>1, Zenon DEF AuthenticateProxy
  <1>4. Claims(r) = IF ~trusted \/ r.user = "" THEN {}
                    ELSE IF groups # {} THEN groups
                    ELSE IF default # "" THEN {{<<r.user, default>>}} ELSE {}
    <2>1. start.file.mode = "proxy" /\ px.defaultRole = default BY ProxyConfig
    <2> QED BY <2>1, Zenon DEF Claims
  <1>5. r.groups \in Seq(STRING) BY HeadersTyped
  <1>15. identity.sep = sep
    <2>1. identity.sep = cfg.sep BY DEF IdentityBuilt, NewProxyIdentity
    <2> QED BY <2>1, ProxyConfig
  <1>16. Len(gs) \in Nat /\ DOMAIN gs = 1..Len(gs) BY <1>5, GroupsListed
  <1>17. \A g : (\E k \in DOMAIN gs : gs[k] # << >> /\ gs[k] = g) <=> Listed(r.groups, sep, g)
    BY <1>5, <1>15, GroupsListed, Zenon
  <1>18. \A m : m \in list <=> /\ \E i \in DOMAIN cfg.roleMappings : m = cfg.roleMappings[i]
                               /\ Listed(r.groups, sep, m.group)
    <2>1. px.roleMappings = cfg.roleMappings BY ProxyConfig
    <2>2. \A m : m \in Range(cfg.roleMappings) <=>
                  \E i \in DOMAIN cfg.roleMappings : m = cfg.roleMappings[i]
      BY DEF Range
    <2> QED BY <2>1, <2>2, Zenon
  <1>6. \A g \in DOMAIN identity.groupToRole : identity.groupToRole[g] \in validRoles
    BY GroupToRole, Zenon
  <1>7. /\ \/ mapped = "" /\ Mapped(gs) = {}
           \/ \E k \in Mapped(gs) : mapped = RoleOf(gs, k)
        /\ \A k \in Mapped(gs) : Rank(mapped) >= Rank(RoleOf(gs, k))
    <2> HIDE DEF gs
    <2> QED BY <1>16, <1>6, HighestIs, Zenon
  <1>8. default \in validRoles \cup {""} BY ProxyConfig
  <1>10. ASSUME NEW k \in Mapped(gs)
         PROVE  /\ RoleOf(gs, k) \in validRoles /\ RoleOf(gs, k) # ""
                /\ ByGroup(r, gs[k]) \in groups
                /\ <<r.user, RoleOf(gs, k)>> \in ByGroup(r, gs[k])
    <2>1. k \in DOMAIN gs /\ gs[k] # << >> /\ gs[k] \in DOMAIN identity.groupToRole BY DEF Mapped
    <2>2. PICK i \in DOMAIN cfg.roleMappings :
              /\ cfg.roleMappings[i].group = gs[k]
              /\ identity.groupToRole[gs[k]] = cfg.roleMappings[i].role
              /\ identity.groupToRole[gs[k]] \in validRoles
      BY <2>1, GroupToRole, Zenon
    <2>3. RoleOf(gs, k) = cfg.roleMappings[i].role BY <2>2 DEF RoleOf
    <2>4. <<r.user, RoleOf(gs, k)>> \in ByGroup(r, gs[k])
      BY <2>2, <2>3, ByGroupIs, Zenon
    <2>5. RoleOf(gs, k) \in validRoles BY <2>2, <2>3
    <2>6. RoleOf(gs, k) # "" BY <2>5, Ranks, Zenon
    <2>7. cfg.roleMappings[i] \in list
      <3>1. Listed(r.groups, sep, gs[k]) BY <1>17, <2>1, Zenon
      <3> QED BY <1>18, <2>2, <3>1, Zenon
    <2>8. ByGroup(r, gs[k]) \in groups BY <2>2, <2>7, Zenon
    <2> HIDE DEF groups
    <2> QED BY <2>4, <2>5, <2>6, <2>8
  <1>11. ASSUME NEW G \in groups
         PROVE  \E k \in Mapped(gs) : G = ByGroup(r, gs[k])
    <2>1. PICK m \in list : G = ByGroup(r, m.group) OBVIOUS
    <2>2. PICK i \in DOMAIN cfg.roleMappings : m = cfg.roleMappings[i] BY <1>18, <2>1, Zenon
    <2>3. Listed(r.groups, sep, m.group) BY <1>18, <2>1, Zenon
    <2>4. PICK k \in DOMAIN gs : gs[k] # << >> /\ gs[k] = m.group BY <1>17, <2>3, Zenon
    <2>5. m.group \in DOMAIN identity.groupToRole BY <2>2, GroupToRole, Zenon
    <2>6. k \in Mapped(gs) BY <2>4, <2>5, Zenon DEF Mapped
    <2> QED BY <2>1, <2>4, <2>6, Zenon
  <1> HIDE DEF px, trusted, groups, mapped, default, gs, list, sep
  <1>12. CASE ~trusted \/ r.user = ""
    BY <1>3, <1>4, <1>12, Zenon DEF Grants
  <1>13. CASE trusted /\ r.user # "" /\ mapped = "" /\ Mapped(gs) = {}
    <2>1. groups = {} BY <1>11, <1>13, Zenon
    <2>2. role = default BY <1>13, Zenon DEF default
    <2> HIDE DEF role
    <2>3. CASE default = "" BY <1>3, <1>4, <1>13, <2>1, <2>2, <2>3, Zenon DEF Grants
    <2>4. CASE default # ""
      <3>1. default \in validRoles BY <1>8, <2>4
      <3> DEFINE p == Authenticate(r)
                 only == {<<r.user, default>>}
      <3>2. p = [name |-> r.user, role |-> default] BY <1>3, <1>13, <2>2, <2>4, Zenon
      <3>3. p.name = r.user /\ p.role = default BY <3>2
      <3> HIDE DEF p
      <3>4. Claims(r) = {only} BY <1>4, <1>13, <2>1, <2>4, Zenon
      <3>5. p # NoOne
        <4>1. NoOne.name = "" BY DEF NoOne
        <4> QED BY <1>13, <3>3, <4>1, Zenon
      <3>6. <<p.name, p.role>> \in only BY <3>3
      <3> HIDE DEF only
      <3>7. p.role \in validRoles BY <3>1, <3>3
      <3>8. \E g \in only : g[2] \in validRoles /\ Rank(g[2]) <= Rank(p.role)
        BY <3>6, <3>7, OwnGrant, Zenon
      <3> QED BY <1>13, <3>3, <3>4, <3>5, <3>6, <3>7, <3>8, Zenon DEF Grants, p
    <2> QED BY <2>3, <2>4
  <1>14. CASE /\ trusted /\ r.user # ""
              /\ \E k \in Mapped(gs) : mapped = RoleOf(gs, k)
    <2>1. PICK k \in Mapped(gs) : mapped = RoleOf(gs, k) BY <1>14
    <2>2. mapped \in validRoles /\ mapped # "" BY <1>10, <2>1, Zenon
    <2>3. role = mapped BY <2>2, Zenon
    <2> HIDE DEF role
    <2> DEFINE p == Authenticate(r)
    <2>4. p = [name |-> r.user, role |-> mapped] BY <1>3, <1>14, <2>2, <2>3, Zenon
    <2>5. p.name = r.user /\ p.role = mapped BY <2>4
    <2> HIDE DEF p
    <2>6. Claims(r) = groups
      <3>1. groups # {} BY <1>10, <2>1, Zenon
      <3> QED BY <1>4, <1>14, <3>1, Zenon
    <2>7. p # NoOne
      <3>1. NoOne.name = "" BY DEF NoOne
      <3> QED BY <1>14, <2>5, <3>1, Zenon
    <2>8. \E G \in groups : <<p.name, p.role>> \in G
      <3>1. <<r.user, mapped>> \in ByGroup(r, gs[k]) /\ ByGroup(r, gs[k]) \in groups
        BY <1>10, <2>1, Zenon
      <3> QED BY <2>5, <3>1, Zenon
    <2>9. ASSUME NEW G \in groups
          PROVE  \E g \in G : g[2] \in validRoles /\ Rank(g[2]) <= Rank(p.role)
      <3>1. PICK l \in Mapped(gs) : G = ByGroup(r, gs[l]) BY <1>11, Zenon
      <3> DEFINE own == RoleOf(gs, l)
                 g == <<r.user, own>>
      <3>2. own \in validRoles /\ g \in G BY <1>10, <3>1, Zenon
      <3>3. Rank(own) <= Rank(mapped)
        <4>1. Rank(mapped) >= Rank(own) BY <1>7, Zenon
        <4>2. Rank(mapped) \in 1..3 /\ Rank(own) \in 1..3 BY <2>2, <3>2, Ranks, Zenon
        <4> HIDE DEF own
        <4> QED BY <4>1, <4>2
      <3>4. g[2] = own OBVIOUS
      <3>5. g[2] \in validRoles /\ Rank(g[2]) <= Rank(p.role) BY <2>5, <3>2, <3>3, <3>4, Zenon
      <3> HIDE DEF g
      <3> QED BY <3>2, <3>5, Zenon
    <2>10. p.name # "" /\ p.role \in validRoles BY <1>14, <2>2, <2>5
    <2> QED BY <2>6, <2>7, <2>8, <2>9, <2>10, Zenon DEF Grants, p
  <1> QED BY <1>7, <1>12, <1>13, <1>14, Zenon

-----------------------------------------------------------------------------
(* The middlewares and the specification *)

\* A role may do what its rank allows: the middlewares of the router agree with the
\* table of the README, and a higher role may do no less.
LEMMA RolesAllowed ==
    ASSUME NEW route, NEW role \in validRoles
    PROVE  /\ role \in Allowed(route) <=>
                 ~(route \in DOMAIN MinRole /\ ~AtLeast(role, MinRole[route]))
           /\ \A low \in validRoles :
                 Rank(low) <= Rank(role) /\ low \in Allowed(route) => role \in Allowed(route)
  <1>1. Rank("viewer") = 1 /\ Rank("operator") = 2 /\ Rank("admin") = 3
    BY Zenon DEF Rank
  <1>2. /\ DOMAIN MinRole = {"act", "audit"}
        /\ MinRole["act"] = "operator" /\ MinRole["audit"] = "admin"
    BY DEF MinRole
  <1>3. \A low \in validRoles : low = "viewer" \/ low = "operator" \/ low = "admin"
    BY DEF validRoles
  <1>7. \A low \in validRoles : Rank(low) \in 1..3 BY Ranks, Zenon
  <1>4. CASE route = "act"
    <2>1. Allowed(route) = {"operator", "admin"} BY <1>4, Zenon DEF Allowed
    <2>2. \A low \in validRoles : low \in Allowed(route) <=> Rank(low) >= 2
      BY <1>1, <1>3, <2>1
    <2> DEFINE min == MinRole[route]
    <2>3. route \in DOMAIN MinRole BY <1>2, <1>4
    <2>4. min = "operator" BY <1>2, <1>4, Zenon
    <2>5. Rank(min) = 2 BY <1>1, <2>4, Zenon
    <2> HIDE DEF min
    <2>6. AtLeast(role, min) <=> Rank(role) >= 2 BY <1>7, <2>5 DEF AtLeast
    <2> QED BY <1>7, <2>2, <2>3, <2>6 DEF min
  <1>5. CASE route = "audit"
    <2>1. Allowed(route) = {"admin"} BY <1>5, Zenon DEF Allowed
    <2>2. \A low \in validRoles : low \in Allowed(route) <=> Rank(low) >= 3
      BY <1>1, <1>3, <2>1
    <2> DEFINE min == MinRole[route]
    <2>3. route \in DOMAIN MinRole BY <1>2, <1>5
    <2>4. min = "admin" BY <1>2, <1>5, Zenon
    <2>5. Rank(min) = 3 BY <1>1, <2>4, Zenon
    <2> HIDE DEF min
    <2>6. AtLeast(role, min) <=> Rank(role) >= 3 BY <1>7, <2>5 DEF AtLeast
    <2> QED BY <1>7, <2>2, <2>3, <2>6 DEF min
  <1>6. CASE route # "act" /\ route # "audit"
    <2>1. Allowed(route) = validRoles BY <1>6, Zenon DEF Allowed
    <2>2. route \notin DOMAIN MinRole BY <1>2, <1>6
    <2> QED BY <2>1, <2>2
  <1> QED BY <1>4, <1>5, <1>6

\* One text is a suffix of another, place by place.
LEMMA SuffixIs ==
    ASSUME NEW S, NEW s \in Seq(S), NEW t \in Seq(S)
    PROVE  IsSuffix(s, t) <=>
              Len(s) <= Len(t) /\ \A i \in 1..Len(s) : s[i] = t[Len(t) - Len(s) + i]
  <1> DEFINE a == Reverse(s)
             b == Reverse(t)
  <1>1. /\ a \in Seq(S) /\ Len(a) = Len(s) /\ \A i \in 1..Len(s) : a[i] = s[Len(s) - i + 1]
        /\ b \in Seq(S) /\ Len(b) = Len(t) /\ \A i \in 1..Len(t) : b[i] = t[Len(t) - i + 1]
    BY DEF Reverse
  <1>2. IsSuffix(s, t) <=> Len(a) <= Len(b) /\ SubSeq(a, 1, Len(a)) = SubSeq(b, 1, Len(a))
    BY DEF IsSuffix, IsPrefix
  <1> HIDE DEF a, b
  <1> DEFINE z == Len(s)
             y == Len(t)
  <1>3. z \in Nat /\ y \in Nat OBVIOUS
  <1>4. ASSUME z <= y
        PROVE  SubSeq(a, 1, z) = SubSeq(b, 1, z) <=> \A i \in 1..z : a[i] = b[i]
    <2>1. SubSeq(a, 1, z) = [i \in 1..z |-> a[i]] /\ SubSeq(b, 1, z) = [i \in 1..z |-> b[i]]
      BY <1>1, <1>3, <1>4
    <2> HIDE DEF z
    <2> QED BY <2>1
  <1>5. ASSUME z <= y
        PROVE  (\A i \in 1..z : a[i] = b[i]) <=> \A i \in 1..z : s[i] = t[y - z + i]
    <2>1. ASSUME NEW i \in 1..z
          PROVE  /\ z - i + 1 \in 1..z /\ z - (z - i + 1) + 1 = i
                 /\ a[z - i + 1] = s[i] /\ b[z - i + 1] = t[y - z + i]
      <3>1. z - i + 1 \in 1..z /\ z - i + 1 \in 1..y /\ z - (z - i + 1) + 1 = i
            /\ y - (z - i + 1) + 1 = y - z + i
        BY <1>3, <1>5
      <3>2. a[z - i + 1] = s[z - (z - i + 1) + 1] BY <1>1, <3>1
      <3>3. b[z - i + 1] = t[y - (z - i + 1) + 1] BY <1>1, <3>1
      <3> QED BY <3>1, <3>2, <3>3
    <2>2. ASSUME \A i \in 1..z : a[i] = b[i], NEW i \in 1..z PROVE s[i] = t[y - z + i]
      BY <2>1, <2>2
    <2>3. ASSUME \A i \in 1..z : s[i] = t[y - z + i], NEW i \in 1..z PROVE a[i] = b[i]
      <3>1. z - i + 1 \in 1..z /\ z - (z - i + 1) + 1 = i BY <2>1
      <3>2. a[z - (z - i + 1) + 1] = s[z - i + 1] /\ b[z - (z - i + 1) + 1] = t[y - z + (z - i + 1)]
        BY <2>1, <3>1
      <3> QED BY <2>3, <3>1, <3>2
    <2> QED BY <2>2, <2>3
  <1> QED BY <1>1, <1>2, <1>4, <1>5

\* The text that is left after the first k places is host, place by place.
LEMMA RestIs ==
    ASSUME NEW S, NEW t \in Seq(S), NEW host \in Seq(S), NEW k \in 0..Len(t)
    PROVE  SubSeq(t, k + 1, Len(t)) = host <=>
              Len(host) = Len(t) - k /\ \A i \in 1..Len(host) : host[i] = t[k + i]
  <1> DEFINE s == SubSeq(t, k + 1, Len(t))
             z == Len(t) - k
  <1>1. z \in Nat /\ s \in Seq(S) /\ Len(s) = z /\ \A i \in 1..z : s[i] = t[k + i] OBVIOUS
  <1> HIDE DEF s
  <1>2. ASSUME s = host PROVE Len(host) = z /\ \A i \in 1..Len(host) : host[i] = t[k + i]
    BY <1>1, <1>2
  <1>3. ASSUME Len(host) = z, \A i \in 1..Len(host) : host[i] = t[k + i] PROVE s = host
    <2>1. \A i \in 1..z : s[i] = host[i] BY <1>1, <1>3
    <2>2. s = [i \in 1..z |-> s[i]] /\ host = [i \in 1..z |-> host[i]] BY <1>1, <1>3
    <2> HIDE DEF z
    <2> QED BY <2>1, <2>2
  <1> QED BY <1>2, <1>3 DEF s

\* A text with one piece before it.
LEMMA PiecePut ==
    ASSUME NEW S, NEW c \in S, NEW host \in Seq(S)
    PROVE  /\ <<c>> \o host \in Seq(S) /\ Len(<<c>> \o host) = Len(host) + 1
           /\ (<<c>> \o host)[1] = c
           /\ \A i \in 1..Len(host) : (<<c>> \o host)[i + 1] = host[i]
  <1> DEFINE m == <<c>>
  <1>1. m \in Seq(S) /\ Len(m) = 1 /\ m[1] = c OBVIOUS
  <1> HIDE DEF m
  <1>2. /\ m \o host \in Seq(S) /\ Len(m \o host) = Len(m) + Len(host)
        /\ \A i \in 1..Len(m) + Len(host) :
              (m \o host)[i] = IF i <= Len(m) THEN m[i] ELSE host[i - Len(m)]
    BY <1>1, ConcatProperties, Zenon
  <1>3. Len(host) \in Nat OBVIOUS
  <1>4. (m \o host)[1] = c BY <1>1, <1>2, <1>3
  <1>5. ASSUME NEW i \in 1..Len(host) PROVE (m \o host)[i + 1] = host[i] BY <1>1, <1>2, <1>3
  <1> QED BY <1>1, <1>2, <1>3, <1>4, <1>5 DEF m

\* A text over some pieces is one over more.
LEMMA Wider == ASSUME NEW T, NEW S, T \subseteq S, NEW s \in Seq(T) PROVE s \in Seq(S)
  OBVIOUS

\* What CheckOrigin and Accept make of a request: a page of the own UI passes, and what
\* passes has the origin the property asks for.
LEMMA OriginsChecked ==
    ASSUME NEW r \in Requests
    PROVE  /\ r.route = "act" /\ OriginChecked(r) => EndsInHost(r)
           /\ r.route = "stream" /\ OriginChecked(r) => SameOrigin(r)
           /\ ~OriginChecked(r) => r.route \in {"act", "stream"} /\ ~SameOrigin(r)
  <1> DEFINE t == r.origin
             host == r.host
             colon == SchemeEnd
             full == <<colon>> \o host
             S == STRING \cup {colon}
  <1>1. t \in Seq(S) /\ host \in Seq(S) /\ \A k \in DOMAIN t : t[k] = colon => k = 2
    <2>1. t \in Seq(STRING) /\ host \in Seq(STRING) /\ \A k \in DOMAIN t : t[k] = colon => k = 2
      BY HeadersTyped
    <2>2. STRING \subseteq S OBVIOUS
    <2> HIDE DEF S, t, host
    <2>3. t \in Seq(S) BY <2>1, <2>2, Wider, Zenon
    <2>4. host \in Seq(S) BY <2>1, <2>2, Wider, Zenon
    <2> QED BY <2>1, <2>3, <2>4, Zenon
  <1>2. /\ full \in Seq(S) /\ Len(full) = Len(host) + 1 /\ full[1] = colon
        /\ \A i \in 1..Len(host) : full[i + 1] = host[i]
    <2>1. colon \in S OBVIOUS
    <2>2. host \in Seq(S) BY <1>1
    <2> HIDE DEF S, colon, host
    <2>3. /\ <<colon>> \o host \in Seq(S) /\ Len(<<colon>> \o host) = Len(host) + 1
          /\ (<<colon>> \o host)[1] = colon
          /\ \A i \in 1..Len(host) : (<<colon>> \o host)[i + 1] = host[i]
      <3> HIDE DEF full
      <3> QED BY <2>1, <2>2, PiecePut
    <2> QED BY <2>3
  <1>3. CheckOrigin(r) <=> t = << >> \/ IsSuffix(full, t) \/ IsSuffix(host, t) BY DEF CheckOrigin
  <1>4. Accept(r) <=> t = << >> \/ Tail(t) = full BY DEF Accept
  <1>5. EndsInHost(r) <=> t = << >> \/ \E k \in 0..Len(t) : SubSeq(t, k + 1, Len(t)) = host
    BY DEF EndsInHost
  <1>6. SameOrigin(r) <=> t = << >> \/ \E k \in DOMAIN t :
                             t[k] = colon /\ SubSeq(t, k + 1, Len(t)) = host
    BY DEF SameOrigin
  <1> HIDE DEF t, host, full, colon, S
  <1>7. Len(t) \in Nat /\ Len(host) \in Nat /\ DOMAIN t = 1..Len(t) BY <1>1
  <1>8. IsSuffix(full, t) => IsSuffix(host, t)
    <2> SUFFICES ASSUME IsSuffix(full, t) PROVE IsSuffix(host, t) OBVIOUS
    <2>1. Len(full) <= Len(t) /\ \A i \in 1..Len(full) : full[i] = t[Len(t) - Len(full) + i]
      BY <1>1, <1>2, SuffixIs
    <2>2. ASSUME NEW i \in 1..Len(host) PROVE host[i] = t[Len(t) - Len(host) + i]
      <3>1. i + 1 \in 1..Len(full) /\ Len(t) - Len(full) + (i + 1) = Len(t) - Len(host) + i
        BY <1>2, <1>7
      <3> QED BY <1>2, <2>1, <3>1
    <2>3. Len(host) <= Len(t) BY <1>2, <1>7, <2>1
    <2> QED BY <1>1, <2>2, <2>3, SuffixIs
  <1>9. IsSuffix(host, t) <=> \E k \in 0..Len(t) : SubSeq(t, k + 1, Len(t)) = host
    <2>1. ASSUME IsSuffix(host, t) PROVE \E k \in 0..Len(t) : SubSeq(t, k + 1, Len(t)) = host
      <3> DEFINE k == Len(t) - Len(host)
      <3>1. Len(host) <= Len(t) /\ \A i \in 1..Len(host) : host[i] = t[k + i]
        BY <1>1, <2>1, SuffixIs
      <3>2. k \in 0..Len(t) /\ Len(host) = Len(t) - k BY <1>7, <3>1
      <3> HIDE DEF k
      <3>3. SubSeq(t, k + 1, Len(t)) = host BY <1>1, <3>1, <3>2, RestIs
      <3> QED BY <3>2, <3>3
    <2>2. ASSUME NEW k \in 0..Len(t), SubSeq(t, k + 1, Len(t)) = host PROVE IsSuffix(host, t)
      <3>1. Len(host) = Len(t) - k /\ \A i \in 1..Len(host) : host[i] = t[k + i]
        BY <1>1, <2>2, RestIs
      <3>2. Len(host) <= Len(t) /\ Len(t) - Len(host) = k BY <1>7, <3>1
      <3> QED BY <1>1, <3>1, <3>2, SuffixIs
    <2> QED BY <2>1, <2>2
  <1>10. CheckOrigin(r) <=> EndsInHost(r) BY <1>3, <1>5, <1>8, <1>9
  <1>11. SameOrigin(r) => EndsInHost(r)
    <2>1. \A k \in DOMAIN t : k \in 0..Len(t) BY <1>7
    <2> QED BY <1>5, <1>6, <2>1
  <1>12. Accept(r) <=> SameOrigin(r)
    <2>1. CASE t = << >> BY <1>4, <1>6, <2>1
    <2>2. CASE t # << >>
      <3>1. Len(t) >= 1 BY <1>1, <1>7, <2>2
      <3>2. Tail(t) = SubSeq(t, 2, Len(t)) BY <1>1, <3>1
      <3>3. 1 \in 0..Len(t) BY <1>7, <3>1
      <3>4. Tail(t) = full <=> Len(full) = Len(t) - 1 /\ \A i \in 1..Len(full) : full[i] = t[1 + i]
        <4>1. SubSeq(t, 1 + 1, Len(t)) = full <=>
                 Len(full) = Len(t) - 1 /\ \A i \in 1..Len(full) : full[i] = t[1 + i]
          <5>1. t \in Seq(S) /\ full \in Seq(S) BY <1>1, <1>2
          <5> QED BY <5>1, <3>3, RestIs
        <4>2. SubSeq(t, 1 + 1, Len(t)) = Tail(t)
          <5>1. 1 + 1 = 2 OBVIOUS
          <5> QED BY <3>2, <5>1
        <4> QED BY <4>1, <4>2, Zenon
      <3>5. ASSUME Tail(t) = full PROVE SameOrigin(r)
        <4>1. Len(host) = Len(t) - 2 /\ 2 \in DOMAIN t /\ 2 \in 0..Len(t)
          <5> DEFINE x == Len(full)
                     y == Len(host)
                     w == Len(t)
          <5>1. x = y + 1 /\ x = w - 1 BY <1>2, <3>4, <3>5
          <5>2. y \in Nat /\ w \in Nat /\ DOMAIN t = 1..w BY <1>7
          <5> HIDE DEF x, y, w
          <5>3. y = w - 2 /\ 2 \in DOMAIN t /\ 2 \in 0..w BY <5>1, <5>2
          <5> QED BY <5>3 DEF y, w
        <4>2. t[2] = colon
          <5>1. 1 \in 1..Len(full) BY <1>2, <1>7
          <5>2. full[1] = t[1 + 1] BY <3>4, <3>5, <5>1
          <5> QED BY <1>2, <5>2
        <4>3. ASSUME NEW i \in 1..Len(host) PROVE host[i] = t[2 + i]
          <5>1. i + 1 \in 1..Len(full) /\ 1 + (i + 1) = 2 + i BY <1>2, <1>7
          <5> QED BY <1>2, <3>4, <3>5, <5>1
        <4>4. SubSeq(t, 2 + 1, Len(t)) = host BY <1>1, <4>1, <4>3, RestIs
        <4> QED BY <1>6, <4>1, <4>2, <4>4
      <3>6. ASSUME SameOrigin(r) PROVE Tail(t) = full
        <4>1. PICK k \in DOMAIN t : t[k] = colon /\ SubSeq(t, k + 1, Len(t)) = host
          BY <1>6, <2>2, <3>6
        <4>2. k = 2 /\ t[2] = colon /\ 2 \in 0..Len(t) BY <1>1, <1>7, <4>1
        <4>3. Len(host) = Len(t) - 2 /\ \A i \in 1..Len(host) : host[i] = t[2 + i]
          BY <1>1, <4>1, <4>2, RestIs
        <4>4. Len(full) = Len(t) - 1 BY <1>2, <1>7, <4>3
        <4>5. ASSUME NEW i \in 1..Len(full) PROVE full[i] = t[1 + i]
          <5>1. CASE i = 1 BY <1>2, <4>2, <5>1
          <5>2. CASE i # 1
            <6>1. i - 1 \in 1..Len(host) /\ (i - 1) + 1 = i /\ 2 + (i - 1) = 1 + i
              BY <1>2, <1>7, <5>2
            <6>2. full[(i - 1) + 1] = host[i - 1] BY <1>2, <6>1
            <6>3. host[i - 1] = t[2 + (i - 1)] BY <4>3, <6>1
            <6> QED BY <6>1, <6>2, <6>3
          <5> QED BY <5>1, <5>2
        <4> QED BY <3>4, <4>4, <4>5
      <3> QED BY <1>4, <2>2, <3>5, <3>6
    <2> QED BY <2>1, <2>2
  <1>13. CASE r.route = "act"
    <2>1. OriginChecked(r) <=> CheckOrigin(r) BY <1>13, Zenon DEF OriginChecked
    <2>2. r.route # "stream" /\ r.route \in {"act", "stream"} BY <1>13
    <2> QED BY <1>10, <1>11, <2>1, <2>2, Zenon
  <1>14. CASE r.route = "stream"
    <2>1. r.route # "act" /\ r.route \in {"act", "stream"} BY <1>14
    <2>2. OriginChecked(r) <=> Accept(r) /\ CheckOrigin(r) BY <1>14, <2>1, Zenon DEF OriginChecked
    <2> QED BY <1>10, <1>11, <1>12, <2>1, <2>2, Zenon
  <1>15. CASE r.route # "act" /\ r.route # "stream"
    <2>1. OriginChecked(r) BY <1>15, Zenon DEF OriginChecked
    <2> QED BY <1>15, <2>1, Zenon
  <1> QED BY <1>13, <1>14, <1>15, Zenon

\* The property for a request, its status and the actor.
Right(r, status, actor) ==
    IF status = 200
    THEN /\ \E G \in Claims(r) : \E g \in G :
               g[1] = actor /\ g[1] # "" /\ g[2] \in Allowed(r.route)
         /\ r.route = "act" => EndsInHost(r)
         /\ r.route = "stream" => SameOrigin(r)
    ELSE \/ r.route \in {"act", "stream"} /\ ~SameOrigin(r)
         \/ \A G \in Claims(r) : \E g \in G : g[2] \notin Allowed(r.route)

\* The answer to a request is the one its grants call for.
LEMMA Answered ==
    ASSUME NEW r \in Requests, NEW p, Grants(r, p)
    PROVE  Right(r, Outcome(r, p), p.name)
  <1>3. CASE p = NoOne /\ Claims(r) = {}
    <2>1. Outcome(r, p) = 401 BY <1>3 DEF Outcome
    <2>2. Outcome(r, p) # 200 BY <2>1
    <2> QED BY <1>3, <2>2, Zenon DEF Right
  <1>4. CASE /\ p # NoOne /\ p.name # "" /\ p.role \in validRoles
             /\ \E G \in Claims(r) : <<p.name, p.role>> \in G
             /\ \A G \in Claims(r) : \E g \in G : g[2] \in validRoles /\ Rank(g[2]) <= Rank(p.role)
    <2>1. CASE p.role \notin Allowed(r.route)
      <3>1. r.route \in DOMAIN MinRole /\ ~AtLeast(p.role, MinRole[r.route])
        BY <1>4, <2>1, RolesAllowed, Zenon
      <3>2. Outcome(r, p) = 403 BY <1>4, <3>1, Zenon DEF Outcome
      <3>3. Outcome(r, p) # 200 BY <3>2
      <3>4. ASSUME NEW G \in Claims(r) PROVE \E g \in G : g[2] \notin Allowed(r.route)
        <4>1. PICK g \in G : g[2] \in validRoles /\ Rank(g[2]) <= Rank(p.role) BY <1>4, Zenon
        <4>2. g[2] \notin Allowed(r.route) BY <1>4, <2>1, <4>1, RolesAllowed, Zenon
        <4> QED BY <4>2, Zenon
      <3> QED BY <3>3, <3>4, Zenon DEF Right
    <2>2. CASE p.role \in Allowed(r.route)
      <3>1. ~(r.route \in DOMAIN MinRole /\ ~AtLeast(p.role, MinRole[r.route]))
        BY <1>4, <2>2, RolesAllowed, Zenon
      <3>2. CASE ~OriginChecked(r)
        <4>1. Outcome(r, p) = 403 BY <1>4, <3>1, <3>2, Zenon DEF Outcome
        <4>2. Outcome(r, p) # 200 BY <4>1
        <4> QED BY <3>2, <4>2, OriginsChecked, Zenon DEF Right
      <3>3. CASE OriginChecked(r)
        <4>1. Outcome(r, p) = 200 BY <1>4, <3>1, <3>3, Zenon DEF Outcome
        <4>3. PICK G \in Claims(r) : <<p.name, p.role>> \in G BY <1>4
        <4> DEFINE g == <<p.name, p.role>>
        <4>4. g[1] = p.name /\ g[2] = p.role OBVIOUS
        <4>5. g \in G BY <4>3
        <4> HIDE DEF g
        <4>6. g[1] = p.name /\ g[1] # "" /\ g[2] \in Allowed(r.route)
          BY <1>4, <2>2, <4>4, Zenon
        <4>7. (r.route = "act" => EndsInHost(r)) /\ (r.route = "stream" => SameOrigin(r))
          BY <3>3, OriginsChecked, Zenon
        <4>8. \E H \in Claims(r) : \E x \in H :
                 x[1] = p.name /\ x[1] # "" /\ x[2] \in Allowed(r.route)
          BY <4>3, <4>5, <4>6, Zenon
        <4> QED BY <4>1, <4>7, <4>8, Zenon DEF Right
      <3> QED BY <3>2, <3>3
    <2> QED BY <2>1, <2>2
  <1> QED BY <1>3, <1>4, Zenon DEF Grants

\* The inductive invariant: what the later phases work with is what Load accepted, so
\* building the identity never fails.
Inv == /\ start \in Starts
       /\ phase \in {"start", "loaded", "serving", "refused"}
       /\ phase \in {"loaded", "serving"} => ConfigLoaded
       /\ phase = "serving" => IdentityBuilt
       /\ HandledIffGranted

\* A setting is positive after the defaults.
LEMMA PositiveIs == ASSUME NEW v \in Int, NEW d \in Nat \ {0} PROVE Positive(v, d) > 0
  BY DEF Positive

\* buildIdentity's own checks find nothing that validate let through.
LEMMA ValidBuilds == ASSUME NEW c, Valid(c) PROVE Builds(c)
  <1>1. CASE c.mode = "token" /\ ValidTokenAuth(c)
    <2>1. c.mode # "proxy" BY <1>1
    <2>2. \A i \in DOMAIN c.principals : c.principals[i].p.role \in validRoles
      BY <1>1, Zenon DEF ValidTokenAuth
    <2> QED BY <2>1, <2>2 DEF Builds
  <1>2. CASE c.mode = "proxy" /\ ValidProxyAuth(c)
    BY <1>2, Zenon DEF ValidProxyAuth, Builds
  <1> QED BY <1>1, <1>2 DEF Valid

\* HandledIffGranted is Right of the answer in hand, and Right is about a request and
\* the configuration alone.
LEMMA HandledLater ==
    ASSUME NEW r, NEW status, NEW actor, Right(r, status, actor), start' = start,
           answer'.req = r, answer'.status = status, answer'.actor = actor
    PROVE  HandledIffGranted'
  <1>1. Claims(r)' = Claims(r)
    BY DEF Claims, ByToken, ByGroup, TokenFromRequest
  <1>3. (SameOrigin(r)' <=> SameOrigin(r)) /\ (EndsInHost(r)' <=> EndsInHost(r))
    BY DEF SameOrigin, EndsInHost
  <1>4. Allowed(r.route)' = Allowed(r.route) BY Zenon DEF Allowed
  <1>2. Right(r, status, actor)'
    <2>1. CASE status = 200
      <3>1. \E G \in Claims(r) : \E g \in G :
               g[1] = actor /\ g[1] # "" /\ g[2] \in Allowed(r.route)
        BY <2>1, Zenon DEF Right
      <3>2. (r.route = "act" => EndsInHost(r)) /\ (r.route = "stream" => SameOrigin(r))
        BY <2>1, Zenon DEF Right
      <3>3. \E G \in Claims(r)' : \E g \in G :
               g[1] = actor /\ g[1] # "" /\ g[2] \in Allowed(r.route)'
        BY <1>1, <1>4, <3>1
      <3>4. (r.route = "act" => EndsInHost(r)') /\ (r.route = "stream" => SameOrigin(r)')
        BY <1>3, <3>2, Zenon
      <3> QED BY <2>1, <3>3, <3>4, Zenon DEF Right
    <2>2. CASE status # 200
      <3>1. \/ r.route \in {"act", "stream"} /\ ~SameOrigin(r)
            \/ \A G \in Claims(r) : \E g \in G : g[2] \notin Allowed(r.route)
        BY <2>2, Zenon DEF Right
      <3>2. \/ r.route \in {"act", "stream"} /\ ~SameOrigin(r)'
            \/ \A G \in Claims(r)' : \E g \in G : g[2] \notin Allowed(r.route)'
        BY <1>1, <1>3, <1>4, <3>1
      <3> QED BY <2>2, <3>2, Zenon DEF Right
    <2> QED BY <2>1, <2>2
  <1> QED BY <1>2, Zenon DEF HandledIffGranted, Right

\* A step that leaves the configuration and the answer alone keeps what depends on them.
LEMMA SameAnswer ==
    ASSUME HandledIffGranted, answer' = answer, start' = start
    PROVE  HandledIffGranted'
  <1>1. CASE answer = Nothing BY <1>1 DEF HandledIffGranted
  <1>2. CASE answer # Nothing
    <2>1. Right(answer.req, answer.status, answer.actor)
      BY <1>2, Zenon DEF HandledIffGranted, Right
    <2> QED BY <2>1, HandledLater, Zenon
  <1> QED BY <1>1, <1>2

\* Every step of the startup and every request keeps the invariant.
LEMMA InvStep == ASSUME Inv, [Next]_vars PROVE Inv'
  <1>1. CASE ReadFails
    <2>1. phase' = "refused" /\ start' = start /\ answer' = answer BY <1>1 DEF ReadFails
    <2>2. HandledIffGranted' BY <2>1, SameAnswer DEF Inv
    <2> QED BY <2>1, <2>2 DEF Inv
  <1>2. CASE Load
    <2> DEFINE c == Loaded(start.file, start.env)
    <2>1. start' = start /\ answer' = answer BY <1>2 DEF Load
    <2>2. HandledIffGranted' BY <2>1, SameAnswer DEF Inv
    <2>3. \/ phase' = "refused"
          \/ phase' = "loaded" /\ cfg' = c /\ Valid(c)
      BY <1>2, Zenon DEF Load
    <2>4. phase' = "loaded" => ConfigLoaded'
      <3> SUFFICES ASSUME phase' = "loaded" PROVE ConfigLoaded' OBVIOUS
      <3>1. cfg' = c /\ Valid(c) BY <2>3
      <3>2. start' \in Starts BY <2>1 DEF Inv
      <3>3. Loaded(start.file, start.env)' = c BY <2>1
      <3>4. Valid(cfg)' BY <3>1
      <3> QED BY <3>1, <3>2, <3>3, <3>4 DEF ConfigLoaded
    <2>5. phase' \in {"start", "loaded", "serving", "refused"} /\ phase' # "serving" BY <2>3
    <2> QED BY <2>1, <2>2, <2>3, <2>4, <2>5 DEF Inv
  <1>3. CASE Build
    <2>1. phase = "loaded" /\ start' = start /\ cfg' = cfg /\ answer' = answer BY <1>3 DEF Build
    <2>2. HandledIffGranted' BY <2>1, SameAnswer DEF Inv
    <2>3. ConfigLoaded BY <2>1 DEF Inv
    <2>4. ConfigLoaded' BY <2>1, <2>3 DEF ConfigLoaded
    <2>5. Builds(cfg) BY <2>3, ValidBuilds DEF ConfigLoaded
    <2>6. phase' = "serving" /\ IdentityBuilt' BY <1>3, <2>1, <2>5 DEF Build, IdentityBuilt
    <2> QED BY <2>1, <2>2, <2>4, <2>6 DEF Inv
  <1>4. CASE Reply
    <2>1. answer' = Nothing /\ UNCHANGED <<start, phase, cfg, identity>> BY <1>4 DEF Reply
    <2>2. HandledIffGranted' BY <2>1 DEF HandledIffGranted, Nothing
    <2> QED BY <2>1, <2>2 DEF Inv, ConfigLoaded, IdentityBuilt
  <1>5. ASSUME NEW r \in Requests, Serve(r) PROVE Inv'
    <2>1. /\ phase = "serving" /\ UNCHANGED <<start, phase, cfg, identity>>
          /\ answer' = [kind |-> "answer", req |-> r, status |-> Outcome(r, Authenticate(r)),
                        actor |-> Authenticate(r).name]
      BY <1>5 DEF Serve
    <2>2. ConfigLoaded /\ IdentityBuilt BY <2>1 DEF Inv
    <2>3. Grants(r, Authenticate(r)) BY <2>2, TokenGrants, ProxyGrants
    <2>4. start' = start BY <2>1
    <2>5. HandledIffGranted'
      <3> DEFINE p == Authenticate(r)
      <3>1. /\ answer'.req = r /\ answer'.status = Outcome(r, p) /\ answer'.actor = p.name
        BY <2>1
      <3>2. Right(r, Outcome(r, p), p.name) BY <2>3, Answered
      <3> QED BY <2>4, <3>1, <3>2, HandledLater, Zenon
    <2> QED BY <2>1, <2>5 DEF Inv, ConfigLoaded, IdentityBuilt
  <1>6. CASE UNCHANGED vars
    <2>1. UNCHANGED <<start, phase, cfg, identity, answer>> BY <1>6 DEF vars
    <2>2. HandledIffGranted' BY <2>1, SameAnswer DEF Inv
    <2> QED BY <2>1, <2>2 DEF Inv, ConfigLoaded, IdentityBuilt
  <1> QED BY <1>1, <1>2, <1>3, <1>4, <1>5, <1>6 DEF Next

\* The invariant holds in every behaviour of the process.
THEOREM AccessInvariance == Spec => []Inv
  <1>1. Init => Inv BY DEF Init, Inv, HandledIffGranted
  <1> QED BY <1>1, InvStep, PTL DEF Spec

\* ValidatedIsUsable for every configuration: what config.validate accepts,
\* buildIdentity builds an identity from that someone can sign in with, the poller and
\* the ring get settings they can work with, and the durable history a file.
THEOREM AcceptedIsUsable == Spec => []ValidatedIsUsable
  <1>1. Inv => ValidatedIsUsable
    <2> SUFFICES ASSUME Inv PROVE ValidatedIsUsable OBVIOUS
    <2>1. phase # "failed" BY DEF Inv
    <2>2. ASSUME phase = "serving", identity.kind = "token" PROVE DOMAIN identity.byHash # {}
      <3>1. ConfigLoaded /\ IdentityBuilt BY <2>2 DEF Inv
      <3>2. cfg.mode # "proxy"
        <4> SUFFICES ASSUME cfg.mode = "proxy" PROVE FALSE OBVIOUS
        <4>1. identity.kind = "proxy" BY <3>1 DEF IdentityBuilt, NewProxyIdentity
        <4> QED BY <2>2, <4>1
      <3>3. CASE cfg.token # ""
        <4>1. PICK j \in DOMAIN Entries(cfg) : Entries(cfg)[j] = Legacy
          BY <3>1, <3>2, <3>3, EntriesAre
        <4>2. Entries(cfg)[j].token = cfg.token BY <4>1 DEF Legacy
        <4>3. cfg.token \in DOMAIN identity.byHash BY <3>1, <3>2, <3>3, <4>2, ByHash
        <4> QED BY <4>3
      <3>4. CASE cfg.principals # << >>
        <4> DEFINE n == Len(start.file.principals)
        <4>1. /\ n \in Nat
              /\ cfg.principals = [i \in 1..n |->
                    [p |-> start.file.principals[i],
                     token |-> Getenv(start.env, start.file.principals[i].tokenEnv)]]
              /\ \A i \in 1..n : cfg.principals[i].token # ""
          BY <3>1, <3>2, TokenConfig
        <4>2. \A i \in 1..n : \E j \in DOMAIN Entries(cfg) : Entries(cfg)[j] = EntryOf(i)
          BY <3>1, <3>2, EntriesAre
        <4> HIDE DEF n
        <4>3. 1 \in 1..n
          <5> DEFINE q == cfg.principals
                     S == {q[i] : i \in 1..n}
          <5>2. DOMAIN q = 1..n /\ q = [i \in 1..n |-> q[i]] BY <4>1
          <5>3. \A i \in 1..n : q[i] \in S OBVIOUS
          <5> HIDE DEF q, S
          <5>6. n \in Nat BY <4>1
          <5>4. q \in Seq(S) /\ Len(q) = n BY <5>6, <5>2, <5>3
          <5>5. q # << >> BY <3>4 DEF q
          <5>1. n # 0 BY <5>4, <5>5
          <5> QED BY <5>6, <5>1
        <4>4. PICK j \in DOMAIN Entries(cfg) : Entries(cfg)[j] = EntryOf(1) BY <4>2, <4>3
        <4>5. Entries(cfg)[j].token = cfg.principals[1].token BY <4>4 DEF EntryOf
        <4>6. cfg.principals[1].token # "" BY <4>1, <4>3
        <4>7. cfg.principals[1].token \in DOMAIN identity.byHash
          BY <3>1, <3>2, <4>5, <4>6, ByHash
        <4> QED BY <4>7
      <3> QED BY <3>1, <3>2, <3>3, <3>4, TokenConfig
    <2>3. ASSUME phase = "serving"
          PROVE  /\ cfg.interval > 0 /\ cfg.ringSize > 0 /\ cfg.statementTimeout > 0
                 /\ cfg.enabled => cfg.path # ""
      <3>1. start \in Starts /\ cfg = Loaded(start.file, start.env) /\ Valid(cfg)
        BY <2>3 DEF Inv, ConfigLoaded
      <3> DEFINE f == start.file
                 d == Defaults
      <3>2. f.interval \in Int /\ f.ringSize \in Int /\ f.statementTimeout \in Int
        BY <3>1, FilesTyped
      <3>3. /\ cfg.interval = Positive(f.interval, d.interval)
            /\ cfg.ringSize = Positive(f.ringSize, d.ringSize)
            /\ cfg.statementTimeout = Positive(f.statementTimeout, d.statementTimeout)
        BY <3>1 DEF Loaded
      <3>4. /\ d.interval \in Nat \ {0} /\ d.ringSize \in Nat \ {0}
            /\ d.statementTimeout \in Nat \ {0}
        BY DEF Defaults
      <3>5. cfg.enabled => cfg.path # "" BY <3>1 DEF Valid
      <3> HIDE DEF f, d
      <3>6. cfg.interval > 0 BY <3>2, <3>3, <3>4, PositiveIs, Zenon
      <3>7. cfg.ringSize > 0 BY <3>2, <3>3, <3>4, PositiveIs, Zenon
      <3>8. cfg.statementTimeout > 0 BY <3>2, <3>3, <3>4, PositiveIs, Zenon
      <3> QED BY <3>5, <3>6, <3>7, <3>8
    <2> QED BY <2>1, <2>2, <2>3, Zenon DEF ValidatedIsUsable
  <1> QED BY <1>1, AccessInvariance, PTL

\* HandledIffGranted for every configuration and request: the middlewares let a request
\* through to its handler exactly if the configuration as written grants it, under the
\* name of that grant, however its groups are listed; and an action or a stream only if
\* its Origin is none or has the Host at its end, which that of the own UI has.
THEOREM RequestsAsGranted == Spec => []HandledIffGranted
  <1>1. Inv => HandledIffGranted BY DEF Inv
  <1> QED BY <1>1, AccessInvariance, PTL
=============================================================================
