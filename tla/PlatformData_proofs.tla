------------------------- MODULE PlatformData_proofs -------------------------
(***************************************************************************)
(* Proofs about the parts of the platform that move data: the chains of a  *)
(* CVE, the commons, the structured LLM calls, the notifications, the      *)
(* prompts and the vector store, each for every value of its constants.    *)
(***************************************************************************)
EXTENDS AttackChains, Commons, LlmCalls, Events, Prompts, Embedding, FiniteSetTheorems, WellFoundedInduction, TLAPS

-----------------------------------------------------------------------------
(* Numbers.                                                                *)

\* A function to the naturals has a largest value on a finite set.
LEMMA FiniteMax ==
    ASSUME NEW S, IsFiniteSet(S), S # {}, NEW f \in [S -> Nat]
    PROVE  \E m \in S : \A y \in S : f[y] <= f[m]
  <1> DEFINE HasMax(U) == \E m \in U : \A y \in U : f[y] <= f[m]
             F == FiniteSubsetsOf(S)
             T == {U \in F : U # {} /\ ~HasMax(U)}
             R == StrictSubsetOrdering(S)
  <1>1. SUFFICES ASSUME T # {} PROVE FALSE
    BY FS_FiniteSubsetsOfFinite DEF FiniteSubsetsOf
  <1>2. IsWellFoundedOn(R, F)
    BY FS_StrictSubsetOrderingWellFounded
  <1>3. PICK U \in T : \A V \in T : ~(<<V, U>> \in R)
    <2> HIDE DEF R, F
    <2>1. QED
      BY <1>1, <1>2, WFMin
  <1>4. U \subseteq S /\ IsFiniteSet(U) /\ U # {} /\ ~HasMax(U)
    BY <1>3 DEF FiniteSubsetsOf
  <1>5. PICK x \in U : TRUE
    BY <1>4
  <1> DEFINE V == U \ {x}
  <1>6. V \in F /\ <<V, U>> \in R
    <2>1. IsFiniteSet(V) /\ V \subseteq S
      BY <1>4, FS_RemoveElement
    <2>2. QED
      BY <1>4, <1>5, <2>1 DEF FiniteSubsetsOf, StrictSubsetOrdering
  <1>7. CASE V = {}
    BY <1>4, <1>5, <1>7
  <1>8. CASE V # {}
    <2>1. PICK m \in V : \A y \in V : f[y] <= f[m]
      BY <1>3, <1>6, <1>8
    <2>2. CASE f[x] <= f[m]
      BY <1>4, <1>5, <2>1, <2>2
    <2>3. CASE ~(f[x] <= f[m])
      <3>1. f[x] \in Nat /\ f[m] \in Nat /\ \A y \in V : f[y] \in Nat
        BY <1>4, <1>5
      <3>2. \A y \in V : f[y] <= f[x]
        BY <2>1, <2>3, <3>1
      <3>3. QED
        BY <1>4, <1>5, <3>1, <3>2
    <2>4. QED
      BY <2>2, <2>3
  <1>9. QED
    BY <1>7, <1>8

-----------------------------------------------------------------------------
(* AttackChains.  Versions are handed out without a lock; that they have   *)
(* no gaps is what makes the unique index on them enough.                  *)

Versions == {r.version : r \in chainRows}

TxFacts(w) ==
    /\ chainTx[w].pc \in {"insert", "commit", "refused"} =>
         chainTx[w].version >= 1 /\ 1..(chainTx[w].version - 1) \subseteq Versions
    /\ TxAt(w, "commit") =>
         /\ ~Clashes(w)
         /\ \A v \in Writers : TxAt(v, "commit") => v = w

ChainInv ==
    /\ ChainTypeOK
    /\ \E n \in Nat : Versions = 1..n
    /\ \A w \in Writers : TxFacts(w)
    /\ ActiveIsLatest

\* NextVersion is the one version that is missing.
LEMMA NextVersionIs ==
    ASSUME NEW n \in Nat, Versions = 1..n
    PROVE  NextVersion = n + 1
  <1> DEFINE S == {0} \cup {r.version : r \in chainRows}
  <1>1. S = 0..n
    BY DEF Versions
  <1> HIDE DEF S
  <1>2. n \in S /\ \A y \in S : n >= y
    BY <1>1
  <1>3. ASSUME NEW x \in S, \A y \in S : x >= y
        PROVE  x = n
    BY <1>1, <1>2, <1>3
  <1>4. (CHOOSE x \in S : \A y \in S : x >= y) = n
    BY <1>2, <1>3
  <1>5. Max(S) = n
    BY <1>4 DEF Max
  <1>6. NextVersion = 1 + Max(S)
    BY DEF NextVersion, S
  <1>7. QED
    BY <1>5, <1>6

LEMMA NextVersionFacts ==
    ASSUME ChainInv
    PROVE  NextVersion \in Nat /\ NextVersion >= 1 /\ 1..(NextVersion - 1) \subseteq Versions
  BY NextVersionIs DEF ChainInv

\* A row is replaced by one of the same version, no longer active at most.
LEMMA RowsKept ==
    ASSUME ChainInv, NEW f,
           \A r \in chainRows : /\ f[r] \in ChainRow /\ f[r].version = r.version
                                /\ f[r].active => r.active,
           chainRows' = {f[r] : r \in chainRows}
    PROVE  /\ chainRows' \subseteq ChainRow
           /\ \A r, s \in chainRows' : r.version = s.version => r = s
           /\ Versions' = Versions
           /\ ActiveIsLatest'
           /\ \A w \in Writers : chainTx'[w] = chainTx[w] /\ TxAt(w, "commit")
                                   => ~Clashes(w)'
  <1>1. /\ chainRows' \subseteq ChainRow
        /\ \A r, s \in chainRows' : r.version = s.version => r = s
    BY DEF ChainInv, ChainTypeOK
  <1>2. Versions' = Versions
    BY DEF Versions
  <1>3. ActiveIsLatest'
    BY DEF ChainInv, ActiveIsLatest
  <1>4. ASSUME NEW w \in Writers, chainTx'[w] = chainTx[w], TxAt(w, "commit")
        PROVE  ~Clashes(w)'
    BY <1>4 DEF ChainInv, TxFacts, Clashes
  <1>5. QED
    BY <1>1, <1>2, <1>3, <1>4

\* A transaction that did not move keeps its facts.
LEMMA TxKept ==
    ASSUME ChainInv, NEW v \in Writers, chainTx'[v] = chainTx[v], Versions \subseteq Versions',
           TxAt(v, "commit") => ~Clashes(v)',
           \A u \in Writers : TxAt(u, "commit")' => TxAt(u, "commit")
    PROVE  TxFacts(v)'
  BY DEF ChainInv, TxFacts, TxAt

\* A transaction moves on, short of its INSERT, or ends without writing.
LEMMA TxMoves ==
    ASSUME ChainInv, NEW w \in Writers, NEW x \in {NoTx} \cup ChainTx,
           chainTx' = [chainTx EXCEPT ![w] = x], UNCHANGED chainRows,
           x.pc # "commit",
           x.pc \in {"insert", "refused"} =>
             x.version >= 1 /\ 1..(x.version - 1) \subseteq Versions
    PROVE  ChainInv'
  <1>1. Versions' = Versions /\ ActiveIsLatest'
    BY DEF ChainInv, ActiveIsLatest, Versions
  <1>2. ChainTypeOK'
    BY DEF ChainInv, ChainTypeOK
  <1>3. chainTx'[w] = x /\ \A v \in Writers : v # w => chainTx'[v] = chainTx[v]
    BY DEF ChainInv, ChainTypeOK
  <1>4. \A u \in Writers : TxAt(u, "commit")' => TxAt(u, "commit")
    BY <1>3 DEF TxAt
  <1>5. ASSUME NEW v \in Writers PROVE TxFacts(v)'
    <2>1. CASE v = w
      BY <2>1, <1>1, <1>3 DEF TxFacts, TxAt
    <2>2. CASE v # w
      <3>1. TxAt(v, "commit") => ~Clashes(v)'
        BY <2>2, <1>3 DEF ChainInv, TxFacts, Clashes
      <3>2. QED
        BY <2>2, <3>1, <1>1, <1>3, <1>4, TxKept
    <2>3. QED
      BY <2>1, <2>2
  <1>6. QED
    BY <1>1, <1>2, <1>5 DEF ChainInv

\* Rows are rewritten and keep their versions, a transaction may end with it.
LEMMA RowsRewritten ==
    ASSUME ChainInv, NEW f,
           \A r \in chainRows : /\ f[r] \in ChainRow /\ f[r].version = r.version
                                /\ f[r].active => r.active,
           chainRows' = {f[r] : r \in chainRows},
           \A v \in Writers : chainTx'[v] \in {NoTx, chainTx[v]},
           chainTx' \in [Writers -> {NoTx} \cup ChainTx]
    PROVE  ChainInv'
  <1>1. /\ ChainTypeOK'
        /\ Versions' = Versions
        /\ ActiveIsLatest'
        /\ \A w \in Writers : chainTx'[w] = chainTx[w] /\ TxAt(w, "commit")
                                => ~Clashes(w)'
    BY RowsKept DEF ChainTypeOK
  <1>2. \A u \in Writers : TxAt(u, "commit")' => TxAt(u, "commit")
    BY DEF TxAt, NoTx
  <1>3. ASSUME NEW v \in Writers PROVE TxFacts(v)'
    <2>1. CASE chainTx'[v] = NoTx
      BY <2>1 DEF TxFacts, TxAt, NoTx
    <2>2. CASE chainTx'[v] = chainTx[v]
      BY <2>2, <1>1, <1>2, TxKept
    <2>3. QED
      BY <2>1, <2>2
  <1>4. QED
    BY <1>1, <1>3 DEF ChainInv

LEMMA ChainInitially == ChainInit => ChainInv
  <1> SUFFICES ASSUME ChainInit PROVE ChainInv
    OBVIOUS
  <1>1. Versions = 1..0
    BY DEF ChainInit, Versions
  <1>2. QED
    BY <1>1 DEF ChainInit, ChainInv, ChainTypeOK, TxFacts, TxAt, NoTx, ActiveIsLatest

\* What the transactions do before the INSERT.
LEMMA PreparingKeeps ==
    ASSUME ChainInv, NEW w \in Writers,
           \/ \E m \in Mapping : SynthesizeStart(w, m)
           \/ \E b \in BOOLEAN : CheckCommons(w, b) \/ PersistCommonsHit(w, b)
           \/ \E a \in {"chain", "invalid", "error"} : CallWithRetries(w, a)
           \/ ReadChainVersion(w) \/ SupersedePriorActive(w) \/ WriterRollsBack(w)
    PROVE  ChainInv'
  <1>0. NoTx.pc = "idle"
    BY DEF NoTx
  <1>t. chainTx[w] \in {NoTx} \cup ChainTx
    BY DEF ChainInv, ChainTypeOK
  <1>1. ASSUME NEW m \in Mapping, SynthesizeStart(w, m) PROVE ChainInv'
    <2> DEFINE x == [pc |-> "supersede", old |-> {r.version : r \in ActiveChains},
                     mapping |-> m, origin |-> "assessment", version |-> 0, attempt |-> 0]
    <2>1. x \in ChainTx /\ x.pc = "supersede"
      BY DEF ChainTx, ActiveChains, ChainInv, ChainTypeOK, ChainRow
    <2>2. chainTx' = [chainTx EXCEPT ![w] = x] /\ UNCHANGED chainRows
      BY <1>1 DEF SynthesizeStart
    <2> HIDE DEF x
    <2>3. QED
      BY <2>1, <2>2, TxMoves
  <1>2. ASSUME NEW b \in BOOLEAN, CheckCommons(w, b) PROVE ChainInv'
    <2>1. PICK x \in {Generating("project", 0), Generating("call", 1)} :
            chainTx' = [chainTx EXCEPT ![w] = x] /\ UNCHANGED chainRows
      BY <1>2 DEF CheckCommons
    <2>2. x \in ChainTx /\ x.pc \in {"project", "call"}
      BY <2>1 DEF Generating, ChainTx, Mapping
    <2>3. QED
      BY <2>1, <2>2, TxMoves
  <1>3. ASSUME NEW b \in BOOLEAN, PersistCommonsHit(w, b) PROVE ChainInv'
    <2>1. PICK x \in {[Generating("version", 0) EXCEPT !.origin = "commons"],
                     Generating("call", 1)} :
            chainTx' = [chainTx EXCEPT ![w] = x] /\ UNCHANGED chainRows
      BY <1>3 DEF PersistCommonsHit
    <2>2. x \in ChainTx /\ x.pc \in {"version", "call"}
      BY <2>1 DEF Generating, ChainTx, Mapping
    <2>3. QED
      BY <2>1, <2>2, TxMoves
  <1>4. ASSUME NEW a \in {"chain", "invalid", "error"}, CallWithRetries(w, a) PROVE ChainInv'
    <2>1. chainTx[w] \in ChainTx /\ chainTx[w].pc = "call"
      BY <1>4, <1>t, <1>0 DEF CallWithRetries, TxAt
    <2>2. ASSUME NEW x \in {[chainTx[w] EXCEPT !.pc = "version"],
                            [chainTx[w] EXCEPT !.attempt = @ + 1], NoTx},
                 chainTx' = [chainTx EXCEPT ![w] = x]
          PROVE  ChainInv'
      <3>1. /\ [chainTx[w] EXCEPT !.pc = "version"] \in ChainTx
            /\ [chainTx[w] EXCEPT !.attempt = @ + 1] \in ChainTx
        BY <2>1 DEF ChainTx
      <3>2. x \in {NoTx} \cup ChainTx /\ x.pc \notin {"insert", "refused", "commit"}
        BY <2>1, <2>2, <3>1, <1>0 DEF ChainTx
      <3>3. QED
        BY <1>4, <2>2, <3>2, TxMoves DEF CallWithRetries
    <2>3. CASE a = "chain"
      BY <1>4, <2>2, <2>3 DEF CallWithRetries
    <2>4. CASE a = "invalid" /\ chainTx[w].attempt <= MAX_VALIDATION_RETRIES
      <3>1. chainTx' = [chainTx EXCEPT ![w].attempt = @ + 1]
        BY <1>4, <2>4 DEF CallWithRetries
      <3>2. QED
        BY <2>2, <3>1
    <2>5. CASE a # "chain" /\ ~(a = "invalid" /\ chainTx[w].attempt <= MAX_VALIDATION_RETRIES)
      <3>1. chainTx' = [chainTx EXCEPT ![w] = NoTx]
        BY <1>4, <2>5 DEF CallWithRetries
      <3>2. QED
        BY <2>2, <3>1
    <2>6. QED
      BY <2>3, <2>4, <2>5
  <1>5. ASSUME ReadChainVersion(w) PROVE ChainInv'
    <2> DEFINE x == [chainTx[w] EXCEPT !.version = NextVersion, !.pc = "insert"]
    <2>1. chainTx[w] \in ChainTx
      BY <1>5, <1>t, <1>0 DEF ReadChainVersion, TxAt
    <2>2. x \in ChainTx /\ x.version = NextVersion /\ x.pc = "insert"
      BY <2>1, NextVersionFacts DEF ChainTx
    <2>3. chainTx' = [chainTx EXCEPT ![w] = x]
      BY <1>5 DEF ReadChainVersion
    <2> HIDE DEF x
    <2>4. QED
      BY <1>5, <2>2, <2>3, NextVersionFacts, TxMoves DEF ReadChainVersion
  <1>6. ASSUME SupersedePriorActive(w) PROVE ChainInv'
    <2> DEFINE p == IF IsMalformed(w) THEN "refused" ELSE "insert"
               x == [chainTx[w] EXCEPT !.version = NextVersion, !.pc = p]
    <2>1. chainTx[w] \in ChainTx
      BY <1>6, <1>t, <1>0 DEF SupersedePriorActive, TxAt
    <2>2. p \in {"insert", "refused"}
      OBVIOUS
    <2>3. chainTx' = [chainTx EXCEPT ![w] = x]
      BY <1>6 DEF SupersedePriorActive
    <2> HIDE DEF p
    <2>4. x \in ChainTx /\ x.version = NextVersion /\ x.pc = p
      BY <2>1, <2>2, NextVersionFacts DEF ChainTx
    <2> HIDE DEF x
    <2>5. QED
      BY <1>6, <2>2, <2>3, <2>4, NextVersionFacts, TxMoves DEF SupersedePriorActive
  <1>7. ASSUME WriterRollsBack(w) PROVE ChainInv'
    BY <1>7, <1>0, TxMoves DEF WriterRollsBack
  <1>8. QED
    BY <1>1, <1>2, <1>3, <1>4, <1>5, <1>6, <1>7

\* The INSERT waits for every other one, so what it checked stays true.
LEMMA InsertKeeps ==
    ASSUME ChainInv, NEW w \in Writers, InsertChainRows(w)
    PROVE  ChainInv'
  <1>1. CASE Clashes(w)
    <2>1. chainTx' = [chainTx EXCEPT ![w] = NoTx] /\ UNCHANGED chainRows
      BY <1>1 DEF InsertChainRows
    <2>2. NoTx.pc = "idle"
      BY DEF NoTx
    <2>3. QED
      BY <2>1, <2>2, TxMoves
  <1>2. CASE ~Clashes(w)
    <2> DEFINE x == [chainTx[w] EXCEPT !.pc = "commit"]
    <2>1. chainTx' = [chainTx EXCEPT ![w] = x] /\ UNCHANGED chainRows
      BY <1>2 DEF InsertChainRows
    <2>2. chainTx[w] \in ChainTx
      BY DEF ChainInv, ChainTypeOK, InsertChainRows, TxAt, NoTx
    <2>3. x \in ChainTx /\ x.pc = "commit" /\ x.version = chainTx[w].version
          /\ x.old = chainTx[w].old
      BY <2>2 DEF ChainTx
    <2> HIDE DEF x
    <2>4. chainTx'[w] = x /\ \A v \in Writers : v # w => chainTx'[v] = chainTx[v]
      BY <2>1 DEF ChainInv, ChainTypeOK
    <2>5. Versions' = Versions /\ ActiveIsLatest' /\ ChainTypeOK'
      BY <2>1, <2>3 DEF ChainInv, ChainTypeOK, ActiveIsLatest, Versions
    <2>6. \A v \in Writers : v # w => ~TxAt(v, "commit")'
      BY <2>4 DEF InsertChainRows, MustWait, TxAt
    <2>7. TxFacts(w)'
      <3>1. ~Clashes(w)'
        BY <1>2, <2>1, <2>3, <2>4 DEF Clashes
      <3>2. chainTx[w].version >= 1 /\ 1..(chainTx[w].version - 1) \subseteq Versions
        BY DEF ChainInv, TxFacts, InsertChainRows, TxAt
      <3>3. QED
        BY <3>1, <3>2, <2>3, <2>4, <2>5, <2>6 DEF TxFacts
    <2>8. ASSUME NEW v \in Writers, v # w PROVE TxFacts(v)'
      BY <2>8, <2>4, <2>5, <2>6 DEF ChainInv, TxFacts, TxAt
    <2>9. QED
      BY <2>5, <2>7, <2>8 DEF ChainInv
  <1>3. QED
    BY <1>1, <1>2

\* The commit: the rows it read as active go, its own row is the next version.
LEMMA PersistKeeps ==
    ASSUME ChainInv, NEW w \in Writers, PersistChain(w)
    PROVE  ChainInv'
  <1> DEFINE tx == chainTx[w]
             kept == {[r EXCEPT !.active = @ /\ r.version \notin tx.old] : r \in chainRows}
             new == NewChainRow(w)
  <1>1. tx \in ChainTx /\ tx.pc = "commit"
    BY DEF ChainInv, ChainTypeOK, PersistChain, TxAt, NoTx
  <1>2. PICK n \in Nat : Versions = 1..n
    BY DEF ChainInv
  <1>3. ~Clashes(w) /\ tx.version >= 1 /\ 1..(tx.version - 1) \subseteq Versions
        /\ \A v \in Writers : TxAt(v, "commit") => v = w
    BY <1>1 DEF ChainInv, TxFacts, TxAt
  <1>4. tx.version = n + 1
    <2>1. tx.version \notin 1..n
      BY <1>2, <1>3 DEF Clashes, Versions
    <2>2. tx.version \in Nat
      BY <1>1 DEF ChainTx
    <2>3. tx.version - 1 <= n
      BY <1>2, <1>3, <2>2
    <2>4. QED
      BY <2>1, <2>2, <2>3, <1>3
  <1>5. /\ new \in ChainRow /\ new.version = n + 1
    BY <1>1, <1>4 DEF NewChainRow, ChainRow, ChainTx
  <1>6. \A r \in kept : r \in ChainRow /\ r.version \in 1..n /\ r.active = FALSE
    BY <1>2, <1>3 DEF ChainInv, ChainTypeOK, ChainRow, Clashes, Versions
  <1>7. {r.version : r \in kept} = 1..n
    <2>1. \A r \in chainRows : [r EXCEPT !.active = @ /\ r.version \notin tx.old].version
                                = r.version
      BY DEF ChainInv, ChainTypeOK, ChainRow
    <2>2. \A r \in kept : \E q \in chainRows : r.version = q.version
      BY <2>1
    <2>3. \A q \in chainRows : \E r \in kept : r.version = q.version
      BY <2>1
    <2> HIDE DEF kept
    <2>4. {r.version : r \in kept} = Versions
      BY <2>2, <2>3 DEF Versions
    <2>5. QED
      BY <2>4, <1>2
  <1>8. \A r, s \in kept : r.version = s.version => r = s
    BY DEF ChainInv, ChainTypeOK, ChainRow
  <1>9. chainRows' = kept \cup {new} /\ chainTx' = [chainTx EXCEPT ![w] = NoTx]
    BY DEF PersistChain
  <1> HIDE DEF kept, new
  <1>10. Versions' = 1..(n + 1)
    <2>1. Versions' = {r.version : r \in kept} \cup {n + 1}
      BY <1>5, <1>9 DEF Versions
    <2>2. QED
      BY <2>1, <1>7
  <1>11. ActiveIsLatest'
    <2>1. \A r \in chainRows' : r.version <= n + 1
      BY <1>5, <1>6, <1>9
    <2>2. \A r \in chainRows' : r.active => r.version = n + 1
      BY <1>5, <1>6, <1>9
    <2>3. QED
      BY <2>1, <2>2 DEF ActiveIsLatest
  <1>12. ChainTypeOK'
    <2>1. \A r, s \in chainRows' : r.version = s.version => r = s
      BY <1>5, <1>6, <1>8, <1>9
    <2>2. QED
      BY <2>1, <1>5, <1>6, <1>9 DEF ChainInv, ChainTypeOK
  <1>13. ASSUME NEW v \in Writers PROVE TxFacts(v)'
    <2>1. CASE v = w
      BY <2>1, <1>9 DEF ChainInv, ChainTypeOK, TxFacts, TxAt, NoTx
    <2>2. CASE v # w
      BY <2>2, <1>2, <1>3, <1>9, <1>10 DEF ChainInv, ChainTypeOK, TxFacts, TxAt
    <2>3. QED
      BY <2>1, <2>2
  <1>14. QED
    BY <1>10, <1>11, <1>12, <1>13 DEF ChainInv

\* A synthesis that is refused keeps what it superseded.
LEMMA RefusalKeeps ==
    ASSUME ChainInv, NEW w \in Writers, SynthesisRefused(w)
    PROVE  ChainInv'
  <1> DEFINE f == [r \in chainRows |->
                     [r EXCEPT !.active = @ /\ r.version \notin chainTx[w].old]]
  <1>1. \A r \in chainRows : /\ f[r] \in ChainRow /\ f[r].version = r.version
                             /\ f[r].active => r.active
    BY DEF ChainInv, ChainTypeOK, ChainRow
  <1>2. chainRows' = {f[r] : r \in chainRows}
    BY DEF SynthesisRefused
  <1>3. chainTx' \in [Writers -> {NoTx} \cup ChainTx]
    BY DEF SynthesisRefused, ChainInv, ChainTypeOK
  <1>4. \A v \in Writers : chainTx'[v] \in {NoTx, chainTx[v]}
    BY DEF SynthesisRefused, ChainInv, ChainTypeOK
  <1> HIDE DEF f
  <1>5. QED
    BY <1>1, <1>2, <1>3, <1>4, RowsRewritten

LEMMA ReviewKeeps ==
    ASSUME ChainInv, NEW r \in chainRows, ValidateChain(r) \/ RejectChain(r)
    PROVE  ChainInv'
  <1>1. PICK verdict \in {"validated", "rejected"} : ReviewChain(r, verdict)
    BY DEF ValidateChain, RejectChain
  <1> DEFINE f == [q \in chainRows |-> IF q = r THEN [r EXCEPT !.status = verdict] ELSE q]
  <1>2. \A q \in chainRows : /\ f[q] \in ChainRow /\ f[q].version = q.version
                             /\ f[q].active => q.active
    BY DEF ChainInv, ChainTypeOK, ChainRow
  <1>3. chainRows' = {f[q] : q \in chainRows}
    BY <1>1 DEF ReviewChain
  <1>4. /\ chainTx' \in [Writers -> {NoTx} \cup ChainTx]
        /\ \A v \in Writers : chainTx'[v] \in {NoTx, chainTx[v]}
    BY <1>1 DEF ReviewChain, ChainInv, ChainTypeOK
  <1> HIDE DEF f
  <1>5. QED
    BY <1>2, <1>3, <1>4, RowsRewritten

LEMMA ChainStep == ChainInv /\ [ChainNext]_chainVars => ChainInv'
  <1> SUFFICES ASSUME ChainInv, [ChainNext]_chainVars PROVE ChainInv'
    OBVIOUS
  <1>1. Assessments \subseteq Writers /\ Generators \subseteq Writers
    BY DEF Writers
  <1>2. CASE UNCHANGED chainVars
    BY <1>2 DEF chainVars, ChainInv, ChainTypeOK, Versions, TxFacts, TxAt, Clashes,
                ActiveIsLatest
  <1>3. CASE ChainNext
    BY <1>1, <1>3, PreparingKeeps, InsertKeeps, PersistKeeps, RefusalKeeps, ReviewKeeps
       DEF ChainNext
  <1>4. QED
    BY <1>2, <1>3

\* However assessments, generators and analysts overlap, the versions of a
\* CVE's chains have no gaps and an open INSERT is the only one.
THEOREM ChainInvariant == ChainSpec => []ChainInv
  BY ChainInitially, ChainStep, PTL DEF ChainSpec

\* Every row of attack_chains and every transaction of its writers is well
\* formed, and no two rows share a version (uq_attack_chains_cve_version).
THEOREM ChainTypeCorrect == ChainSpec => []ChainTypeOK
  <1>1. ChainInv => ChainTypeOK
    BY DEF ChainInv
  <1>2. QED
    BY <1>1, ChainInvariant, PTL

\* The active chain of a CVE is its latest version and the only one, for any
\* number of synthesizers and generators writing at the same time.
THEOREM ActiveIsLatestAlways == ChainSpec => []ActiveIsLatest
  <1>1. ChainInv => ActiveIsLatest
    BY DEF ChainInv
  <1>2. QED
    BY <1>1, ChainInvariant, PTL

-----------------------------------------------------------------------------
(* Commons.                                                                *)

Trust == {"community", "partner", "internal"}
CommonsSourceRow == [state : {"new", "there", "deleted"}, enabled : BOOLEAN, priority : Nat,
                     trust : Trust, release : Nat]
CommonsChainRow == [source : CommonsSources, version : Nat]
Import == [pc : {"idle", "bootstrap", "sync"},
           loaded : UNION {[S -> [release : Nat, trust : Trust]] : S \in SUBSET CommonsSources}]

CommonsInv ==
    /\ commonsSource \in [CommonsSources -> CommonsSourceRow]
    /\ commonsChains \subseteq CommonsChainRow
    /\ IsFiniteSet(commonsChains)
    /\ importer \in [ImportTasks -> Import]

\* A chain's rank is a number, so a finite set of chains has a winner.
LEMMA KeyType ==
    ASSUME CommonsInv, NEW c \in CommonsChainRow
    PROVE  Key(c) \in Nat
  <1>1. commonsSource[c.source].priority \in Nat /\ commonsSource[c.source].trust \in Trust
    BY DEF CommonsInv, CommonsSourceRow, CommonsChainRow
  <1>2. trust_rank(c.source) \in Nat
    BY <1>1 DEF trust_rank, TRUST_LEVEL_RANK, Trust
  <1>3. c.version \in Nat /\ MaxChainVersion + 1 \in Nat
    BY CommonsAssumption DEF CommonsChainRow
  <1>4. commonsSource[c.source].priority * 3 + trust_rank(c.source) \in Nat
    BY <1>1, <1>2
  <1>5. \A a, b \in Nat : a * b \in Nat
    OBVIOUS
  <1>6. QED
    BY <1>3, <1>4, <1>5 DEF Key

LEMMA WinnerIs ==
    ASSUME CommonsInv, commonsChains # {}
    PROVE  /\ select_winning_chain(commonsChains) \in commonsChains
           /\ WinnerKey = Key(select_winning_chain(commonsChains))
           /\ WinnerKey \in Nat
           /\ \A d \in commonsChains : Key(d) <= WinnerKey
  <1> DEFINE f == [c \in commonsChains |-> Key(c)]
  <1>1. f \in [commonsChains -> Nat]
    BY KeyType DEF CommonsInv
  <1>2. IsFiniteSet(commonsChains)
    BY DEF CommonsInv
  <1>3. PICK m \in commonsChains : \A d \in commonsChains : f[d] <= f[m]
    <2> HIDE DEF f
    <2>1. QED
      BY <1>1, <1>2, FiniteMax
  <1>4. \A d \in commonsChains : Key(d) <= Key(m)
    BY <1>3
  <1> DEFINE w == select_winning_chain(commonsChains)
  <1>5. w \in commonsChains /\ \A d \in commonsChains : Key(d) <= Key(w)
    BY <1>4 DEF select_winning_chain
  <1>6. WinnerKey = Key(w)
    BY DEF WinnerKey
  <1> HIDE DEF w
  <1>7. Key(w) \in Nat
    BY <1>5, KeyType DEF CommonsInv
  <1>8. QED
    BY <1>5, <1>6, <1>7 DEF w

WinnerTops ==
    commonsChains # {} =>
      WinnerKey \in Nat /\ \A d \in commonsChains : Key(d) <= WinnerKey

LEMMA WinnerIsTop == CommonsInv => WinnerTops
  BY WinnerIs DEF WinnerTops

LEMMA WinnerIsTopNext == CommonsInv' => WinnerTops'
  BY WinnerIsTop, PTL

LEMMA NoImportType == NoImport \in Import
  <1> DEFINE none == [s \in {} |-> 0]
  <1>1. none \in [{} -> [release : Nat, trust : Trust]]
    OBVIOUS
  <1>2. NoImport = [pc |-> "idle", loaded |-> none]
    BY DEF NoImport
  <1> HIDE DEF none
  <1>3. QED
    BY <1>1, <1>2 DEF Import

LEMMA CommonsInitially == CommonsInit => CommonsInv
  <1> SUFFICES ASSUME CommonsInit PROVE CommonsInv
    OBVIOUS
  <1>1. NoSource \in CommonsSourceRow
    BY DEF NoSource, CommonsSourceRow, Trust
  <1>2. QED
    BY <1>1, NoImportType, FS_EmptySet DEF CommonsInit, CommonsInv

\* The administrator.
LEMMA AdministrationKeeps ==
    ASSUME CommonsInv, NEW s \in CommonsSources,
           \/ delete_source(s)
           \/ \E p \in Priorities, l \in TrustLevels, b \in BOOLEAN :
                create_source(s, p, l, b) \/ update_source(s, p, l, b)
    PROVE  CommonsInv' /\ (SameRanks => commonsChains \subseteq commonsChains')
  <1>1. CASE delete_source(s)
    <2>1. Deleted \in CommonsSourceRow /\ Deleted.state = "deleted"
      BY DEF Deleted, NoSource, CommonsSourceRow, Trust
    <2>2. commonsSource[s].state = "there" /\ commonsSource'[s] = Deleted
      BY <1>1 DEF delete_source, Existing, CommonsInv
    <2>3. commonsChains' \in SUBSET commonsChains
      BY <1>1 DEF delete_source
    <2>4. IsFiniteSet(commonsChains')
      BY <2>3, FS_Subset DEF CommonsInv
    <2>5. CommonsInv'
      BY <1>1, <2>1, <2>3, <2>4 DEF CommonsInv, delete_source, Edited
    <2>6. ~SameRanks
      BY <2>1, <2>2 DEF SameRanks
    <2>7. QED
      BY <2>5, <2>6
  <1>2. ASSUME NEW p \in Priorities, NEW l \in TrustLevels, NEW b \in BOOLEAN,
               create_source(s, p, l, b)
        PROVE  CommonsInv'
    <2>1. [state |-> "there", enabled |-> b, priority |-> p, trust |-> l, release |-> 0]
            \in CommonsSourceRow
      BY CommonsAssumption DEF CommonsSourceRow, Trust
    <2>2. QED
      BY <1>2, <2>1 DEF CommonsInv, create_source, Edited
  <1>3. ASSUME NEW p \in Priorities, NEW l \in TrustLevels, NEW b \in BOOLEAN,
               update_source(s, p, l, b)
        PROVE  CommonsInv'
    <2>1. p \in Nat /\ l \in Trust
      BY CommonsAssumption DEF Trust
    <2>2. [commonsSource[s] EXCEPT !.priority = p, !.trust = l, !.enabled = b]
            \in CommonsSourceRow
      BY <2>1 DEF CommonsInv, CommonsSourceRow
    <2>3. commonsSource' = [commonsSource EXCEPT ![s] =
            [commonsSource[s] EXCEPT !.priority = p, !.trust = l, !.enabled = b]]
      BY <1>3 DEF update_source, CommonsInv
    <2>4. commonsSource' \in [CommonsSources -> CommonsSourceRow]
      BY <2>2, <2>3 DEF CommonsInv
    <2>5. UNCHANGED <<commonsChains, importer>>
      BY <1>3 DEF update_source, Edited
    <2>6. QED
      BY <2>4, <2>5 DEF CommonsInv
  <1>4. QED
    BY <1>1, <1>2, <1>3 DEF create_source, update_source

LEMMA BeginKeeps ==
    ASSUME CommonsInv, NEW t \in ImportTasks,
           \/ bootstrap_all(t) \/ sync_all(t)
           \/ \E s \in CommonsSources : sync_one(t, s)
    PROVE  CommonsInv' /\ UNCHANGED commonsChains
  <1>1. PICK kind \in {"bootstrap", "sync"}, S \in SUBSET CommonsSources : BeginImport(t, kind, S)
    <2>1. Enabled \subseteq CommonsSources
      BY DEF Enabled, Existing
    <2>2. QED
      BY <2>1 DEF bootstrap_all, sync_all, sync_one
  <1> DEFINE loaded == [s \in S |-> [release |-> commonsSource[s].release,
                                     trust |-> commonsSource[s].trust]]
             x == [pc |-> kind, loaded |-> loaded]
  <1>2. loaded \in [S -> [release : Nat, trust : Trust]]
    BY DEF CommonsInv, CommonsSourceRow
  <1>3. importer' = [importer EXCEPT ![t] = x] /\ UNCHANGED <<commonsSource, commonsChains>>
    BY <1>1 DEF BeginImport
  <1> HIDE DEF loaded
  <1>4. x \in Import
    BY <1>2 DEF Import
  <1> HIDE DEF x
  <1>5. QED
    BY <1>3, <1>4 DEF CommonsInv

LEMMA FoundType ==
    ASSUME NEW kind, NEW release \in fetch_latest_release(kind)
    PROVE  release.name \in Nat /\ release.chain \in Nat
  <1>1. MaxChainVersion \in Nat
    BY CommonsAssumption
  <1>2. ASSUME NEW q \in Releases PROVE q.name \in Nat /\ q.chain \in Nat
    BY <1>1 DEF Releases
  <1>3. \A q \in {NoRelease, MockRelease} : q.name \in Nat /\ q.chain \in Nat
    BY <1>1 DEF NoRelease, MockRelease
  <1>4. QED
    BY <1>2, <1>3 DEF fetch_latest_release

\* A commit adds finitely many rows and takes none away.
LEMMA CommitKeeps ==
    ASSUME CommonsInv, NEW t \in ImportTasks, ImportCommits(t)
    PROVE  CommonsInv' /\ commonsChains \subseteq commonsChains'
  <1> DEFINE loaded == importer[t].loaded
             D == DOMAIN loaded
  <1>i. loaded \in [D -> [release : Nat, trust : Trust]] /\ D \subseteq CommonsSources
    BY DEF CommonsInv, Import
  <1>1. PICK found \in [D -> fetch_latest_release(importer[t].pc)] :
          /\ commonsChains' = commonsChains \cup NewRows(t, found)
          /\ commonsSource' = [s \in CommonsSources |->
               IF s \in News(t, found) THEN [commonsSource[s] EXCEPT !.release = found[s].name]
               ELSE commonsSource[s]]
    BY DEF ImportCommits
  <1>2. News(t, found) \subseteq D
    BY DEF News
  <1>3. \A s \in D : found[s].name \in Nat /\ found[s].chain \in Nat
    BY FoundType
  <1> DEFINE B == IF importer[t].pc = "sync" THEN News(t, found) ELSE D
             f == [s \in B |-> import_release(s, loaded[s].trust, found[s])]
             T == {import_release(s, loaded[s].trust, found[s]) : s \in B}
  <1>4. NewRows(t, found) = UNION T
    BY DEF NewRows
  <1>5. B \subseteq D /\ B \subseteq CommonsSources
    BY <1>2, <1>i
  <1> HIDE DEF B, D, loaded
  <1>6. IsFiniteSet(B)
    BY <1>5, FS_Subset, CommonsAssumption
  <1>7. IsFiniteSet(T)
    <2>1. f \in Surjection(B, T)
      BY DEF Surjection
    <2>2. QED
      BY <1>6, <2>1, FS_Surjection
  <1>8. ASSUME NEW s \in B
        PROVE  /\ IsFiniteSet(import_release(s, loaded[s].trust, found[s]))
               /\ import_release(s, loaded[s].trust, found[s]) \subseteq CommonsChainRow
    <2>1. CommonsRow(s, found[s].chain) \in CommonsChainRow
      BY <1>3, <1>5 DEF CommonsRow, CommonsChainRow
    <2>2. QED
      BY <2>1, FS_EmptySet, FS_Singleton DEF import_release
  <1>9. \A U \in T : IsFiniteSet(U) /\ U \subseteq CommonsChainRow
    BY <1>8
  <1> HIDE DEF T
  <1>10. IsFiniteSet(UNION T) /\ UNION T \subseteq CommonsChainRow
    BY <1>7, <1>9, FS_UNION
  <1>11. IsFiniteSet(commonsChains') /\ commonsChains' \subseteq CommonsChainRow
    BY <1>1, <1>4, <1>10, FS_Union DEF CommonsInv
  <1>12. commonsSource' \in [CommonsSources -> CommonsSourceRow]
    <2>1. ASSUME NEW s \in News(t, found)
          PROVE  [commonsSource[s] EXCEPT !.release = found[s].name] \in CommonsSourceRow
      <3>1. found[s].name \in Nat /\ commonsSource[s] \in CommonsSourceRow
        BY <1>i, <1>2, <1>3 DEF CommonsInv
      <3>2. QED
        BY <3>1 DEF CommonsSourceRow
    <2>2. \A s \in CommonsSources : commonsSource'[s] \in CommonsSourceRow
      BY <1>1, <2>1 DEF CommonsInv
    <2>3. QED
      BY <1>1, <2>2
  <1>13. importer' \in [ImportTasks -> Import]
    BY NoImportType DEF CommonsInv, ImportCommits
  <1>14. QED
    BY <1>1, <1>11, <1>12, <1>13 DEF CommonsInv

LEMMA CommonsStep ==
    CommonsInv /\ [CommonsNext]_commonsVars
      => CommonsInv' /\ (SameRanks => commonsChains \subseteq commonsChains')
  <1> SUFFICES ASSUME CommonsInv, [CommonsNext]_commonsVars
               PROVE  CommonsInv' /\ (SameRanks => commonsChains \subseteq commonsChains')
    OBVIOUS
  <1>1. CASE UNCHANGED commonsVars
    BY <1>1 DEF commonsVars, CommonsInv
  <1>2. ASSUME NEW t \in ImportTasks, bootstrap_all(t) \/ sync_all(t)
                 \/ \E s \in CommonsSources : sync_one(t, s)
        PROVE  CommonsInv' /\ commonsChains \subseteq commonsChains'
    BY <1>2, BeginKeeps
  <1>3. ASSUME NEW t \in ImportTasks, ImportRollsBack(t)
        PROVE  CommonsInv' /\ commonsChains \subseteq commonsChains'
    BY <1>3, NoImportType DEF ImportRollsBack, CommonsInv
  <1>4. CASE CommonsNext
    BY <1>2, <1>3, <1>4, AdministrationKeeps, CommitKeeps DEF CommonsNext
  <1>5. QED
    BY <1>1, <1>4

\* With the ranks as they were, a set of chains that only grows has a winner at
\* least as good.
LEMMA WinnerGrows ==
    ASSUME CommonsInv, CommonsInv', SameRanks, commonsChains \subseteq commonsChains'
    PROVE  WinnerKey <= WinnerKey'
  <1>1. CASE commonsChains = {}
    <2>1. WinnerKey = 0
      BY <1>1 DEF WinnerKey
    <2>2. WinnerKey' \in Nat
      <3>1. CASE commonsChains' = {}
        BY <3>1 DEF WinnerKey
      <3>2. CASE commonsChains' # {}
        BY <3>2, WinnerIsTopNext DEF WinnerTops
      <3>3. QED
        BY <3>1, <3>2
    <2>3. QED
      BY <2>1, <2>2
  <1>2. CASE commonsChains # {}
    <2>1. PICK w \in commonsChains : WinnerKey = Key(w)
      BY <1>2, WinnerIs
    <2>2. /\ w \in commonsChains'
          /\ commonsSource'[w.source].priority = commonsSource[w.source].priority
          /\ commonsSource'[w.source].trust = commonsSource[w.source].trust
      BY <2>1 DEF SameRanks, CommonsInv, CommonsChainRow
    <2>3. Key(w)' = Key(w)
      BY <2>2 DEF Key, trust_rank
    <2>4. QED
      BY <2>1, <2>2, <2>3, WinnerIsTopNext DEF WinnerTops
  <1>3. QED
    BY <1>1, <1>2

\* An import only ever adds chains of well-formed releases, whatever the
\* repositories publish, and holds finitely many of them.
THEOREM CommonsInvariant == CommonsSpec => []CommonsInv
  BY CommonsInitially, CommonsStep, PTL DEF CommonsSpec

\* Unless an administrator re-ranks or deletes a source, the chain
\* check_chain_exists answers with never gets worse, for any number of sources,
\* priorities and overlapping imports.
THEOREM WinnerNeverDowngradedAlways == CommonsSpec => WinnerNeverDowngraded
  <1>1. CommonsInv /\ CommonsInv' /\ [CommonsNext]_commonsVars
          => [SameRanks => WinnerKey <= WinnerKey']_commonsVars
    BY CommonsStep, WinnerGrows
  <1>2. QED
    BY <1>1, CommonsInvariant, PTL DEF CommonsSpec, WinnerNeverDowngraded

-----------------------------------------------------------------------------
(* LlmCalls.  Between the gateway's answer and the end of the turn the     *)
(* cost is in no counter: it is in the samples that hold an answer.        *)

Sample == [pc : {"off", "calling", "recording", "failing", "returned", "raised", "timed_out"},
           attempt : Nat, text : Values \cup {Invalid}, cost : {0, 1}]
StructuredCall == [mode : {"none", "single", "voted"},
                   phase : {"idle", "asking", "returned", "failed", "raised"},
                   validations : Nat, timeouts : Nat, cost : Nat,
                   value : Values \cup {Invalid}]

LlmTypeOK ==
    /\ llm \in StructuredCall /\ billed \in Nat /\ unseen \in Nat
    /\ samples \in [Slots -> Sample]

\* The samples that hold a price no counter has taken.
Unspent == {k \in Slots : samples[k].pc \in {"recording", "returned"} /\ samples[k].cost = 1}
Spent(n) == llm.cost + n + unseen = billed

LlmInv ==
    /\ LlmTypeOK
    /\ llm.phase = "idle" => billed = 0 /\ unseen = 0
    /\ llm.phase # "asking" =>
         \A k \in Slots : samples[k].pc \in {"off", "returned", "raised", "timed_out"}
    /\ llm.phase = "asking" =>
         /\ Spent(Cardinality(Unspent))
         /\ llm.mode \in {"single", "voted"}
         /\ llm.mode = "single" => \A k \in Slots : k # 1 => samples[k].pc = "off"
         /\ llm.mode = "voted" => llm.cost = 0
    /\ CostIsBilled

LEMMA SlotsFinite == IsFiniteSet(Slots) /\ 1 \in Slots
  BY LlmAssumption, FS_Interval DEF Slots

LEMMA UnspentFinite == IsFiniteSet(Unspent) /\ Cardinality(Unspent) \in Nat
  <1>1. Unspent \in SUBSET Slots
    BY DEF Unspent
  <1>2. QED
    BY <1>1, SlotsFinite, FS_Subset, FS_CardinalityType

LEMMA LlmInitially == LlmInit => LlmInv
  <1> SUFFICES ASSUME LlmInit PROVE LlmInv
    OBVIOUS
  <1>1. LlmTypeOK
    BY DEF LlmInit, LlmTypeOK, IdleCall, StructuredCall, NoSample, Sample
  <1>2. QED
    BY <1>1 DEF LlmInit, LlmInv, IdleCall, NoSample, CostIsBilled

\* What sample k holds of the price.
Holds(x) == IF x.pc \in {"recording", "returned"} THEN x.cost ELSE 0

\* A sample that is under way moves on while the call is asking: a charge goes
\* into the sample or out of everyone's sight.
LEMMA SampleMoves ==
    ASSUME LlmInv, NEW k \in Slots, NEW x \in Sample, NEW n \in {0, 1}, NEW m \in Nat,
           samples[k].pc \in {"calling", "recording", "failing"},
           samples' = [samples EXCEPT ![k] = x], UNCHANGED llm,
           x.pc # "off", billed' = billed + n, unseen' = unseen + m,
           Holds(x) + m = Holds(samples[k]) + n
    PROVE  LlmInv'
  <1>1. llm.phase = "asking"
    BY DEF LlmInv
  <1>2. samples[k].pc # "off" /\ samples[k] \in Sample
    BY DEF LlmInv, LlmTypeOK
  <1>3. LlmTypeOK'
    BY DEF LlmInv, LlmTypeOK
  <1>4. samples'[k] = x /\ \A j \in Slots : j # k => samples'[j] = samples[j]
    BY DEF LlmInv, LlmTypeOK
  <1>5. llm.cost \in Nat /\ billed \in Nat /\ unseen \in Nat
    BY DEF LlmInv, LlmTypeOK, StructuredCall
  <1> DEFINE U == Cardinality(Unspent)
             V == Cardinality(Unspent')
  <1>6. U \in Nat
    BY UnspentFinite
  <1>a. Holds(x) \in {0, 1} /\ Holds(samples[k]) \in {0, 1}
    BY <1>2 DEF Holds, Sample
  <1>b. (k \in Unspent <=> Holds(samples[k]) = 1) /\ (k \in Unspent' <=> Holds(x) = 1)
    BY <1>2, <1>4 DEF Unspent, Holds, Sample
  <1>c. \A j \in Slots : j # k => (j \in Unspent' <=> j \in Unspent)
    BY <1>4 DEF Unspent
  <1>d. Unspent \subseteq Slots /\ Unspent' \subseteq Slots
    BY DEF Unspent
  <1>7. V = U + Holds(x) - Holds(samples[k])
    <2>1. CASE Holds(x) = Holds(samples[k])
      <3>1. Unspent' = Unspent
        BY <1>b, <1>c, <1>d, <2>1
      <3>2. QED
        BY <1>6, <1>a, <2>1, <3>1
    <2>2. CASE Holds(x) = 1 /\ Holds(samples[k]) = 0
      <3>1. Unspent' = Unspent \cup {k} /\ k \notin Unspent
        BY <1>b, <1>c, <1>d, <2>2
      <3>2. QED
        BY <1>6, <2>2, <3>1, UnspentFinite, FS_AddElement
    <2>3. CASE Holds(x) = 0 /\ Holds(samples[k]) = 1
      <3>1. Unspent' = Unspent \ {k} /\ k \in Unspent
        BY <1>b, <1>c, <1>d, <2>3
      <3>2. V = U - 1
        BY <3>1, UnspentFinite, FS_RemoveElement
      <3> HIDE DEF U, V
      <3>3. QED
        BY <1>6, <2>3, <3>2
    <2>4. QED
      BY <1>a, <2>1, <2>2, <2>3
  <1>8. Spent(Cardinality(Unspent))'
    <2>1. llm.cost + U + unseen = billed
      BY <1>1 DEF LlmInv, Spent
    <2> HIDE DEF U, V
    <2>2. llm.cost + V + unseen' = billed'
      BY <2>1, <1>5, <1>6, <1>7, <1>a
    <2>3. QED
      BY <2>2 DEF Spent, V
  <1>9. llm.mode = "single" => \A j \in Slots : j # 1 => samples'[j].pc = "off"
    BY <1>1, <1>2, <1>4 DEF LlmInv
  <1>10. QED
    BY <1>1, <1>3, <1>8, <1>9 DEF LlmInv, CostIsBilled

\* LiteLLMProvider.complete, step by step.
LEMMA ProviderKeeps ==
    ASSUME LlmInv, NEW k \in Slots,
           GatewayAnswers(k) \/ with_retry(k) \/ record_interaction(k) \/ TimesOut(k)
    PROVE  LlmInv'
  <1>i. samples[k] \in Sample /\ samples \in [Slots -> Sample] /\ billed \in Nat /\ unseen \in Nat
    BY DEF LlmInv, LlmTypeOK
  <1>1. CASE GatewayAnswers(k)
    <2>1. PICK text \in Values \cup {Invalid}, cost \in {0, 1} : extract_chat_payload(k, text, cost)
      BY <1>1 DEF GatewayAnswers
    <2> DEFINE x == [samples[k] EXCEPT !.pc = "recording", !.text = text, !.cost = cost]
    <2>2. /\ samples' = [samples EXCEPT ![k] = x] /\ UNCHANGED llm
          /\ billed' = billed + 1 /\ unseen' = unseen + (1 - cost)
      BY <1>1, <1>i, <2>1 DEF extract_chat_payload, GatewayAnswers, Charged
    <2>3. x \in Sample /\ x.pc = "recording" /\ x.cost = cost
      BY <1>i DEF Sample
    <2> HIDE DEF x
    <2>4. Holds(x) + (1 - cost) = Holds(samples[k]) + 1 /\ (1 - cost) \in Nat
      BY <1>1, <2>3 DEF GatewayAnswers, Holds
    <2>5. samples[k].pc = "calling"
      BY <1>1 DEF GatewayAnswers
    <2>6. QED
      BY <2>2, <2>3, <2>4, <2>5, SampleMoves
  <1>2. CASE with_retry(k)
    <2>1. PICK error \in DOMAIN RetryDelays :
            /\ samples' = IF MayRetry(k, error) THEN [samples EXCEPT ![k].attempt = @ + 1]
                          ELSE [samples EXCEPT ![k].pc = "failing"]
            /\ \E n \in MayCharge(error) : Charged(n) /\ unseen' = unseen + n
      BY <1>2 DEF with_retry
    <2>2. PICK n \in {0, 1} : billed' = billed + n /\ unseen' = unseen + n
      BY <2>1 DEF MayCharge, Charged
    <2>3. samples[k].pc = "calling" /\ UNCHANGED llm
      BY <1>2 DEF with_retry
    <2>4. ASSUME NEW x \in Sample, x.pc \in {"calling", "failing"},
                 samples' = [samples EXCEPT ![k] = x]
          PROVE  LlmInv'
      <3>1. Holds(x) + n = Holds(samples[k]) + n
        BY <2>3, <2>4 DEF Holds
      <3>2. QED
        BY <2>2, <2>3, <2>4, <3>1, SampleMoves
    <2>5. CASE samples' = [samples EXCEPT ![k].attempt = @ + 1]
      <3> DEFINE x == [samples[k] EXCEPT !.attempt = @ + 1]
      <3>1. samples' = [samples EXCEPT ![k] = x]
        BY <2>5
      <3>2. x \in Sample /\ x.pc = "calling"
        BY <2>3, <1>i DEF Sample
      <3> HIDE DEF x
      <3>3. QED
        BY <2>4, <3>1, <3>2
    <2>6. CASE samples' = [samples EXCEPT ![k].pc = "failing"]
      <3> DEFINE x == [samples[k] EXCEPT !.pc = "failing"]
      <3>1. samples' = [samples EXCEPT ![k] = x]
        BY <2>6
      <3>2. x \in Sample /\ x.pc = "failing"
        BY <1>i DEF Sample
      <3> HIDE DEF x
      <3>3. QED
        BY <2>4, <3>1, <3>2
    <2>7. QED
      BY <2>1, <2>5, <2>6
  <1>3. CASE record_interaction(k)
    <2> DEFINE p == IF samples[k].pc = "recording" THEN "returned" ELSE "raised"
               x == [samples[k] EXCEPT !.pc = p]
    <2>1. /\ samples' = [samples EXCEPT ![k] = x] /\ UNCHANGED <<llm, billed, unseen>>
          /\ samples[k].pc \in {"recording", "failing"}
      BY <1>3 DEF record_interaction
    <2>2. x \in Sample /\ x.pc = p /\ x.cost = samples[k].cost
      BY <1>i DEF Sample
    <2> HIDE DEF x
    <2>3. Holds(x) + 0 = Holds(samples[k]) + 0
      BY <2>1, <2>2 DEF Holds
    <2>4. billed' = billed + 0 /\ unseen' = unseen + 0
      BY <1>i, <2>1
    <2>5. x.pc # "off"
      BY <2>2
    <2>6. QED
      BY <2>1, <2>2, <2>3, <2>4, <2>5, SampleMoves
  <1>4. CASE TimesOut(k)
    <2> DEFINE x == [samples[k] EXCEPT !.pc = "timed_out"]
    <2>1. PICK n \in {0, 1} :
            /\ samples[k].pc # "calling" => n = 0
            /\ billed' = billed + n
            /\ unseen' = unseen + n + (IF samples[k].pc = "recording" THEN samples[k].cost ELSE 0)
      BY <1>4 DEF TimesOut, Charged
    <2>2. /\ samples' = [samples EXCEPT ![k] = x] /\ UNCHANGED llm
          /\ samples[k].pc \in {"calling", "recording", "failing"}
      BY <1>4 DEF TimesOut
    <2>3. x \in Sample /\ x.pc = "timed_out"
      BY <1>i DEF Sample
    <2> HIDE DEF x
    <2> DEFINE m == n + Holds(samples[k])
    <2>4. Holds(samples[k]) \in {0, 1}
      BY <1>i DEF Holds, Sample
    <2>5. m \in Nat /\ Holds(x) + m = Holds(samples[k]) + n
      BY <2>3, <2>4 DEF Holds
    <2>6. unseen' = unseen + m
      BY <1>i, <2>1, <2>2, <2>4 DEF Holds
    <2> HIDE DEF m
    <2>7. x.pc # "off"
      BY <2>3
    <2>8. QED
      BY <2>1, <2>2, <2>3, <2>5, <2>6, <2>7, SampleMoves
  <1>5. QED
    BY <1>1, <1>2, <1>3, <1>4

LEMMA CompleteType == complete \in Sample /\ complete.pc \in {"calling", "raised"}
  BY DEF complete, NoSample, Sample

LEMMA AskingStarts ==
    ASSUME LlmInv, NEW mode \in {"single", "voted"}, structured_complete(mode)
    PROVE  LlmInv'
  <1>1. llm.phase = "idle" /\ billed = 0 /\ unseen = 0 /\ UNCHANGED <<billed, unseen>>
    BY DEF LlmInv, structured_complete
  <1>2. llm' \in StructuredCall /\ llm'.phase = "asking" /\ llm'.mode = mode
        /\ llm'.cost = 0
    BY DEF structured_complete, IdleCall, StructuredCall
  <1>3. NoSample \in Sample /\ NoSample.pc = "off"
    BY DEF NoSample, Sample
  <1>4. /\ samples' \in [Slots -> Sample]
        /\ \A k \in Slots : samples'[k].pc \in {"off", "calling", "raised"}
        /\ mode = "single" => \A k \in Slots : k # 1 => samples'[k].pc = "off"
    BY <1>3, CompleteType DEF structured_complete
  <1>5. Unspent' = {}
    BY <1>4 DEF Unspent
  <1>6. Cardinality(Unspent') = 0
    BY <1>5, FS_EmptySet
  <1>7. LlmTypeOK'
    BY <1>1, <1>2, <1>4 DEF LlmTypeOK
  <1>8. QED
    BY <1>1, <1>2, <1>4, <1>6, <1>7 DEF LlmInv, CostIsBilled, Spent

\* What one turn of the repair loop spends.
LEMMA AfterSpends ==
    ASSUME LlmInv, NEW s \in Sample
    PROVE  LET c == After(llm, s) IN
           /\ c \in StructuredCall /\ c.phase = llm.phase /\ c.mode = llm.mode
           /\ c.cost = llm.cost + (IF s.pc = "returned" THEN s.cost ELSE 0)
  <1> DEFINE dc == IF s.pc = "returned" THEN s.cost ELSE 0
             dv == IF s.pc = "returned" /\ s.text = Invalid THEN 1 ELSE 0
             dt == IF s.pc = "timed_out" THEN 1 ELSE 0
             cost == llm.cost + dc
             validations == llm.validations + dv
             timeouts == llm.timeouts + dt
             c == [llm EXCEPT !.cost = cost, !.validations = validations,
                              !.timeouts = timeouts]
  <1>1. dc \in Nat /\ dv \in Nat /\ dt \in Nat
    BY DEF Sample
  <1>2. After(llm, s) = c
    BY DEF After
  <1> HIDE DEF dc, dv, dt
  <1>3. llm \in StructuredCall
    BY DEF LlmInv, LlmTypeOK
  <1>a. cost \in Nat /\ validations \in Nat /\ timeouts \in Nat
    BY <1>1, <1>3 DEF StructuredCall
  <1> HIDE DEF cost, validations, timeouts
  <1>b. c \in StructuredCall /\ c.phase = llm.phase /\ c.mode = llm.mode /\ c.cost = cost
    BY <1>a, <1>3 DEF StructuredCall
  <1> HIDE DEF c
  <1>4. QED
    BY <1>2, <1>b DEF dc, cost

\* The call ends: no sample is under way, and if it returns every price is counted.
LEMMA CallEnds ==
    ASSUME LlmInv, llm.phase = "asking", UNCHANGED <<samples, billed, unseen>>,
           llm' \in StructuredCall, llm'.phase \in {"returned", "failed", "raised"},
           \A k \in Slots : samples[k].pc \in {"off", "returned", "raised", "timed_out"},
           llm'.phase = "returned" => llm'.cost + unseen = billed
    PROVE  LlmInv'
  <1>1. LlmTypeOK'
    BY DEF LlmInv, LlmTypeOK
  <1>2. CostIsBilled'
    BY DEF CostIsBilled
  <1>3. QED
    BY <1>1, <1>2 DEF LlmInv

LEMMA RaisedCall ==
    ASSUME LlmInv, NEW p \in {"failed", "raised"}, Raises(p)
    PROVE  llm' \in StructuredCall /\ llm'.phase = p
  BY DEF LlmInv, LlmTypeOK, Raises, IdleCall, StructuredCall

LEMMA SingleKeeps ==
    ASSUME LlmInv, single_with_repair
    PROVE  LlmInv'
  <1> DEFINE s == samples[1]
             c == After(llm, s)
             U == Cardinality(Unspent)
  <1>1. /\ llm.phase = "asking" /\ llm.mode = "single" /\ UNCHANGED <<billed, unseen>>
        /\ s \in Sample /\ s.pc \in {"returned", "raised", "timed_out"}
        /\ samples \in [Slots -> Sample]
        /\ \A k \in Slots : k # 1 => samples[k].pc = "off"
    BY SlotsFinite DEF LlmInv, LlmTypeOK, single_with_repair
  <1>2. /\ c \in StructuredCall /\ c.phase = "asking" /\ c.mode = "single"
        /\ c.cost = llm.cost + (IF s.pc = "returned" THEN s.cost ELSE 0)
    BY <1>1, AfterSpends
  <1>3. U = IF s.pc = "returned" THEN s.cost ELSE 0
    <2>1. CASE s.pc = "returned" /\ s.cost = 1
      <3>1. Unspent = {1}
        BY <1>1, <2>1, SlotsFinite DEF Unspent
      <3>2. QED
        BY <3>1, <2>1, FS_Singleton
    <2>2. CASE ~(s.pc = "returned" /\ s.cost = 1)
      <3>1. Unspent = {}
        BY <1>1, <2>2 DEF Unspent
      <3>2. s.pc = "returned" => s.cost = 0
        BY <1>1, <2>2 DEF Sample
      <3>3. QED
        BY <3>1, <3>2, FS_EmptySet
    <2>3. QED
      BY <2>1, <2>2
  <1>4. c.cost + unseen = billed
    <2>1. llm.cost + U + unseen = billed
      BY <1>1 DEF LlmInv, Spent
    <2>2. c.cost = llm.cost + U
      BY <1>2, <1>3
    <2> HIDE DEF c, U
    <2>3. QED
      BY <2>1, <2>2
  <1>5. \A k \in Slots : samples[k].pc \in {"off", "returned", "raised", "timed_out"}
    BY <1>1
  <1>6. ASSUME NEW p \in {"failed", "raised"}, Raises(p), UNCHANGED samples
        PROVE  LlmInv'
    <2>1. llm' \in StructuredCall /\ llm'.phase = p
      BY <1>6, RaisedCall
    <2>2. QED
      BY <1>1, <1>5, <1>6, <2>1, CallEnds
  <1>7. ASSUME s.text \in Values, UNCHANGED samples,
               llm' = [c EXCEPT !.phase = "returned", !.value = s.text]
        PROVE  LlmInv'
    <2>1. llm' \in StructuredCall /\ llm'.phase = "returned" /\ llm'.cost = c.cost
      <3> HIDE DEF c
      <3>1. QED
        BY <1>2, <1>7 DEF StructuredCall
    <2> HIDE DEF c
    <2>2. QED
      BY <1>1, <1>4, <1>5, <1>7, <2>1, CallEnds
  <1>8. ASSUME llm' = c, samples' = [samples EXCEPT ![1] = complete]
        PROVE  LlmInv'
    <2> HIDE DEF c
    <2>1. /\ samples' \in [Slots -> Sample]
          /\ samples'[1] = complete
          /\ \A k \in Slots : k # 1 => samples'[k].pc = "off"
      BY <1>1, <1>8, CompleteType, SlotsFinite
    <2>2. Unspent' = {}
      BY <2>1, CompleteType DEF Unspent
    <2>3. Cardinality(Unspent') = 0
      BY <2>2, FS_EmptySet
    <2>4. LlmTypeOK'
      BY <1>1, <1>2, <1>8, <2>1 DEF LlmInv, LlmTypeOK
    <2>5. c.cost \in Nat
      BY <1>2 DEF StructuredCall
    <2>6. Spent(Cardinality(Unspent))'
      BY <1>1, <1>4, <1>8, <2>3, <2>5 DEF Spent
    <2>7. llm'.phase = "asking" /\ llm'.mode = "single"
      BY <1>2, <1>8
    <2>8. QED
      BY <2>1, <2>4, <2>6, <2>7 DEF LlmInv, CostIsBilled
  <1>9. QED
    BY <1>6, <1>7, <1>8 DEF single_with_repair

LEMMA VotedKeeps ==
    ASSUME LlmInv, voted
    PROVE  LlmInv'
  <1>1. /\ llm.phase = "asking" /\ llm.mode = "voted" /\ llm.cost = 0
        /\ llm \in StructuredCall /\ UNCHANGED <<samples, billed, unseen>>
        /\ \A k \in Slots : samples[k].pc \in {"returned", "raised", "timed_out"}
    BY DEF LlmInv, LlmTypeOK, voted
  <1>2. Priced = Unspent
    BY <1>1 DEF Returned, Priced, Unspent
  <1> DEFINE n == Cardinality(Priced)
  <1>3. n \in Nat
    BY <1>2, UnspentFinite
  <1>4. n + unseen = billed
    BY <1>1, <1>2, <1>3 DEF LlmInv, Spent
  <1>5. \/ Raises("failed")
        \/ \E v \in Values : llm' = [llm EXCEPT !.phase = "returned", !.value = v, !.cost = n]
    BY DEF voted
  <1> HIDE DEF n
  <1>6. CASE Raises("failed")
    <2>1. llm' \in StructuredCall /\ llm'.phase = "failed"
      BY <1>6, RaisedCall
    <2>2. QED
      BY <1>1, <2>1, CallEnds
  <1>7. CASE \E v \in Values : llm' = [llm EXCEPT !.phase = "returned", !.value = v, !.cost = n]
    <2>1. llm' \in StructuredCall /\ llm'.phase = "returned" /\ llm'.cost = n
      BY <1>1, <1>3, <1>7 DEF StructuredCall
    <2>2. QED
      BY <1>1, <1>4, <2>1, CallEnds
  <1>8. QED
    BY <1>5, <1>6, <1>7

LEMMA LlmStep == LlmInv /\ [LlmNext]_llmVars => LlmInv'
  <1> SUFFICES ASSUME LlmInv, [LlmNext]_llmVars PROVE LlmInv'
    OBVIOUS
  <1>1. ASSUME UNCHANGED <<llm, samples, billed, unseen>> PROVE LlmInv'
    BY <1>1 DEF LlmInv, LlmTypeOK, Unspent, Spent, CostIsBilled
  <1>2. CASE UNCHANGED llmVars
    BY <1>1, <1>2 DEF llmVars
  <1>3. CASE initialize \/ shutdown
    BY <1>1, <1>3 DEF initialize, shutdown
  <1>4. CASE LlmNext
    BY <1>3, <1>4, ProviderKeeps, AskingStarts, SingleKeeps, VotedKeeps DEF LlmNext
  <1>5. QED
    BY <1>2, <1>4

\* While a structured call asks, what it has counted, the prices its samples hold
\* and what nobody could read make up what the gateway charged for.
THEOREM LlmInvariant == LlmSpec => []LlmInv
  BY LlmInitially, LlmStep, PTL DEF LlmSpec

\* The cost a structured_complete that returned reports is the bill less what
\* nobody could read, in the repair loop and in the vote, for any number of
\* samples, repairs and retries.
THEOREM CostIsBilledAlways == LlmSpec => []CostIsBilled
  <1>1. LlmInv => CostIsBilled
    BY DEF LlmInv
  <1>2. QED
    BY <1>1, LlmInvariant, PTL

-----------------------------------------------------------------------------
(* Events.  What a socket has sent, what is in its queue and what Redis    *)
(* still holds is one stream per emitting process; the process's own       *)
(* events are on it twice, and the bridge drops the second copy.           *)

Ev == [origin : EventProcesses, n : Nat]
Connection == [open : BOOLEAN, queue : Seq(Ev), sent : Seq(Ev)]
Elements(s) == {s[i] : i \in DOMAIN s}
Precedes(e, f) == e.origin = f.origin => e.n < f.n
Ordered(s) == \A i, j \in DOMAIN s : i < j => Precedes(s[i], s[j])

Stream(s) ==
    /\ Ordered(s.queue) /\ Ordered(s.sent)
    /\ \A e \in Elements(s.sent), f \in Elements(s.queue) : Precedes(e, f)
    /\ \A e \in Elements(s.sent) \cup Elements(s.queue) :
         /\ e.n <= emitted[e.origin]
         /\ e.origin # ApiServer => \A f \in Elements(channel) : Precedes(e, f)

EventInv ==
    /\ emitted \in [EventProcesses -> Nat]
    /\ channel \in Seq(Ev) /\ Ordered(channel)
    /\ \A e \in Elements(channel) : e.n <= emitted[e.origin]
    /\ socket \in [Sockets -> Connection]
    /\ \A k \in Sockets : Stream(socket[k])

LEMMA ElementsOfSeq ==
    ASSUME NEW S, NEW s \in Seq(S)
    PROVE  /\ DOMAIN s = 1..Len(s) /\ Len(s) \in Nat
           /\ Elements(s) = {s[i] : i \in 1..Len(s)} /\ Elements(s) \subseteq S
  BY DEF Elements

LEMMA EmptyStream == Elements(<<>>) = {} /\ Ordered(<<>>)
  <1>1. Elements(<<>>) = {}
    BY DEF Elements
  <1>2. Ordered(<<>>)
    BY DEF Ordered
  <1>3. QED
    BY <1>1, <1>2

\* One more at the end, later than all.
LEMMA OrderedAppend ==
    ASSUME NEW s \in Seq(Ev), NEW x \in Ev, Ordered(s), \A e \in Elements(s) : Precedes(e, x)
    PROVE  /\ Append(s, x) \in Seq(Ev) /\ Ordered(Append(s, x))
           /\ Elements(Append(s, x)) = Elements(s) \cup {x}
  <1> DEFINE t == Append(s, x)
  <1>1. /\ t \in Seq(Ev) /\ Len(t) = Len(s) + 1 /\ Len(s) \in Nat
        /\ \A i \in 1..Len(s) : t[i] = s[i]
        /\ t[Len(s) + 1] = x
    OBVIOUS
  <1>2. DOMAIN t = 1..(Len(s) + 1) /\ DOMAIN s = 1..Len(s)
    BY <1>1
  <1> HIDE DEF t
  <1>3. Elements(t) = Elements(s) \cup {x}
    BY <1>1, <1>2 DEF Elements
  <1>4. Ordered(t)
    <2> SUFFICES ASSUME NEW i \in DOMAIN t, NEW j \in DOMAIN t, i < j
                 PROVE  Precedes(t[i], t[j])
      BY DEF Ordered
    <2>1. i \in 1..Len(s) /\ t[i] = s[i]
      BY <1>1, <1>2
    <2>2. CASE j \in 1..Len(s)
      BY <1>1, <1>2, <2>1, <2>2 DEF Ordered
    <2>3. CASE j = Len(s) + 1
      BY <1>1, <1>2, <2>1, <2>3 DEF Elements
    <2>4. QED
      BY <1>1, <1>2, <2>2, <2>3
  <1>5. QED
    BY <1>1, <1>3, <1>4 DEF t

\* The first one taken away.
LEMMA OrderedTail ==
    ASSUME NEW s \in Seq(Ev), s # <<>>, Ordered(s)
    PROVE  /\ Tail(s) \in Seq(Ev) /\ Ordered(Tail(s))
           /\ Head(s) \in Ev /\ Head(s) \in Elements(s) /\ Elements(Tail(s)) \subseteq Elements(s)
           /\ \A e \in Elements(Tail(s)) : Precedes(Head(s), e)
  <1> DEFINE t == Tail(s)
  <1>1. /\ t \in Seq(Ev) /\ Len(s) \in Nat /\ Len(s) >= 1 /\ Len(t) = Len(s) - 1
        /\ \A i \in 1..(Len(s) - 1) : t[i] = s[i + 1]
        /\ Head(s) = s[1]
    OBVIOUS
  <1>2. DOMAIN t = 1..(Len(s) - 1) /\ DOMAIN s = 1..Len(s)
    BY <1>1
  <1> HIDE DEF t
  <1>3. \A i \in DOMAIN t : i + 1 \in DOMAIN s /\ t[i] = s[i + 1]
    BY <1>1, <1>2
  <1>4. Elements(t) \subseteq Elements(s)
    BY <1>3 DEF Elements
  <1>5. Ordered(t)
    <2> SUFFICES ASSUME NEW i \in DOMAIN t, NEW j \in DOMAIN t, i < j
                 PROVE  Precedes(t[i], t[j])
      BY DEF Ordered
    <2>1. i + 1 < j + 1
      BY <1>1, <1>2
    <2>2. QED
      BY <1>3, <2>1 DEF Ordered
  <1>6. 1 \in DOMAIN s /\ Head(s) \in Ev /\ Head(s) \in Elements(s)
    BY <1>1, <1>2 DEF Elements
  <1>7. ASSUME NEW e \in Elements(t) PROVE Precedes(Head(s), e)
    <2>1. PICK i \in DOMAIN t : e = t[i]
      BY DEF Elements
    <2>2. 1 < i + 1 /\ i + 1 \in DOMAIN s /\ e = s[i + 1]
      BY <1>1, <1>2, <1>3, <2>1
    <2>3. QED
      BY <1>1, <1>6, <2>2 DEF Ordered
  <1>8. QED
    BY <1>1, <1>4, <1>5, <1>6, <1>7 DEF t

LEMMA ClosedStream == Closed \in Connection /\ Stream(Closed)
                      /\ Closed.queue = <<>> /\ Closed.sent = <<>>
  <1>1. Closed.queue = <<>> /\ Closed.sent = <<>> /\ Closed \in Connection
    BY DEF Closed, Connection
  <1>2. QED
    BY <1>1, EmptyStream DEF Stream

LEMMA EventInitially == EventInit => EventInv
  BY ClosedStream, EmptyStream DEF EventInit, EventInv

\* EventBus.emit puts an event that follows all of a stream at its end, or
\* loses it.
LEMMA BusEmitKeeps ==
    ASSUME EventInv, NEW k \in Sockets, NEW x \in Ev,
           \A e \in Elements(socket[k].sent) \cup Elements(socket[k].queue) : Precedes(e, x)
    PROVE  LET c == BusEmit(socket[k], x) IN
           /\ c \in Connection /\ Ordered(c.queue) /\ Ordered(c.sent)
           /\ \A e \in Elements(c.sent), f \in Elements(c.queue) : Precedes(e, f)
           /\ Elements(c.sent) \cup Elements(c.queue)
                \subseteq Elements(socket[k].sent) \cup Elements(socket[k].queue) \cup {x}
  <1> DEFINE s == socket[k]
             q == Append(s.queue, x)
             d == [s EXCEPT !.queue = q]
  <1>1. s \in Connection /\ Stream(s)
    BY DEF EventInv
  <1>2. s.queue \in Seq(Ev)
    BY <1>1 DEF Connection
  <1>3. q \in Seq(Ev) /\ Ordered(q) /\ Elements(q) = Elements(s.queue) \cup {x}
    BY <1>1, <1>2, OrderedAppend DEF Stream
  <1> HIDE DEF q
  <1>4. d \in Connection /\ d.queue = q /\ d.sent = s.sent
    BY <1>1, <1>3 DEF Connection
  <1>5. BusEmit(s, x) = d \/ BusEmit(s, x) = s
    BY DEF BusEmit, q
  <1> HIDE DEF d, s
  <1>6. CASE BusEmit(s, x) = d
    BY <1>1, <1>3, <1>4, <1>6 DEF Stream, s
  <1>7. CASE BusEmit(s, x) = s
    BY <1>1, <1>7 DEF Stream, s
  <1>8. QED
    BY <1>5, <1>6, <1>7 DEF s

LEMMA EmitKeeps ==
    ASSUME EventInv, NEW p \in EventProcesses, emit_event(p)
    PROVE  EventInv'
  <1> DEFINE x == Event(p, emitted[p] + 1)
             Bus == [k \in Sockets |-> BusEmit(socket[k], x)]
  <1>1. emitted \in [EventProcesses -> Nat] /\ emitted[p] \in Nat
    BY DEF EventInv
  <1>2. x \in Ev /\ x.origin = p /\ x.n = emitted[p] + 1
    BY <1>1 DEF Event, Ev
  <1>3. /\ emitted' = [emitted EXCEPT ![p] = @ + 1]
        /\ channel' = channel \/ channel' = Append(channel, x)
        /\ socket' = IF p = ApiServer THEN Bus ELSE socket
    BY DEF emit_event, publish_to_redis
  <1> HIDE DEF x
  <1>4. /\ emitted' \in [EventProcesses -> Nat]
        /\ \A e \in Ev : e.n <= emitted[e.origin] => e.n <= emitted'[e.origin]
        /\ x.n <= emitted'[x.origin]
    BY <1>1, <1>2, <1>3 DEF Ev
  <1>5. ASSUME NEW e \in Ev, e.n <= emitted[e.origin] PROVE Precedes(e, x)
    BY <1>1, <1>2, <1>5 DEF Precedes, Ev
  <1>6. channel \in Seq(Ev) /\ Elements(channel) \subseteq Ev
    BY ElementsOfSeq DEF EventInv
  <1>7. /\ channel' \in Seq(Ev) /\ Ordered(channel')
        /\ Elements(channel') \subseteq Elements(channel) \cup {x}
    <2>1. \A e \in Elements(channel) : Precedes(e, x)
      BY <1>5, <1>6 DEF EventInv
    <2>2. CASE channel' = Append(channel, x)
      BY <1>2, <1>6, <2>1, <2>2, OrderedAppend DEF EventInv
    <2>3. CASE channel' = channel
      BY <2>3 DEF EventInv
    <2>4. QED
      BY <1>3, <2>2, <2>3
  <1>8. \A e \in Elements(channel') : e.n <= emitted'[e.origin]
    BY <1>4, <1>6, <1>7 DEF EventInv
  <1>9. ASSUME NEW k \in Sockets
        PROVE  /\ socket[k] \in Connection /\ Stream(socket[k])
               /\ Elements(socket[k].sent) \cup Elements(socket[k].queue) \subseteq Ev
               /\ \A e \in Elements(socket[k].sent) \cup Elements(socket[k].queue) :
                    /\ Precedes(e, x) /\ e.n <= emitted'[e.origin]
                    /\ e.origin # ApiServer => \A f \in Elements(channel') : Precedes(e, f)
    <2>1. socket[k] \in Connection /\ Stream(socket[k])
      BY DEF EventInv
    <2>2. Elements(socket[k].sent) \cup Elements(socket[k].queue) \subseteq Ev
      BY <2>1, ElementsOfSeq DEF Connection
    <2>3. ASSUME NEW e \in Elements(socket[k].sent) \cup Elements(socket[k].queue)
          PROVE  Precedes(e, x) /\ e.n <= emitted'[e.origin]
      BY <1>4, <1>5, <2>1, <2>2 DEF Stream
    <2>4. QED
      BY <1>7, <2>1, <2>2, <2>3 DEF Stream
  <1>10. ASSUME NEW k \in Sockets
         PROVE  socket'[k] \in Connection /\ Stream(socket[k])'
    <2>1. CASE p = ApiServer
      <3>1. socket'[k] = BusEmit(socket[k], x)
        BY <1>3, <2>1
      <3>2. QED
        BY <1>2, <1>4, <1>9, <2>1, <3>1, BusEmitKeeps DEF Stream
    <2>2. CASE p # ApiServer
      BY <1>3, <1>9, <2>2 DEF Stream
    <2>3. QED
      BY <2>1, <2>2
  <1>11. socket' \in [Sockets -> Connection]
    BY <1>3, <1>10 DEF EventInv
  <1>12. QED
    BY <1>4, <1>7, <1>8, <1>10, <1>11 DEF EventInv

\* The bridge hands over the first message of the channel, unless its own
\* process sent it.
LEMMA PollKeeps ==
    ASSUME EventInv, BridgePolls
    PROVE  EventInv'
  <1> DEFINE x == Head(channel)
  <1>1. /\ channel \in Seq(Ev) /\ channel # <<>> /\ Ordered(channel)
        /\ channel' = Tail(channel) /\ UNCHANGED emitted
        /\ socket' = handle_raw(x)
    BY DEF EventInv, BridgePolls
  <1>2. /\ channel' \in Seq(Ev) /\ Ordered(channel')
        /\ x \in Ev /\ x \in Elements(channel) /\ Elements(channel') \subseteq Elements(channel)
        /\ \A e \in Elements(channel') : Precedes(x, e)
    BY <1>1, OrderedTail
  <1> HIDE DEF x
  <1>3. x.n <= emitted[x.origin]
    BY <1>2 DEF EventInv
  <1>4. ASSUME NEW k \in Sockets
        PROVE  socket'[k] \in Connection /\ Stream(socket[k])'
    <2>1. socket[k] \in Connection /\ Stream(socket[k])
      BY DEF EventInv
    <2>2. CASE x.origin = ApiServer
      <3>1. socket'[k] = socket[k]
        BY <1>1, <2>2 DEF handle_raw
      <3>2. QED
        BY <1>1, <1>2, <2>1, <3>1 DEF Stream
    <2>3. CASE x.origin # ApiServer
      <3>1. socket'[k] = BusEmit(socket[k], x)
        BY <1>1, <2>3 DEF handle_raw
      <3>2. \A e \in Elements(socket[k].sent) \cup Elements(socket[k].queue) : Precedes(e, x)
        BY <1>2, <2>1, <2>3 DEF Stream, Precedes
      <3>3. QED
        BY <1>1, <1>2, <1>3, <2>1, <3>1, <3>2, BusEmitKeeps DEF Stream
    <2>4. QED
      BY <2>2, <2>3
  <1>5. socket' \in [Sockets -> Connection]
    BY <1>1, <1>4 DEF handle_raw, EventInv
  <1>6. QED
    BY <1>1, <1>2, <1>4, <1>5 DEF EventInv

\* The pump moves the first of the queue to the end of what was sent, or drops it.
LEMMA PumpKeeps ==
    ASSUME EventInv, NEW k \in Sockets, pump(k)
    PROVE  EventInv'
  <1> DEFINE s == socket[k]
             x == Head(s.queue)
  <1>1. s \in Connection /\ Stream(s) /\ s.queue # <<>> /\ UNCHANGED <<emitted, channel>>
    BY DEF EventInv, pump
  <1>2. s.queue \in Seq(Ev) /\ s.sent \in Seq(Ev)
    BY <1>1 DEF Connection
  <1>3. /\ Tail(s.queue) \in Seq(Ev) /\ Ordered(Tail(s.queue))
        /\ x \in Ev /\ x \in Elements(s.queue) /\ Elements(Tail(s.queue)) \subseteq Elements(s.queue)
        /\ \A e \in Elements(Tail(s.queue)) : Precedes(x, e)
    BY <1>1, <1>2, OrderedTail DEF Stream
  <1> HIDE DEF x
  <1>4. /\ Append(s.sent, x) \in Seq(Ev) /\ Ordered(Append(s.sent, x))
        /\ Elements(Append(s.sent, x)) = Elements(s.sent) \cup {x}
    BY <1>1, <1>2, <1>3, OrderedAppend DEF Stream
  <1>5. PICK sent \in {s.sent, Append(s.sent, x)} :
          socket' = [socket EXCEPT ![k] = [s EXCEPT !.queue = Tail(s.queue), !.sent = sent]]
    BY DEF pump, x
  <1> DEFINE queue == Tail(s.queue)
             c == [s EXCEPT !.queue = queue, !.sent = sent]
  <1>6. sent \in Seq(Ev) /\ Ordered(sent) /\ Elements(sent) \subseteq Elements(s.sent) \cup {x}
    BY <1>1, <1>2, <1>4, <1>5 DEF Stream
  <1>7. c \in Connection /\ c.queue = queue /\ c.sent = sent
    BY <1>1, <1>3, <1>6 DEF Connection
  <1>8. socket' = [socket EXCEPT ![k] = c]
    BY <1>5
  <1> HIDE DEF c, queue
  <1>9. Stream(c)
    BY <1>1, <1>3, <1>6, <1>7 DEF Stream, queue
  <1>10. socket' \in [Sockets -> Connection]
         /\ \A j \in Sockets : Stream(socket'[j])
    BY <1>7, <1>8, <1>9 DEF EventInv
  <1>11. \A j \in Sockets : Stream(socket[j])'
    BY <1>1, <1>10 DEF Stream
  <1>12. QED
    BY <1>1, <1>10, <1>11 DEF EventInv

\* A connection opens or closes, with nothing in it.
LEMMA ConnectionKeeps ==
    ASSUME EventInv, NEW k \in Sockets, UNCHANGED <<emitted, channel>>,
           NEW c \in Connection, c.queue = <<>>, c.sent = <<>>,
           socket' = [socket EXCEPT ![k] = c]
    PROVE  EventInv'
  <1>2. Stream(c)
    BY EmptyStream DEF Stream
  <1>3. socket' \in [Sockets -> Connection]
        /\ \A j \in Sockets : Stream(socket'[j])
    BY <1>2 DEF EventInv
  <1>4. \A j \in Sockets : Stream(socket[j])'
    BY <1>3 DEF Stream
  <1>5. QED
    BY <1>3, <1>4 DEF EventInv

LEMMA EventStep == EventInv /\ [EventNext]_eventVars => EventInv'
  <1> SUFFICES ASSUME EventInv, [EventNext]_eventVars PROVE EventInv'
    OBVIOUS
  <1>1. ASSUME UNCHANGED <<emitted, channel, socket>> PROVE EventInv'
    BY <1>1 DEF EventInv, Stream
  <1>2. CASE UNCHANGED eventVars
    BY <1>1, <1>2 DEF eventVars
  <1>3. ASSUME NEW p \in EventProcesses, BackoffEnds(p) PROVE EventInv'
    BY <1>1, <1>3 DEF BackoffEnds
  <1>4. CASE BridgeSubscribes
    BY <1>1, <1>4 DEF BridgeSubscribes
  <1>5. CASE BridgeDrops
    <2>1. channel' = <<>> /\ UNCHANGED <<emitted, socket>>
      BY <1>5 DEF BridgeDrops
    <2>2. channel' \in Seq(Ev) /\ Elements(channel') = {} /\ Ordered(channel')
      BY <2>1, EmptyStream
    <2>3. \A k \in Sockets : Stream(socket[k])'
      BY <2>1, <2>2 DEF EventInv, Stream
    <2>4. QED
      BY <2>1, <2>2, <2>3 DEF EventInv
  <1>6. ASSUME NEW t \in Tickets, issue_ws_ticket(t) \/ TicketExpires(t) \/ RefusedSocket(t)
        PROVE  EventInv'
    BY <1>1, <1>6 DEF issue_ws_ticket, TicketExpires, RefusedSocket
  <1>7. ASSUME NEW k \in Sockets, Disconnects(k) PROVE EventInv'
    BY <1>7, ClosedStream, ConnectionKeeps DEF Disconnects
  <1>8. ASSUME NEW k \in Sockets, BearerSocket(k) \/ \E t \in Tickets : events_socket(k, t)
        PROVE  EventInv'
    <2> DEFINE c == [Closed EXCEPT !.open = TRUE]
    <2>1. c \in Connection /\ c.queue = <<>> /\ c.sent = <<>>
      BY ClosedStream DEF Connection
    <2>2. socket' = [socket EXCEPT ![k] = c] /\ UNCHANGED <<emitted, channel>>
      BY <1>8 DEF events_socket, BearerSocket, Accepted
    <2> HIDE DEF c
    <2>3. QED
      BY <2>1, <2>2, ConnectionKeeps
  <1>9. CASE EventNext
    BY <1>3, <1>4, <1>5, <1>6, <1>7, <1>8, <1>9, EmitKeeps, PollKeeps, PumpKeeps DEF EventNext
  <1>10. QED
    BY <1>2, <1>9

\* What a socket sent, its queue and, but for the server's own events, the Redis
\* channel follow one another in the order of emission.
THEOREM EventInvariant == EventSpec => []EventInv
  BY EventInitially, EventStep, PTL DEF EventSpec

\* A browser sees each event of a process at most once and in order, for any
\* number of processes, sockets and events and any size of the queues.
THEOREM DeliveredOnceInOrderAlways == EventSpec => []DeliveredOnceInOrder
  <1>1. EventInv => DeliveredOnceInOrder
    BY DEF EventInv, Stream, Ordered, Precedes, DeliveredOnceInOrder
  <1>2. QED
    BY <1>1, EventInvariant, PTL

-----------------------------------------------------------------------------
(* Prompts.                                                                *)

Template == [task : TaskTypes, target : Targets \cup {"wildcard"}, text : Nat, active : BOOLEAN]
ABTest == [task : TaskTypes, a : Nat, b : Nat, status : {"active", "concluded"}]
Benchmark == [template : Nat, text : Nat, left : Int, scored : Int]

\* What rows of templates say, as values, so that two states can be compared.
Active(rows) == {i \in 1..Len(rows) : rows[i].active}
Written(i, task, rows) == i \in 1..Len(rows) /\ rows[i].task = task
Describes(s, rows) == s.template \in 1..Len(rows) /\ rows[s.template].text = s.text
Serves(ids, rows) ==
    /\ ids \subseteq 1..Len(rows)
    /\ \A t \in TaskTypes : \E i \in ids : rows[i].task = t /\ rows[i].target = "wildcard"

\* Rows are added, and nothing but their flag changes.
Grown(rows, next) ==
    /\ Len(rows) <= Len(next)
    /\ \A i \in 1..Len(rows) : /\ next[i].task = rows[i].task
                               /\ next[i].target = rows[i].target
                               /\ next[i].text = rows[i].text

\* The active rows serve every task, and so does every set of ids that was read
\* from them, however old; tests, runs and scores point at rows that do not change.
PromptInv ==
    /\ templates \in Seq(Template)
    /\ promptCache \in [PromptProcesses -> [loaded : BOOLEAN, ids : SUBSET Nat]]
    /\ reloading \in [PromptProcesses -> SUBSET Nat]
    /\ abTests \in Seq(ABTest)
    /\ benchmark \in [ApiProcesses -> Benchmark]
    /\ Serves(Active(templates), templates)
    /\ \A p \in PromptProcesses :
         /\ promptCache[p].ids \subseteq 1..Len(templates)
         /\ promptCache[p].loaded => Serves(promptCache[p].ids, templates)
         /\ reloading[p] # NotReading => Serves(reloading[p], templates)
    /\ \A n \in 1..Len(abTests) : /\ Written(abTests[n].a, abTests[n].task, templates)
                                  /\ Written(abTests[n].b, abTests[n].task, templates)
    /\ \A p \in ApiProcesses : benchmark[p] # NoBenchmark => Describes(benchmark[p], templates)
    /\ \A s \in promptScores : Describes(s, templates)

LEMMA GrownKeeps ==
    ASSUME NEW rows \in Seq(Template), NEW next \in Seq(Template), Grown(rows, next)
    PROVE  /\ \A ids : Serves(ids, rows) => Serves(ids, next)
           /\ \A i, t : Written(i, t, rows) => Written(i, t, next)
           /\ \A s : Describes(s, rows) => Describes(s, next)
           /\ 1..Len(rows) \subseteq 1..Len(next)
  <1>1. Len(rows) \in Nat /\ Len(next) \in Nat
    OBVIOUS
  <1>2. 1..Len(rows) \subseteq 1..Len(next)
    BY <1>1 DEF Grown
  <1>3. ASSUME NEW ids, Serves(ids, rows) PROVE Serves(ids, next)
    BY <1>2, <1>3 DEF Grown, Serves
  <1>4. QED
    BY <1>2, <1>3 DEF Grown, Written, Describes

\* PromptStore's activation: the row takes the place of the active one of its key.
LEMMA ActivateKeeps ==
    ASSUME NEW rows \in Seq(Template), NEW i \in 1..Len(rows), Serves(Active(rows), rows)
    PROVE  /\ ActivateIn(rows, i) \in Seq(Template)
           /\ Grown(rows, ActivateIn(rows, i))
           /\ Serves(Active(ActivateIn(rows, i)), ActivateIn(rows, i))
  <1> DEFINE next == ActivateIn(rows, i)
             n == Len(rows)
  <1>1. n \in Nat /\ DOMAIN rows = 1..n /\ \A j \in 1..n : rows[j] \in Template
    OBVIOUS
  <1>2. ASSUME NEW j \in 1..n
        PROVE  /\ next[j] \in Template
               /\ next[j].task = rows[j].task
               /\ next[j].target = rows[j].target
               /\ next[j].text = rows[j].text
               /\ next[j].active <=> (j = i \/ (rows[j].active /\ ~SameKey(rows[j], rows[i])))
    <2>1. next[j] = [rows[j] EXCEPT !.active = (j = i) \/ (rows[j].active /\ ~SameKey(rows[j], rows[i]))]
      BY <1>1 DEF ActivateIn
    <2>2. rows[j] \in Template
      BY <1>1
    <2>3. ((j = i) \/ (rows[j].active /\ ~SameKey(rows[j], rows[i]))) \in BOOLEAN
      OBVIOUS
    <2>4. QED
      BY <2>1, <2>2, <2>3 DEF Template
  <1>3. next = [j \in 1..n |-> next[j]]
    BY <1>1 DEF ActivateIn
  <1> HIDE DEF next
  <1>4. next \in Seq(Template) /\ Len(next) = n
    <2>1. next \in [1..n -> Template]
      BY <1>2, <1>3
    <2>2. QED
      BY <1>1, <2>1
  <1>5. Grown(rows, next)
    BY <1>1, <1>2, <1>4 DEF Grown
  <1>6. Serves(Active(next), next)
    <2>1. Active(next) \subseteq 1..Len(next)
      BY DEF Active
    <2>2. ASSUME NEW t \in TaskTypes
          PROVE  \E k \in Active(next) : next[k].task = t /\ next[k].target = "wildcard"
      <3>1. PICK k \in Active(rows) : rows[k].task = t /\ rows[k].target = "wildcard"
        BY DEF Serves
      <3>2. k \in 1..n /\ rows[k].active
        BY <3>1 DEF Active
      <3>3. CASE SameKey(rows[k], rows[i])
        <4>1. next[i].active /\ next[i].task = t /\ next[i].target = "wildcard"
          BY <1>2, <3>1, <3>2, <3>3 DEF SameKey
        <4>2. i \in Active(next)
          BY <1>4, <4>1 DEF Active
        <4>3. QED
          BY <4>1, <4>2
      <3>4. CASE ~SameKey(rows[k], rows[i])
        <4>1. next[k].active /\ next[k].task = t /\ next[k].target = "wildcard"
          BY <1>2, <3>1, <3>2, <3>4
        <4>2. k \in Active(next)
          BY <1>4, <3>2, <4>1 DEF Active
        <4>3. QED
          BY <4>1, <4>2
      <3>5. QED
        BY <3>3, <3>4
    <2>3. QED
      BY <2>1, <2>2 DEF Serves
  <1>7. QED
    BY <1>4, <1>5, <1>6 DEF next

\* A new version, not active yet.
LEMMA AppendKeeps ==
    ASSUME NEW rows \in Seq(Template), NEW row \in Template, ~row.active,
           Serves(Active(rows), rows)
    PROVE  /\ Append(rows, row) \in Seq(Template)
           /\ Len(Append(rows, row)) \in 1..Len(Append(rows, row))
           /\ Grown(rows, Append(rows, row))
           /\ Serves(Active(Append(rows, row)), Append(rows, row))
  <1> DEFINE next == Append(rows, row)
  <1>1. /\ next \in Seq(Template) /\ Len(rows) \in Nat /\ Len(next) = Len(rows) + 1
        /\ \A i \in 1..Len(rows) : next[i] = rows[i]
        /\ next[Len(rows) + 1] = row
    OBVIOUS
  <1> HIDE DEF next
  <1>2. Grown(rows, next)
    BY <1>1 DEF Grown
  <1>3. Active(next) = Active(rows)
    BY <1>1 DEF Active
  <1>4. Serves(Active(rows), next)
    BY <1>1, <1>2, GrownKeeps
  <1>5. QED
    BY <1>1, <1>2, <1>3, <1>4 DEF next

\* seed_prompts puts every task in, once.
LEMMA SeedOrder ==
    LET order == SetToSeq(TaskTypes) IN
    /\ Cardinality(TaskTypes) \in Nat
    /\ order \in [1..Cardinality(TaskTypes) -> TaskTypes]
    /\ \A t \in TaskTypes : \E i \in 1..Cardinality(TaskTypes) : order[i] = t
  <1> DEFINE n == Cardinality(TaskTypes)
             order == SetToSeq(TaskTypes)
  <1>1. n \in Nat /\ ExistsBijection(1..n, TaskTypes)
    BY PromptAssumption, FS_CardinalityType
  <1>2. PICK f \in [1..n -> TaskTypes] : IsInjective(f)
    BY <1>1 DEF ExistsBijection, Bijection, Injection
  <1>3. order \in [1..n -> TaskTypes] /\ IsInjective(order)
    BY <1>2 DEF SetToSeq
  <1>4. order \in Injection(1..n, TaskTypes)
    BY <1>3 DEF Injection
  <1>5. IsFiniteSet(1..n) /\ Cardinality(1..n) = n
    <2>1. 1 \in Int /\ n \in Int
      BY <1>1
    <2>2. IsFiniteSet(1..n) /\ Cardinality(1..n) = IF 1 > n THEN 0 ELSE n - 1 + 1
      BY <2>1, FS_Interval
    <2>3. QED
      BY <1>1, <2>2
  <1>6. order \in Surjection(1..n, TaskTypes)
    BY <1>4, <1>5, PromptAssumption, FS_Injection
  <1>7. QED
    BY <1>1, <1>3, <1>6 DEF Surjection

LEMMA NoBenchmarkType == NoBenchmark \in Benchmark
  BY DEF NoBenchmark, Benchmark, Nothing

LEMMA PromptInitially == PromptInit => PromptInv
  <1> SUFFICES ASSUME PromptInit PROVE PromptInv
    OBVIOUS
  <1> DEFINE n == Cardinality(TaskTypes)
             order == SetToSeq(TaskTypes)
  <1>1. /\ n \in Nat /\ order \in [1..n -> TaskTypes] /\ DOMAIN order = 1..n
        /\ \A t \in TaskTypes : \E i \in 1..n : order[i] = t
    BY SeedOrder
  <1>2. templates = [k \in DOMAIN order |-> TemplateRow(order[k], "wildcard", k, TRUE)]
    BY DEF PromptInit
  <1> HIDE DEF order, n
  <1>3. \A k \in 1..n : /\ templates[k] \in Template
                        /\ templates[k].task = order[k]
                        /\ templates[k].target = "wildcard"
                        /\ templates[k].active
    BY <1>1, <1>2 DEF TemplateRow, Template
  <1>4. templates \in Seq(Template) /\ Len(templates) = n
    <2>1. templates \in [1..n -> Template]
      BY <1>1, <1>2, <1>3
    <2>2. QED
      BY <1>1, <2>1
  <1>5. Serves(Active(templates), templates)
    <2>1. Active(templates) = 1..n
      BY <1>3, <1>4 DEF Active
    <2>2. QED
      BY <1>1, <1>3, <1>4, <2>1 DEF Serves
  <1>6. /\ promptCache = [p \in PromptProcesses |-> Unloaded]
        /\ reloading = [p \in PromptProcesses |-> NotReading]
        /\ abTests = <<>> /\ promptScores = {}
        /\ benchmark = [p \in ApiProcesses |-> NoBenchmark]
    BY DEF PromptInit
  <1>7. /\ promptCache \in [PromptProcesses -> [loaded : BOOLEAN, ids : SUBSET Nat]]
        /\ reloading \in [PromptProcesses -> SUBSET Nat]
        /\ \A p \in PromptProcesses : /\ promptCache[p].ids \subseteq 1..Len(templates)
                                      /\ ~promptCache[p].loaded
                                      /\ reloading[p] = NotReading
    BY <1>6 DEF Unloaded, NotReading, Nothing
  <1>8. abTests \in Seq(ABTest) /\ Len(abTests) = 0
    BY <1>6
  <1>9. \A k \in 1..Len(abTests) : FALSE
    BY <1>8
  <1>10. benchmark \in [ApiProcesses -> Benchmark] /\ \A p \in ApiProcesses : benchmark[p] = NoBenchmark
    BY <1>6, NoBenchmarkType
  <1>11. QED
    BY <1>4, <1>5, <1>6, <1>7, <1>8, <1>9, <1>10 DEF PromptInv

\* A step that only adds rows and empties a cache.
LEMMA WriteKeeps ==
    ASSUME PromptInv, NEW p, templates' \in Seq(Template), Grown(templates, templates'),
           Serves(Active(templates'), templates'), Invalidated(p),
           UNCHANGED <<reloading, abTests, benchmark, promptScores>>
    PROVE  PromptInv'
  <1>1. /\ \A ids : Serves(ids, templates) => Serves(ids, templates')
        /\ \A i, t : Written(i, t, templates) => Written(i, t, templates')
        /\ \A s : Describes(s, templates) => Describes(s, templates')
        /\ 1..Len(templates) \subseteq 1..Len(templates')
    BY GrownKeeps DEF PromptInv
  <1>2. \A q \in PromptProcesses : promptCache'[q] = promptCache[q] \/ promptCache'[q] = Unloaded
    BY DEF Invalidated, PromptInv
  <1>3. Unloaded \in [loaded : BOOLEAN, ids : SUBSET Nat] /\ ~Unloaded.loaded /\ Unloaded.ids = {}
    BY DEF Unloaded
  <1>4. promptCache' \in [PromptProcesses -> [loaded : BOOLEAN, ids : SUBSET Nat]]
    BY <1>3 DEF Invalidated, PromptInv
  <1>5. \A q \in PromptProcesses :
          /\ promptCache'[q].ids \subseteq 1..Len(templates')
          /\ promptCache'[q].loaded => Serves(promptCache'[q].ids, templates')
          /\ reloading'[q] # NotReading => Serves(reloading'[q], templates')
    BY <1>1, <1>2, <1>3 DEF PromptInv
  <1>6. \A n \in 1..Len(abTests') : /\ Written(abTests'[n].a, abTests'[n].task, templates')
                                    /\ Written(abTests'[n].b, abTests'[n].task, templates')
    BY <1>1 DEF PromptInv
  <1>7. /\ \A q \in ApiProcesses : benchmark'[q] # NoBenchmark => Describes(benchmark'[q], templates')
        /\ \A s \in promptScores' : Describes(s, templates')
    BY <1>1 DEF PromptInv
  <1>8. QED
    BY <1>4, <1>5, <1>6, <1>7 DEF PromptInv

LEMMA CreateVersionKeeps ==
    ASSUME PromptInv, NEW p \in ApiProcesses, NEW task \in TaskTypes,
           NEW target \in Targets \cup {"wildcard"}, NEW activate \in BOOLEAN,
           CreateVersion(p, task, target, activate)
    PROVE  PromptInv'
  <1> DEFINE row == TemplateRow(task, target, Len(templates) + 1, FALSE)
             rows == Append(templates, row)
             next == ActivateIn(rows, Len(rows))
  <1>1. templates \in Seq(Template) /\ Serves(Active(templates), templates)
    BY DEF PromptInv
  <1>2. row \in Template /\ ~row.active
    BY <1>1 DEF TemplateRow, Template
  <1>3. templates' = IF activate THEN next ELSE rows
    BY DEF CreateVersion
  <1> HIDE DEF row
  <1>4. /\ rows \in Seq(Template) /\ Len(rows) \in 1..Len(rows)
        /\ Grown(templates, rows) /\ Serves(Active(rows), rows)
    BY <1>1, <1>2, AppendKeeps
  <1>a. rows = Append(templates, row)
    OBVIOUS
  <1> HIDE DEF rows
  <1>5. next \in Seq(Template) /\ Grown(rows, next) /\ Serves(Active(next), next)
    BY <1>4, ActivateKeeps
  <1> HIDE DEF next
  <1>6. Grown(templates, next)
    <2>1. Len(templates) \in Nat /\ Len(rows) \in Nat /\ Len(next) \in Nat
      BY <1>1, <1>4, <1>5
    <2>2. QED
      BY <1>4, <1>5, <2>1 DEF Grown
  <1>7. /\ templates' \in Seq(Template) /\ Grown(templates, templates')
        /\ Serves(Active(templates'), templates')
    BY <1>3, <1>4, <1>5, <1>6
  <1>8. Invalidated(p) /\ UNCHANGED <<reloading, abTests, benchmark, promptScores>>
    BY DEF CreateVersion, Flushed
  <1>9. QED
    BY <1>7, <1>8, WriteKeeps

LEMMA PatchKeepsRows ==
    ASSUME PromptInv, NEW p \in ApiProcesses, NEW i \in Ids, NEW b \in BOOLEAN,
           patch_template(p, i, b)
    PROVE  PromptInv'
  <1>1. CreateVersion(p, templates[i].task, templates[i].target, b)
    BY DEF patch_template, PatchAsNewVersion
  <1>2. templates[i].task \in TaskTypes /\ templates[i].target \in Targets \cup {"wildcard"}
    <2>1. templates \in Seq(Template) /\ i \in 1..Len(templates)
      BY DEF PromptInv, Ids
    <2>2. templates[i] \in Template
      BY <2>1
    <2>3. QED
      BY <2>2 DEF Template
  <1>3. PICK t \in TaskTypes, g \in Targets \cup {"wildcard"} : CreateVersion(p, t, g, b)
    BY <1>1, <1>2
  <1>4. QED
    BY <1>3, CreateVersionKeeps

LEMMA ActivationKeeps ==
    ASSUME PromptInv, NEW p \in ApiProcesses, NEW i \in Ids, Activate(p, i)
    PROVE  PromptInv'
  <1>1. /\ templates \in Seq(Template) /\ Serves(Active(templates), templates)
        /\ i \in 1..Len(templates) /\ templates' = ActivateIn(templates, i)
    BY DEF PromptInv, Activate, Ids
  <1>2. /\ templates' \in Seq(Template) /\ Grown(templates, templates')
        /\ Serves(Active(templates'), templates')
    BY <1>1, ActivateKeeps
  <1>3. Invalidated(p) /\ UNCHANGED <<reloading, abTests, benchmark, promptScores>>
    BY DEF Activate, Flushed
  <1>4. QED
    BY <1>2, <1>3, WriteKeeps

\* The parts that leave the rows alone.
LEMMA ReloadKeeps ==
    ASSUME PromptInv, NEW p \in PromptProcesses,
           ReloadRead(p) \/ ReloadFill(p) \/ ProcessRestarts(p)
    PROVE  PromptInv'
  <1>1. UNCHANGED <<templates, abTests, benchmark, promptScores>>
    BY DEF ReloadRead, ReloadFill, ProcessRestarts
  <1> DEFINE Fine(q) == /\ promptCache'[q].ids \subseteq 1..Len(templates)
                        /\ promptCache'[q].loaded => Serves(promptCache'[q].ids, templates)
                        /\ reloading'[q] # NotReading => Serves(reloading'[q], templates)
             Typed == /\ promptCache' \in [PromptProcesses -> [loaded : BOOLEAN, ids : SUBSET Nat]]
                      /\ reloading' \in [PromptProcesses -> SUBSET Nat]
  <1>2. CASE ReloadRead(p)
    <2>1. promptCache' = promptCache /\ reloading' = [reloading EXCEPT ![p] = ActiveIds]
      BY <1>2 DEF ReloadRead
    <2>2. ActiveIds = Active(templates) /\ ActiveIds \subseteq Nat
      BY DEF ActiveIds, Active, Ids
    <2>3. Serves(ActiveIds, templates)
      BY <2>2 DEF PromptInv
    <2>4. Typed /\ \A q \in PromptProcesses : Fine(q)
      BY <2>1, <2>2, <2>3 DEF PromptInv
    <2>5. QED
      BY <1>1, <2>4 DEF PromptInv
  <1>3. CASE ReloadFill(p)
    <2> DEFINE c == [loaded |-> TRUE, ids |-> reloading[p]]
    <2>1. /\ reloading[p] # NotReading
          /\ promptCache' = [promptCache EXCEPT ![p] = c]
          /\ reloading' = [reloading EXCEPT ![p] = NotReading]
      BY <1>3 DEF ReloadFill
    <2>2. Serves(c.ids, templates) /\ c.ids \in SUBSET Nat /\ c \in [loaded : BOOLEAN, ids : SUBSET Nat]
      BY <2>1 DEF PromptInv
    <2>3. c.ids \subseteq 1..Len(templates)
      BY <2>2 DEF Serves
    <2> HIDE DEF c
    <2>4. NotReading \in SUBSET Nat
      BY DEF NotReading, Nothing
    <2>5. Typed /\ \A q \in PromptProcesses : Fine(q)
      BY <2>1, <2>2, <2>3, <2>4 DEF PromptInv
    <2>6. QED
      BY <1>1, <2>5 DEF PromptInv
  <1>4. CASE ProcessRestarts(p)
    <2>1. /\ promptCache' = [promptCache EXCEPT ![p] = Unloaded]
          /\ reloading' = [reloading EXCEPT ![p] = NotReading]
      BY <1>4 DEF ProcessRestarts, Invalidated
    <2>2. Unloaded \in [loaded : BOOLEAN, ids : SUBSET Nat] /\ ~Unloaded.loaded /\ Unloaded.ids = {}
      BY DEF Unloaded
    <2>3. NotReading \in SUBSET Nat
      BY DEF NotReading, Nothing
    <2>4. Typed /\ \A q \in PromptProcesses : Fine(q)
      BY <2>1, <2>2, <2>3 DEF PromptInv
    <2>5. QED
      BY <1>1, <2>4 DEF PromptInv
  <1>5. QED
    BY <1>2, <1>3, <1>4

LEMMA CreateTestKeeps ==
    ASSUME PromptInv, NEW task \in TaskTypes, NEW a \in Ids, NEW b \in Ids, CreateTest(task, a, b)
    PROVE  PromptInv'
  <1> DEFINE row == ABTestRow(task, a, b)
  <1>1. /\ abTests' = Append(abTests, row)
        /\ UNCHANGED <<templates, promptCache, reloading, benchmark, promptScores>>
    BY DEF CreateTest
  <1>2. row \in ABTest /\ row.task = task /\ row.a = a /\ row.b = b
    BY DEF ABTestRow, ABTest, Ids
  <1>3. Written(row.a, row.task, templates) /\ Written(row.b, row.task, templates)
    BY <1>2 DEF CreateTest, Written, Ids
  <1> HIDE DEF row
  <1>4. /\ abTests' \in Seq(ABTest) /\ Len(abTests') = Len(abTests) + 1 /\ Len(abTests) \in Nat
        /\ \A n \in 1..Len(abTests) : abTests'[n] = abTests[n]
        /\ abTests'[Len(abTests) + 1] = row
    BY <1>1, <1>2 DEF PromptInv
  <1>5. \A n \in 1..Len(abTests') : n \in 1..Len(abTests) \/ n = Len(abTests) + 1
    BY <1>4
  <1>6. \A n \in 1..Len(abTests') : /\ Written(abTests'[n].a, abTests'[n].task, templates)
                                    /\ Written(abTests'[n].b, abTests'[n].task, templates)
    BY <1>3, <1>4, <1>5 DEF PromptInv
  <1>7. QED
    BY <1>1, <1>4, <1>6 DEF PromptInv

LEMMA ConcludeKeeps ==
    ASSUME PromptInv, NEW n \in 1..Len(abTests), Conclude(n)
    PROVE  PromptInv'
  <1>1. /\ abTests' = [abTests EXCEPT ![n].status = "concluded"]
        /\ UNCHANGED <<templates, promptCache, reloading, benchmark, promptScores>>
    BY DEF Conclude
  <1>2. abTests \in Seq(ABTest) /\ Len(abTests) \in Nat /\ DOMAIN abTests = 1..Len(abTests)
    BY DEF PromptInv
  <1> DEFINE row == [abTests[n] EXCEPT !.status = "concluded"]
  <1>3. abTests[n] \in ABTest
    BY <1>2
  <1>4. row \in ABTest /\ row.task = abTests[n].task /\ row.a = abTests[n].a /\ row.b = abTests[n].b
    BY <1>3 DEF ABTest
  <1>5. abTests' = [abTests EXCEPT ![n] = row]
    BY <1>1
  <1> HIDE DEF row
  <1>6. /\ abTests' \in Seq(ABTest) /\ Len(abTests') = Len(abTests)
        /\ \A m \in 1..Len(abTests) : abTests'[m] = IF m = n THEN row ELSE abTests[m]
    BY <1>2, <1>4, <1>5
  <1>7. \A m \in 1..Len(abTests') : /\ Written(abTests'[m].a, abTests'[m].task, templates)
                                    /\ Written(abTests'[m].b, abTests'[m].task, templates)
    <2> TAKE m \in 1..Len(abTests')
    <2>1. /\ abTests'[m].a = abTests[m].a /\ abTests'[m].b = abTests[m].b
          /\ abTests'[m].task = abTests[m].task
      BY <1>4, <1>6
    <2>2. QED
      BY <1>6, <2>1 DEF PromptInv
  <1>8. QED
    BY <1>1, <1>6, <1>7 DEF PromptInv

\* A benchmark run keeps the template and the text it loaded.
LEMMA BenchmarkKeeps ==
    ASSUME PromptInv, NEW p \in ApiProcesses, NEW b \in Benchmark,
           benchmark' = [benchmark EXCEPT ![p] = b],
           b # NoBenchmark => Describes(b, templates),
           \A s \in promptScores' : Describes(s, templates),
           UNCHANGED <<templates, promptCache, reloading, abTests>>
    PROVE  PromptInv'
  <1>1. /\ benchmark' \in [ApiProcesses -> Benchmark]
        /\ \A q \in ApiProcesses : benchmark'[q] = IF q = p THEN b ELSE benchmark[q]
    BY DEF PromptInv
  <1>2. \A q \in ApiProcesses : benchmark'[q] # NoBenchmark => Describes(benchmark'[q], templates)
    BY <1>1 DEF PromptInv
  <1>3. QED
    BY <1>1, <1>2 DEF PromptInv

LEMMA EvaluatorKeeps ==
    ASSUME PromptInv, NEW p \in ApiProcesses,
           \/ \E i \in Ids : RunBenchmark(p, i)
           \/ RunCase(p) \/ StoreScores(p) \/ BenchmarkLost(p)
    PROVE  PromptInv'
  <1>1. benchmark[p] \in Benchmark /\ (benchmark[p] # NoBenchmark => Describes(benchmark[p], templates))
    BY DEF PromptInv
  <1>2. CASE \E i \in Ids : RunBenchmark(p, i)
    <2>1. PICK i \in Ids : RunBenchmark(p, i)
      BY <1>2
    <2>a. templates \in Seq(Template) /\ i \in 1..Len(templates) /\ i \in Nat
      BY DEF PromptInv, Ids
    <2>b. templates[i] \in Template
      BY <2>a
    <2>c. templates[i].text \in Nat
      BY <2>b DEF Template
    <2>2. PICK b : b = [template |-> i, text |-> templates[i].text, left |-> BenchmarkCases, scored |-> 0]
      OBVIOUS
    <2>3. b \in Benchmark /\ Describes(b, templates)
      BY <2>a, <2>c, <2>2, PromptAssumption DEF Benchmark, Describes
    <2>4. /\ benchmark' = [benchmark EXCEPT ![p] = b]
          /\ UNCHANGED <<templates, promptCache, reloading, abTests, promptScores>>
      BY <2>1, <2>2 DEF RunBenchmark
    <2>5. \A s \in promptScores' : Describes(s, templates)
      BY <2>4 DEF PromptInv
    <2>6. QED
      BY <2>3, <2>4, <2>5, BenchmarkKeeps
  <1>3. CASE RunCase(p)
    <2>1. PICK k \in {0, 1} :
            benchmark' = [benchmark EXCEPT ![p].left = @ - 1, ![p].scored = @ + k]
      BY <1>3 DEF RunCase
    <2>2. PICK b : b = [benchmark[p] EXCEPT !.left = benchmark[p].left - 1,
                                            !.scored = benchmark[p].scored + k]
      OBVIOUS
    <2>3. b \in Benchmark /\ b.template = benchmark[p].template /\ b.text = benchmark[p].text
      <3>1. benchmark[p].left - 1 \in Int /\ benchmark[p].scored + k \in Int
        BY <1>1, <2>1 DEF Benchmark
      <3>2. QED
        BY <1>1, <2>2, <3>1 DEF Benchmark
    <2>4. benchmark[p] # NoBenchmark
      BY <1>3 DEF RunCase, NoBenchmark
    <2>5. Describes(b, templates)
      BY <1>1, <2>3, <2>4 DEF Describes
    <2>6. benchmark' = [benchmark EXCEPT ![p] = b]
      BY <1>1, <2>1, <2>2 DEF PromptInv, Benchmark
    <2>7. UNCHANGED <<templates, promptCache, reloading, abTests, promptScores>>
      BY <1>3 DEF RunCase
    <2>8. \A s \in promptScores' : Describes(s, templates)
      BY <2>7 DEF PromptInv
    <2>9. QED
      BY <2>3, <2>5, <2>6, <2>7, <2>8, BenchmarkKeeps
  <1>4. CASE StoreScores(p)
    <2>1. /\ benchmark[p] # NoBenchmark
          /\ promptScores' = promptScores \cup {Summarize(benchmark[p])}
          /\ benchmark' = [benchmark EXCEPT ![p] = NoBenchmark]
          /\ UNCHANGED <<templates, promptCache, reloading, abTests>>
      BY <1>4 DEF StoreScores
    <2>2. Describes(Summarize(benchmark[p]), templates)
      BY <1>1, <2>1 DEF Describes, Summarize
    <2>3. \A s \in promptScores' : Describes(s, templates)
      BY <2>1, <2>2 DEF PromptInv
    <2>4. QED
      BY <2>1, <2>3, BenchmarkKeeps, NoBenchmarkType
  <1>5. CASE BenchmarkLost(p)
    <2>1. /\ benchmark' = [benchmark EXCEPT ![p] = NoBenchmark]
          /\ UNCHANGED <<templates, promptCache, reloading, abTests, promptScores>>
      BY <1>5 DEF BenchmarkLost
    <2>2. \A s \in promptScores' : Describes(s, templates)
      BY <2>1 DEF PromptInv
    <2>3. QED
      BY <2>1, <2>2, BenchmarkKeeps, NoBenchmarkType
  <1>6. QED
    BY <1>2, <1>3, <1>4, <1>5

LEMMA PromptStep == PromptInv /\ [PromptNext]_promptVars => PromptInv'
  <1> SUFFICES ASSUME PromptInv, [PromptNext]_promptVars PROVE PromptInv'
    OBVIOUS
  <1>1. CASE UNCHANGED promptVars
    BY <1>1 DEF promptVars, PromptInv
  <1>2. ASSUME NEW p \in ApiProcesses, NEW i \in Ids,
               \/ activate_template(p, i) \/ trigger_eval(p, i)
               \/ \E b \in BOOLEAN : patch_template(p, i, b)
        PROVE  PromptInv'
    BY <1>2, ActivationKeeps, EvaluatorKeeps, PatchKeepsRows DEF activate_template, trigger_eval
  <1>3. ASSUME NEW p \in ApiProcesses, NEW t \in TaskTypes, NEW g \in Targets, NEW b \in BOOLEAN,
               create_template(p, t, g, b)
        PROVE  PromptInv'
    BY <1>3, CreateVersionKeeps DEF create_template
  <1>4. ASSUME NEW p \in ApiProcesses, RunCase(p) \/ StoreScores(p) \/ BenchmarkLost(p)
        PROVE  PromptInv'
    BY <1>4, EvaluatorKeeps
  <1>5. ASSUME NEW p \in PromptProcesses, ReloadRead(p) \/ ReloadFill(p) \/ ProcessRestarts(p)
        PROVE  PromptInv'
    BY <1>5, ReloadKeeps
  <1>6. ASSUME NEW t \in TaskTypes, NEW a \in Ids, NEW b \in Ids, create_ab_test(t, a, b)
        PROVE  PromptInv'
    BY <1>6, CreateTestKeeps DEF create_ab_test
  <1>7. ASSUME NEW n \in 1..Len(abTests), conclude_ab_test(n) PROVE PromptInv'
    BY <1>7, ConcludeKeeps DEF conclude_ab_test
  <1>8. CASE PromptNext
    BY <1>2, <1>3, <1>4, <1>5, <1>6, <1>7, <1>8 DEF PromptNext
  <1>9. QED
    BY <1>1, <1>8

\* Every set of ids a process ever read from the active rows still serves every
\* task, because rows are added and activated but never edited.
THEOREM PromptInvariant == PromptSpec => []PromptInv
  BY PromptInitially, PromptStep, PTL DEF PromptSpec

LEMMA MaxIsIn ==
    ASSUME NEW n \in Nat, NEW A \in SUBSET (1..n), A # {}
    PROVE  Max(A) \in A
  <1>1. IsFiniteSet(1..n)
    <2>1. 1 \in Int /\ n \in Int
      OBVIOUS
    <2>2. QED
      BY <2>1, FS_Interval
  <1>2. IsFiniteSet(A)
    BY <1>1, FS_Subset
  <1> DEFINE f == [x \in A |-> x]
  <1>3. f \in [A -> Nat]
    OBVIOUS
  <1>4. PICK m \in A : \A y \in A : f[y] <= f[m]
    <2> HIDE DEF f
    <2>1. QED
      BY <1>2, <1>3, FiniteMax
  <1>5. \A y \in A : m >= y
    <2> TAKE y \in A
    <2>1. f[y] <= f[m] /\ f[y] = y /\ f[m] = m
      BY <1>4
    <2>2. y \in Nat /\ m \in Nat
      OBVIOUS
    <2>3. QED
      BY <2>1, <2>2
  <1>6. QED
    BY <1>5 DEF Max

LEMMA MinIsIn ==
    ASSUME NEW A \in SUBSET (1..4), A # {}
    PROVE  Min(A) \in A
  <1>1. \E x \in A : \A y \in A : x <= y
    <2>1. CASE 1 \in A
      BY <2>1
    <2>2. CASE 1 \notin A /\ 2 \in A
      BY <2>2
    <2>3. CASE 1 \notin A /\ 2 \notin A /\ 3 \in A
      BY <2>3
    <2>4. CASE 1 \notin A /\ 2 \notin A /\ 3 \notin A
      <3>1. \A y \in A : y = 4
        BY <2>4
      <3>2. 4 \in A
        BY <3>1
      <3>3. QED
        BY <3>1, <3>2
    <2>5. QED
      BY <2>1, <2>2, <2>3, <2>4
  <1>2. QED
    BY <1>1 DEF Min

\* A lookup answers with a row of the task, and answers when a wildcard is there.
LEMMA LookupIsRight ==
    ASSUME templates \in Seq(Template), NEW ids \in SUBSET (1..Len(templates)),
           NEW task \in TaskTypes, NEW c, "wildcard" \in c
    PROVE  /\ \/ Lookup(ids, task, c) = Nothing
              \/ Written(Lookup(ids, task, c), task, templates)
           /\ (\E i \in ids : templates[i].task = task /\ templates[i].target = "wildcard")
                => Lookup(ids, task, c) # Nothing
  <1> DEFINE at(k) == {i \in ids : templates[i].task = task /\ templates[i].target = TargetOrder[k]}
             hits == {k \in DOMAIN TargetOrder : TargetOrder[k] \in c /\ at(k) # {}}
             l == Lookup(ids, task, c)
  <1>1. l = IF hits = {} THEN Nothing ELSE Max(at(Min(hits)))
    BY DEF Lookup
  <1>2. DOMAIN TargetOrder = 1..4 /\ TargetOrder[4] = "wildcard"
    BY DEF TargetOrder
  <1>3. hits \subseteq 1..4
    BY <1>2
  <1>4. Len(templates) \in Nat
    OBVIOUS
  <1>5. ASSUME hits # {} PROVE l # Nothing /\ Written(l, task, templates)
    <2>1. Min(hits) \in hits
      <3> HIDE DEF hits
      <3>1. QED
        BY <1>3, <1>5, MinIsIn
    <2> DEFINE A == at(Min(hits))
    <2>2. A # {} /\ A \subseteq 1..Len(templates) /\ \A i \in A : templates[i].task = task
      BY <2>1
    <2>3. l = Max(A)
      BY <1>1, <1>5
    <2> HIDE DEF A, l
    <2>4. l \in A
      BY <1>4, <2>2, <2>3, MaxIsIn
    <2>5. l \in 1..Len(templates) /\ templates[l].task = task
      BY <2>2, <2>4
    <2>6. QED
      BY <1>4, <2>5 DEF Written, Nothing, l
  <1>6. ASSUME NEW i \in ids, templates[i].task = task, templates[i].target = "wildcard"
        PROVE  hits # {}
    <2>1. i \in at(4)
      BY <1>2, <1>6
    <2>2. 4 \in hits
      BY <1>2, <2>1
    <2>3. QED
      BY <2>2
  <1>7. QED
    BY <1>1, <1>5, <1>6

LEMMA ResolvesWhenInvariant == PromptInv => AlwaysResolves
  <1> SUFFICES ASSUME PromptInv, NEW p \in PromptProcesses, promptCache[p].loaded,
                      NEW t \in TaskTypes, NEW c \in Callers
               PROVE  GetActive(p, t, c) # Nothing
    BY DEF AlwaysResolves
  <1>1. /\ templates \in Seq(Template)
        /\ promptCache[p].ids \in SUBSET (1..Len(templates))
        /\ Serves(promptCache[p].ids, templates)
    BY DEF PromptInv
  <1>2. "wildcard" \in c
    BY DEF Callers
  <1>3. \E i \in promptCache[p].ids : templates[i].task = t /\ templates[i].target = "wildcard"
    BY <1>1 DEF Serves
  <1>4. QED
    BY <1>1, <1>2, <1>3, LookupIsRight DEF GetActive

\* PromptStore.get_active has an answer for every seeded task in every process,
\* for any processes, tasks, targets and number of versions.
THEOREM AlwaysResolvesAlways == PromptSpec => []AlwaysResolves
  BY PromptInvariant, ResolvesWhenInvariant, PTL

\* Rows in a cache, or read for one, are the active ones unless overtaken.
FreshInv ==
    \A p \in PromptProcesses : p \notin overtaken =>
      /\ promptCache[p].loaded => promptCache[p].ids = ActiveIds
      /\ reloading[p] # NotReading => reloading[p] = ActiveIds

LEMMA FlushedFresh ==
    ASSUME PromptInv, NEW p \in PromptProcesses, Flushed(p)
    PROVE  FreshInv'
  <1> SUFFICES ASSUME NEW q \in PromptProcesses, q \notin overtaken'
               PROVE  ~promptCache'[q].loaded /\ reloading'[q] = NotReading
    BY DEF FreshInv
  <1>1. reloading[q] = NotReading /\ (q = p \/ ~promptCache[q].loaded)
    BY DEF Flushed
  <1>2. promptCache'[q] = IF q = p THEN Unloaded ELSE promptCache[q]
    BY DEF Flushed, Invalidated, PromptInv
  <1>3. QED
    BY <1>1, <1>2 DEF Flushed, Unloaded

LEMMA FreshStep == PromptInv /\ FreshInv /\ [PromptNext]_promptVars => FreshInv'
  <1> SUFFICES ASSUME PromptInv, FreshInv, [PromptNext]_promptVars PROVE FreshInv'
    OBVIOUS
  <1>1. ASSUME UNCHANGED <<templates, promptCache, reloading, overtaken>> PROVE FreshInv'
    BY <1>1 DEF FreshInv, ActiveIds, Ids
  <1>2. ASSUME NEW p \in ApiProcesses, Flushed(p) PROVE FreshInv'
    BY <1>2, FlushedFresh, ApiAssumption
  <1>3. ASSUME NEW p \in PromptProcesses, ReloadRead(p) PROVE FreshInv'
    <2>1. /\ UNCHANGED <<templates, promptCache, overtaken>>
          /\ \A q \in PromptProcesses : reloading'[q] = IF q = p THEN ActiveIds ELSE reloading[q]
      BY <1>3 DEF ReloadRead, PromptInv
    <2>2. QED
      BY <2>1 DEF FreshInv, ActiveIds, Ids
  <1>4. ASSUME NEW p \in PromptProcesses, ReloadFill(p) PROVE FreshInv'
    <2> DEFINE c == [loaded |-> TRUE, ids |-> reloading[p]]
    <2>1. /\ UNCHANGED <<templates, overtaken>> /\ reloading[p] # NotReading
          /\ \A q \in PromptProcesses :
               /\ reloading'[q] = IF q = p THEN NotReading ELSE reloading[q]
               /\ promptCache'[q] = IF q = p THEN c ELSE promptCache[q]
      BY <1>4 DEF ReloadFill, PromptInv
    <2>2. QED
      BY <2>1 DEF FreshInv, ActiveIds, Ids
  <1>5. ASSUME NEW p \in PromptProcesses, ProcessRestarts(p) PROVE FreshInv'
    <2>1. /\ UNCHANGED templates /\ overtaken' = overtaken \ {p}
          /\ \A q \in PromptProcesses :
               /\ reloading'[q] = IF q = p THEN NotReading ELSE reloading[q]
               /\ promptCache'[q] = IF q = p THEN Unloaded ELSE promptCache[q]
      BY <1>5 DEF ProcessRestarts, Invalidated, PromptInv
    <2>2. QED
      BY <2>1 DEF FreshInv, ActiveIds, Ids, Unloaded
  <1>6. CASE UNCHANGED promptVars
    BY <1>1, <1>6 DEF promptVars
  <1>7. ASSUME NEW p \in ApiProcesses, NEW i \in Ids,
               \/ activate_template(p, i) \/ trigger_eval(p, i)
               \/ \E b \in BOOLEAN : patch_template(p, i, b)
        PROVE  FreshInv'
    <2>1. Flushed(p) \/ UNCHANGED <<templates, promptCache, reloading, overtaken>>
      BY <1>7 DEF activate_template, Activate, trigger_eval, RunBenchmark,
                  patch_template, PatchAsNewVersion, CreateVersion
    <2>2. QED
      BY <1>1, <1>2, <2>1
  <1>8. ASSUME NEW p \in ApiProcesses, NEW t \in TaskTypes, NEW g \in Targets, NEW b \in BOOLEAN,
               create_template(p, t, g, b)
        PROVE  FreshInv'
    <2>1. Flushed(p)
      BY <1>8 DEF create_template, CreateVersion
    <2>2. QED
      BY <1>2, <2>1
  <1>9. ASSUME NEW p \in ApiProcesses, RunCase(p) \/ StoreScores(p) \/ BenchmarkLost(p)
        PROVE  FreshInv'
    BY <1>1, <1>9 DEF RunCase, StoreScores, BenchmarkLost
  <1>10. ASSUME \/ \E t \in TaskTypes, a, b \in Ids : create_ab_test(t, a, b)
                \/ \E n \in 1..Len(abTests) : conclude_ab_test(n)
         PROVE  FreshInv'
    BY <1>1, <1>10 DEF create_ab_test, CreateTest, conclude_ab_test, Conclude
  <1>11. CASE PromptNext
    BY <1>3, <1>4, <1>5, <1>7, <1>8, <1>9, <1>10, <1>11 DEF PromptNext
  <1>12. QED
    BY <1>6, <1>11

\* invalidate() reaches every row a process uses, but for what a later commit
\* overtook, for any processes, tasks, targets and number of versions.
THEOREM FreshUnlessOvertakenAlways == PromptSpec => []FreshUnlessOvertaken
  <1>1. PromptInit => FreshInv
    BY DEF PromptInit, FreshInv, Unloaded
  <1>2. FreshInv => FreshUnlessOvertaken
    BY DEF FreshInv, FreshUnlessOvertaken
  <1>3. QED
    BY <1>1, <1>2, PromptInvariant, FreshStep, PTL DEF PromptSpec

\* What a benchmark run stored is about the text the template still has.
THEOREM ScoresDescribeTemplateAlways == PromptSpec => []ScoresDescribeTemplate
  <1>1. PromptInv => ScoresDescribeTemplate
    BY DEF PromptInv, Describes, ScoresDescribeTemplate
  <1>2. QED
    BY <1>1, PromptInvariant, PTL

-----------------------------------------------------------------------------
(* Embedding.  What chunk_text returns follows from its equation alone, by  *)
(* looking at the last position where it would not.                        *)

\* What one turn of the loop adds to the windows from the next position.
Turn(f, i, len) ==
    IF len - i < MIN_CHUNK_TOKENS THEN {}
    ELSE {Slice(i, len)} \cup
         (IF i + CHUNK_SIZE_TOKENS >= len THEN {} ELSE f[i + Step])

IsTable(f, a, len) == f = [i \in a..len |-> Turn(f, i, len)]

\* A set of positions has a last one.
LEMMA LastPosition ==
    ASSUME NEW n \in Nat, NEW T \in SUBSET (0..n), T # {}
    PROVE  \E m \in T : \A y \in T : y <= m
<1> DEFINE f == [x \in T |-> x]
<1>1. IsFiniteSet(T)
  <2>1. 0 \in Int /\ n \in Int
    OBVIOUS
  <2>2. IsFiniteSet(0..n)
    BY <2>1, FS_Interval
  <2>3. QED
    BY <2>2, FS_Subset
<1>2. f \in [T -> Nat]
  OBVIOUS
<1>3. PICK m \in T : \A y \in T : f[y] <= f[m]
  <2> HIDE DEF f
  <2>1. QED
    BY <1>1, <1>2, FiniteMax
<1>4. QED
  BY <1>3

\* The loop goes forward.
LEMMA StepForward ==
    /\ Step \in Nat /\ Step >= 1 /\ Step <= CHUNK_SIZE_TOKENS
    /\ CHUNK_SIZE_TOKENS = Step + CHUNK_OVERLAP_TOKENS
  BY EmbeddingAssumption DEF Step

\* The windows from one position on, given those from the next.
LEMMA TableGrows ==
    ASSUME NEW len \in Nat, NEW m \in 0..len, NEW g,
           m < len => IsTable(g, m + 1, len)
    PROVE  \E h : IsTable(h, m, len)
<1> DEFINE h == [i \in m..len |-> IF i = m THEN Turn(g, m, len) ELSE g[i]]
<1>1. \A i \in m..len : i + CHUNK_SIZE_TOKENS < len =>
          i + Step \in (m + 1)..len /\ i + Step # m /\ i + Step \in m..len
  BY StepForward, EmbeddingAssumption
<1>2. \A i \in m..len : Turn(h, i, len) = Turn(g, i, len)
  <2> SUFFICES ASSUME NEW i \in m..len PROVE Turn(h, i, len) = Turn(g, i, len)
    OBVIOUS
  <2>1. CASE i + CHUNK_SIZE_TOKENS >= len
    BY <2>1 DEF Turn
  <2>2. CASE ~(i + CHUNK_SIZE_TOKENS >= len)
    <3>1. i + CHUNK_SIZE_TOKENS < len
      BY <2>2, EmbeddingAssumption
    <3>2. h[i + Step] = g[i + Step]
      BY <1>1, <3>1
    <3> HIDE DEF h
    <3>3. QED
      BY <3>2 DEF Turn
  <2>3. QED
    BY <2>1, <2>2
<1>3. \A i \in m..len : i # m => g[i] = Turn(g, i, len)
  <2> SUFFICES ASSUME NEW i \in m..len, i # m PROVE g[i] = Turn(g, i, len)
    OBVIOUS
  <2>1. m < len /\ i \in (m + 1)..len
    OBVIOUS
  <2>2. g = [j \in (m + 1)..len |-> Turn(g, j, len)]
    BY <2>1 DEF IsTable
  <2>3. QED
    BY <2>1, <2>2
<1>4. h = [i \in m..len |-> Turn(h, i, len)]
  <2>1. \A i \in m..len : h[i] = Turn(h, i, len)
    BY <1>2, <1>3
  <2>2. QED
    BY <2>1
<1>5. QED
  BY <1>4 DEF IsTable

\* The recursion of chunk_text is well defined ...
LEMMA TableExists ==
    ASSUME NEW len \in Nat
    PROVE  \E f : IsTable(f, 0, len)
<1> DEFINE T == {a \in 0..len : ~\E f : IsTable(f, a, len)}
<1>1. SUFFICES ASSUME T # {} PROVE FALSE
  OBVIOUS
<1>2. PICK m \in T : \A y \in T : y <= m
  BY <1>1, LastPosition
<1>3. m \in 0..len /\ ~\E f : IsTable(f, m, len)
  BY <1>2
<1>4. m < len => \E g : IsTable(g, m + 1, len)
  <2> SUFFICES ASSUME m < len PROVE \E g : IsTable(g, m + 1, len)
    OBVIOUS
  <2>1. m + 1 \in 0..len /\ m + 1 \notin T
    BY <1>2, <1>3
  <2>2. QED
    BY <2>1
<1>5. QED
  BY <1>3, <1>4, TableGrows

\* ... and chunk_text reads its first entry.
LEMMA ChunkTable ==
    ASSUME NEW len \in Nat
    PROVE  \E f : IsTable(f, 0, len) /\ chunk_text(len) = f[0]
<1> DEFINE F == CHOOSE f : f = [i \in 0..len |-> Turn(f, i, len)]
<1>1. IsTable(F, 0, len)
  BY TableExists DEF IsTable
<1>2. chunk_text(len) = F[0]
  BY DEF chunk_text, Turn
<1> HIDE DEF F
<1>3. QED
  BY <1>1, <1>2

\* The overlap feeds the last window, so no token is left out.
LEMMA TableCovers ==
    ASSUME NEW len \in Nat, NEW f, IsTable(f, 0, len)
    PROVE  \A i \in 0..len : len - i >= MIN_CHUNK_TOKENS => UNION f[i] = (i + 1)..len
<1> DEFINE T == {i \in 0..len : len - i >= MIN_CHUNK_TOKENS /\ UNION f[i] # (i + 1)..len}
<1>1. SUFFICES ASSUME T # {} PROVE FALSE
  OBVIOUS
<1>2. PICK m \in T : \A y \in T : y <= m
  BY <1>1, LastPosition
<1>3. m \in 0..len /\ len - m >= MIN_CHUNK_TOKENS /\ UNION f[m] # (m + 1)..len
  BY <1>2
<1>4. f[m] = {Slice(m, len)} \cup
             (IF m + CHUNK_SIZE_TOKENS >= len THEN {} ELSE f[m + Step])
  <2>1. f[m] = Turn(f, m, len)
    BY <1>3 DEF IsTable
  <2>2. ~(len - m < MIN_CHUNK_TOKENS)
    BY <1>3, EmbeddingAssumption
  <2>3. QED
    BY <2>1, <2>2 DEF Turn
<1>5. CASE m + CHUNK_SIZE_TOKENS >= len
  <2>1. Slice(m, len) = (m + 1)..len
    BY <1>3, <1>5, EmbeddingAssumption DEF Slice
  <2>2. QED
    BY <1>3, <1>4, <1>5, <2>1
<1>6. CASE ~(m + CHUNK_SIZE_TOKENS >= len)
  <2> DEFINE k == m + Step
  <2>1. k \in 0..len /\ len - k >= MIN_CHUNK_TOKENS /\ k > m
    BY <1>3, <1>6, StepForward, EmbeddingAssumption
  <2>2. UNION f[k] = (k + 1)..len
    <3>1. ~(k <= m)
      BY <1>3, <2>1
    <3> HIDE DEF k
    <3>2. k \notin T
      BY <1>2, <3>1
    <3>3. QED
      BY <2>1, <3>2
  <2>3. Slice(m, len) = (m + 1)..(m + CHUNK_SIZE_TOKENS)
    BY <1>3, <1>6, EmbeddingAssumption DEF Slice
  <2>4. (m + 1)..len = (m + 1)..(m + CHUNK_SIZE_TOKENS) \cup (k + 1)..len
    BY <1>3, <1>6, StepForward, EmbeddingAssumption
  <2>5. f[m] = {Slice(m, len)} \cup f[k]
    BY <1>4, <1>6
  <2> HIDE DEF k
  <2>6. QED
    BY <1>3, <2>2, <2>3, <2>4, <2>5
<1>7. QED
  BY <1>5, <1>6

\* chunk_text returns nothing for a text below the minimum, and otherwise
\* windows that hold every token.
LEMMA ChunksCover ==
    ASSUME NEW len \in Nat
    PROVE  /\ chunk_text(len) = {} <=> len < MIN_CHUNK_TOKENS
           /\ len >= MIN_CHUNK_TOKENS => UNION chunk_text(len) = 1..len
<1>1. PICK f : IsTable(f, 0, len) /\ chunk_text(len) = f[0]
  BY ChunkTable
<1>2. f[0] = Turn(f, 0, len)
  BY <1>1 DEF IsTable
<1>3. chunk_text(len) = {} <=> len < MIN_CHUNK_TOKENS
  BY <1>1, <1>2 DEF Turn
<1>4. len >= MIN_CHUNK_TOKENS => UNION f[0] = 1..len
  <2>1. 0 \in 0..len /\ len - 0 = len /\ 0 + 1 = 1
    OBVIOUS
  <2>2. \A i \in 0..len : len - i >= MIN_CHUNK_TOKENS => UNION f[i] = (i + 1)..len
    BY <1>1, TableCovers
  <2>3. len - 0 >= MIN_CHUNK_TOKENS => UNION f[0] = (0 + 1)..len
    BY <2>1, <2>2
  <2>4. QED
    BY <2>1, <2>3
<1>5. QED
  BY <1>1, <1>3, <1>4

\* The embedding pipeline: a text is queued and embedded only once its row is
\* there, a row keeps its length, and a job about to mark it has stored it.
TextRow == [state : {"absent", "checking", "undispatched", "live", "deleted"}, len : Nat,
            status : {"pending", "embedded", "failed"}]

EmbedJob == [pc : {"free", "embed", "upsert", "mark"}, item : Items \cup {NoItem}]

Present(i) == texts[i].state \notin {"absent", "checking"}

Whole(i) == UNION points[i] = 1..texts[i].len

JobFits(j) ==
    j # NoJob =>
      /\ j.item \in Items /\ Present(j.item)
      /\ UNION Chunks(j.item) = 1..texts[j.item].len
      /\ j.pc = "mark" => Whole(j.item)

EmbedTypeOK ==
    /\ texts \in [Items -> TextRow]
    /\ DOMAIN points = Items
    /\ embedding \in [EmbedSlots -> EmbedJob]

EmbedFacts ==
    /\ \A i \in embedQueue : i \in Items /\ Present(i)
    /\ \A i \in Items : ~Present(i) => texts[i].status # "embedded"
    /\ \A w \in EmbedSlots : \A j : j = embedding[w] => JobFits(j)
    /\ EmbeddedIsRetrievable

EmbedInv == EmbedTypeOK /\ EmbedFacts

\* The initial state.
LEMMA EmbedInit == EmbeddingInit => EmbedInv
<1> SUFFICES ASSUME EmbeddingInit PROVE EmbedInv
  OBVIOUS
<1>1. EmbedTypeOK
  BY DEF EmbeddingInit, EmbedTypeOK, NoText, TextRow, NoJob, EmbedJob
<1>2. EmbedFacts
  BY DEF EmbeddingInit, EmbedFacts, EmbeddedIsRetrievable, NoText, JobFits
<1>3. QED
  BY <1>1, <1>2 DEF EmbedInv

\* What a step may do to a text: nothing that loses it, and a text newly marked
\* embedded is stored whole or is a document that gave nothing to embed.
TextKept(i) ==
    /\ Present(i) /\ Present(i)'
    /\ texts'[i].len = texts[i].len
    /\ \/ points'[i] = points[i]
       \/ UNION points'[i] = 1..texts[i].len
    /\ texts'[i].status = "embedded" =>
         \/ texts[i].status = "embedded"
         \/ UNION points'[i] = 1..texts[i].len
         \/ i \in Documents /\ (texts[i].len < MIN_CHUNK_TOKENS \/ i \in unread')

TextUnborn(i) == ~Present(i) /\ texts'[i].status # "embedded"

\* Such a step keeps what jobs and messages rely on.
LEMMA EmbedKept ==
    ASSUME EmbedFacts, unread \subseteq unread',
           \A i \in Items : TextKept(i) \/ TextUnborn(i),
           \A i \in embedQueue' : i \in embedQueue \/ (i \in Items /\ Present(i)'),
           \A w \in EmbedSlots : \A j : j = embedding'[w] => j = embedding[w] \/ JobFits(j)'
    PROVE  EmbedFacts'
<1>1. \A i \in embedQueue' : i \in Items /\ Present(i)'
  BY DEF EmbedFacts, TextKept, TextUnborn
<1>2. \A i \in Items : ~Present(i)' => texts'[i].status # "embedded"
  BY DEF TextKept, TextUnborn
<1>3. \A j : JobFits(j) => JobFits(j)'
  BY DEF JobFits, TextKept, TextUnborn, Whole, Chunks
<1>4. \A w \in EmbedSlots : \A j : j = embedding'[w] => JobFits(j)'
  BY <1>3 DEF EmbedFacts
<1>5. EmbeddedIsRetrievable'
  BY DEF EmbedFacts, EmbeddedIsRetrievable, TextKept, TextUnborn
<1>6. QED
  BY <1>1, <1>2, <1>4, <1>5 DEF EmbedFacts

\* Texts and points a step does not touch.
LEMMA TextSame ==
    ASSUME EmbedFacts, NEW i \in Items, texts'[i] = texts[i], points'[i] = points[i]
    PROVE  TextKept(i) \/ TextUnborn(i)
  BY DEF EmbedFacts, TextKept, TextUnborn, Present

\* A step on the row of one text, without a job.
LEMMA EmbedRow ==
    ASSUME EmbedInv, NEW s \in Items, NEW row \in TextRow,
           texts' = [texts EXCEPT ![s] = row], UNCHANGED <<embedding, points, unread>>,
           \/ ~Present(s) /\ row.status # "embedded"
           \/ /\ Present(s) /\ row.state \notin {"absent", "checking"}
              /\ row.len = texts[s].len /\ row.status = texts[s].status,
           \A i \in embedQueue' : i \in embedQueue \/ (i = s /\ Present(i))
    PROVE  EmbedInv'
<1>0. EmbedTypeOK /\ EmbedFacts
  BY DEF EmbedInv
<1>1. EmbedTypeOK'
  BY <1>0 DEF EmbedTypeOK
<1>2. texts'[s] = row /\ \A i \in Items \ {s} : texts'[i] = texts[i]
  BY <1>0 DEF EmbedTypeOK
<1>3. TextKept(s) \/ TextUnborn(s)
  BY <1>2 DEF TextKept, TextUnborn, Present
<1>4. \A i \in Items : TextKept(i) \/ TextUnborn(i)
  BY <1>0, <1>2, <1>3, TextSame
<1>5. \A i \in embedQueue' : i \in embedQueue \/ (i \in Items /\ Present(i)')
  BY <1>4 DEF TextKept, TextUnborn
<1>6. EmbedFacts'
  BY <1>0, <1>4, <1>5, EmbedKept
<1>7. QED
  BY <1>1, <1>6 DEF EmbedInv

\* Requests: paste, dispatch, delete; enrichment: store a document.
LEMMA EmbedRequests ==
    ASSUME EmbedInv, NEW s \in Items, NEW n \in Nat,
           ReadPasteTotal(s) \/ InsertPaste(s, n) \/ DispatchPaste(s) \/ delete(s)
           \/ persist_document(s, n)
    PROVE  EmbedInv'
<1>0. texts[s] \in TextRow /\ texts \in [Items -> TextRow]
  BY DEF EmbedInv, EmbedTypeOK
<1>1. ASSUME NEW st \in {"checking", "live", "deleted"},
             texts' = [texts EXCEPT ![s].state = st],
             UNCHANGED <<embedding, points, unread>>,
             st = "checking" => texts[s].state = "absent",
             st # "checking" => Present(s),
             \A i \in embedQueue' : i \in embedQueue \/ (i = s /\ Present(i))
      PROVE  EmbedInv'
  <2> DEFINE row == [texts[s] EXCEPT !.state = st]
  <2>1. row \in TextRow /\ row.state = st /\ row.len = texts[s].len /\ row.status = texts[s].status
    BY <1>0 DEF TextRow
  <2>2. texts' = [texts EXCEPT ![s] = row]
    BY <1>1
  <2>3. ~Present(s) => texts[s].status # "embedded"
    BY DEF EmbedInv, EmbedFacts
  <2>4. st = "checking" => ~Present(s)
    BY <1>1 DEF Present
  <2> HIDE DEF row
  <2>5. QED
    BY <1>1, <2>1, <2>2, <2>3, <2>4, EmbedRow
<1>2. CASE ReadPasteTotal(s)
  BY <1>1, <1>2 DEF ReadPasteTotal
<1>3. CASE DispatchPaste(s)
  BY <1>1, <1>3 DEF DispatchPaste, Present
<1>4. CASE delete(s)
  BY <1>1, <1>4 DEF delete, Live, Present
<1>5. CASE InsertPaste(s, n)
  <2>1. PICK row \in {[state |-> "undispatched", len |-> n, status |-> "pending"], NoText} :
          texts' = [texts EXCEPT ![s] = row]
    BY <1>5 DEF InsertPaste
  <2>2. row \in TextRow /\ row.status # "embedded"
    BY <1>0, <2>1 DEF TextRow, NoText
  <2>3. ~Present(s) /\ UNCHANGED <<embedding, points, embedQueue, unread>>
    BY <1>5 DEF InsertPaste, Present
  <2>4. QED
    BY <2>1, <2>2, <2>3, EmbedRow
<1>6. CASE persist_document(s, n)
  <2> DEFINE row == [state |-> "live", len |-> n, status |-> "pending"]
  <2>1. row \in TextRow /\ row.status # "embedded"
    BY <1>0 DEF TextRow
  <2>2. ~Present(s) /\ UNCHANGED <<embedding, points, embedQueue, unread>>
    BY <1>6 DEF persist_document, Present
  <2>3. texts' = [texts EXCEPT ![s] = row]
    BY <1>6 DEF persist_document
  <2> HIDE DEF row
  <2>4. QED
    BY <2>1, <2>2, <2>3, EmbedRow
<1>7. QED
  BY <1>2, <1>3, <1>4, <1>5, <1>6

\* A text that is there is stored whole by the windows of its job.
LEMMA JobCovers ==
    ASSUME EmbedInv, NEW i \in Items, i \in Pastes \/ Chunks(i) # {}
    PROVE  UNION Chunks(i) = 1..texts[i].len
<1>1. texts[i].len \in Nat
  BY DEF EmbedInv, EmbedTypeOK, TextRow
<1>2. CASE chunk_text(texts[i].len) = {}
  BY <1>2 DEF Chunks
<1>3. CASE chunk_text(texts[i].len) # {}
  <2>1. texts[i].len >= MIN_CHUNK_TOKENS
    BY <1>1, <1>3, ChunksCover, EmbeddingAssumption
  <2>2. QED
    BY <1>1, <1>3, <2>1, ChunksCover DEF Chunks
<1>4. QED
  BY <1>2, <1>3

\* A task or a request takes a text up.
LEMMA EmbedStart ==
    ASSUME EmbedInv, NEW w \in EmbedSlots, NEW i \in Items, StartEmbed(w, i)
    PROVE  EmbedInv'
<1>0. EmbedTypeOK /\ EmbedFacts /\ points' = points
  BY DEF EmbedInv, StartEmbed
<1>1. Present(i)
  BY <1>0 DEF StartEmbed, EmbedFacts, Live, Present
<1>2. CASE UNCHANGED <<texts, embedding, unread>> /\ Acked(i)
  <2>1. EmbedTypeOK'
    BY <1>0, <1>2 DEF EmbedTypeOK
  <2>2. \A k \in Items : TextKept(k) \/ TextUnborn(k)
    BY <1>0, <1>2, TextSame
  <2>3. EmbedFacts'
    BY <1>0, <1>2, <2>2, EmbedKept DEF Acked
  <2>4. QED
    BY <2>1, <2>3 DEF EmbedInv
<1>3. CASE MarkedUnstored(i) /\ embedQueue' \subseteq embedQueue /\ UNCHANGED embedding
  <2>i. /\ i \in Documents /\ texts' = [texts EXCEPT ![i].status = "embedded"]
        /\ unread \subseteq unread' /\ (Chunks(i) = {} \/ i \in unread')
    BY <1>3 DEF MarkedUnstored
  <2> DEFINE row == [texts[i] EXCEPT !.status = "embedded"]
  <2>1. /\ row \in TextRow /\ row.state = texts[i].state /\ row.len = texts[i].len
    BY <1>0 DEF EmbedTypeOK, TextRow
  <2>2. texts' = [texts EXCEPT ![i] = row]
    BY <2>i
  <2> HIDE DEF row
  <2>3. texts'[i] = row /\ \A k \in Items \ {i} : texts'[k] = texts[k]
    BY <1>0, <2>2 DEF EmbedTypeOK
  <2>4. EmbedTypeOK'
    BY <1>0, <1>3, <2>1, <2>2 DEF EmbedTypeOK
  <2>5. ASSUME Chunks(i) = {} PROVE texts[i].len < MIN_CHUNK_TOKENS
    <3>1. texts[i].len \in Nat
      BY <1>0 DEF EmbedTypeOK, TextRow
    <3>2. chunk_text(texts[i].len) = {}
      BY <2>i, <2>5 DEF Chunks
    <3>3. QED
      BY <3>1, <3>2, ChunksCover
  <2>6. TextKept(i)
    BY <1>0, <1>1, <2>i, <2>1, <2>3, <2>5 DEF TextKept, Present
  <2>7. \A k \in Items : TextKept(k) \/ TextUnborn(k)
    BY <1>0, <2>3, <2>6, TextSame
  <2>8. EmbedFacts'
    BY <1>0, <1>3, <2>i, <2>7, EmbedKept
  <2>9. QED
    BY <2>4, <2>8 DEF EmbedInv
<1>4. CASE /\ i \in Pastes \/ Chunks(i) # {}
           /\ embedding' = [embedding EXCEPT ![w] = [pc |-> "embed", item |-> i]]
           /\ UNCHANGED <<texts, embedQueue, unread>>
  <2> DEFINE job == [pc |-> "embed", item |-> i]
  <2>1. job \in EmbedJob /\ job.pc = "embed" /\ job.item = i
    BY DEF EmbedJob
  <2> HIDE DEF job
  <2>2. EmbedTypeOK' /\ embedding'[w] = job /\ \A v \in EmbedSlots \ {w} : embedding'[v] = embedding[v]
    BY <1>0, <1>4, <2>1 DEF EmbedTypeOK, job
  <2>3. \A k \in Items : TextKept(k) \/ TextUnborn(k)
    BY <1>0, <1>4, TextSame
  <2>4. UNION Chunks(i) = 1..texts[i].len
    BY <1>4, JobCovers
  <2>5. \A j : j = job => JobFits(j)'
    BY <1>1, <1>4, <2>1, <2>4 DEF JobFits, Present, Chunks
  <2>6. EmbedFacts'
    BY <1>0, <1>4, <2>2, <2>3, <2>5, EmbedKept
  <2>7. QED
    BY <2>2, <2>6 DEF EmbedInv
<1>5. QED
  BY <1>2, <1>3, <1>4 DEF StartEmbed, Acked

\* A job goes on: the windows are upserted, the row is marked, or it ends.
LEMMA EmbedJobs ==
    ASSUME EmbedInv, NEW w \in EmbedSlots,
           embed_texts(w) \/ EmbedFails(w) \/ upsert(w) \/ MarkEmbedded(w) \/ EmbedWorkerLost(w)
    PROVE  EmbedInv'
<1>i. PICK i : i = embedding[w].item
  OBVIOUS
<1> USE <1>i
<1>0. EmbedTypeOK /\ EmbedFacts /\ embedding[w] \in EmbedJob /\ unread' = unread
  BY DEF EmbedInv, EmbedTypeOK, embed_texts, EmbedFails, upsert, MarkEmbedded, EmbedWorkerLost
<1>1. embedding[w] # NoJob
  BY DEF embed_texts, EmbedFails, upsert, MarkEmbedded, EmbedWorkerLost, NoJob
<1>2. /\ i \in Items /\ Present(i) /\ UNION Chunks(i) = 1..texts[i].len
      /\ embedding[w].pc = "mark" => Whole(i)
  BY <1>0, <1>1 DEF EmbedFacts, JobFits
<1>3. \A j : j = NoJob => JobFits(j)'
  BY DEF JobFits
<1>4. NoJob \in EmbedJob
  BY DEF NoJob, EmbedJob
<1>5. ASSUME NEW st \in {"pending", "embedded", "failed"},
             texts' = [texts EXCEPT ![i].status = st], points' = points,
             st = "embedded" => Whole(i)
      PROVE  /\ texts' \in [Items -> TextRow]
             /\ \A k \in Items : TextKept(k) \/ TextUnborn(k)
  <2> DEFINE row == [texts[i] EXCEPT !.status = st]
  <2>1. row \in TextRow /\ row.state = texts[i].state /\ row.len = texts[i].len /\ row.status = st
    BY <1>0, <1>2 DEF EmbedTypeOK, TextRow
  <2>2. texts' = [texts EXCEPT ![i] = row]
    BY <1>5
  <2> HIDE DEF row
  <2>3. texts'[i] = row /\ \A k \in Items \ {i} : texts'[k] = texts[k]
    BY <1>0, <1>2, <2>2 DEF EmbedTypeOK
  <2>4. TextKept(i)
    BY <1>2, <1>5, <2>1, <2>3 DEF TextKept, Present, Whole
  <2>5. QED
    BY <1>0, <1>2, <1>5, <2>1, <2>2, <2>3, <2>4, TextSame DEF EmbedTypeOK
<1>6. ASSUME Ends(w), points' = points, texts' \in [Items -> TextRow],
             \A k \in Items : TextKept(k) \/ TextUnborn(k)
      PROVE  EmbedInv'
  <2>1. EmbedTypeOK' /\ embedding'[w] = NoJob /\ \A v \in EmbedSlots \ {w} : embedding'[v] = embedding[v]
    BY <1>0, <1>4, <1>6 DEF EmbedTypeOK, Ends
  <2>2. embedQueue' \subseteq embedQueue
    BY <1>6 DEF Ends, Acked
  <2>3. EmbedFacts'
    BY <1>0, <1>3, <1>6, <2>1, <2>2, EmbedKept
  <2>4. QED
    BY <2>1, <2>3 DEF EmbedInv
<1>7. CASE embed_texts(w)
  <2> DEFINE job == [embedding[w] EXCEPT !.pc = "upsert"]
  <2>1. job \in EmbedJob /\ job.pc = "upsert" /\ job.item = i
    BY <1>0 DEF EmbedJob
  <2>2. embedding' = [embedding EXCEPT ![w] = job] /\ UNCHANGED <<texts, points, embedQueue>>
    BY <1>7 DEF embed_texts
  <2> HIDE DEF job
  <2>3. EmbedTypeOK' /\ embedding'[w] = job /\ \A v \in EmbedSlots \ {w} : embedding'[v] = embedding[v]
    BY <1>0, <2>1, <2>2 DEF EmbedTypeOK
  <2>4. \A j : j = job => JobFits(j)'
    BY <1>2, <2>1, <2>2 DEF JobFits, Present, Chunks
  <2>5. \A k \in Items : TextKept(k) \/ TextUnborn(k)
    BY <1>0, <2>2, TextSame
  <2>6. EmbedFacts'
    BY <1>0, <2>2, <2>3, <2>4, <2>5, EmbedKept
  <2>7. QED
    BY <2>3, <2>6 DEF EmbedInv
<1>8. CASE upsert(w)
  <2> DEFINE job == [embedding[w] EXCEPT !.pc = "mark"]
  <2>1. job \in EmbedJob /\ job.pc = "mark" /\ job.item = i
    BY <1>0 DEF EmbedJob
  <2>2. /\ embedding' = [embedding EXCEPT ![w] = job] /\ UNCHANGED <<texts, embedQueue>>
        /\ points' = [points EXCEPT ![i] = Chunks(i)]
    BY <1>8 DEF upsert
  <2> HIDE DEF job
  <2>3. EmbedTypeOK' /\ embedding'[w] = job /\ \A v \in EmbedSlots \ {w} : embedding'[v] = embedding[v]
    BY <1>0, <2>1, <2>2 DEF EmbedTypeOK
  <2>4. points'[i] = Chunks(i) /\ \A k \in Items \ {i} : points'[k] = points[k]
    BY <1>0, <1>2, <2>2 DEF EmbedTypeOK
  <2>5. \A j : j = job => JobFits(j)'
    BY <1>2, <2>1, <2>2, <2>4 DEF JobFits, Present, Chunks, Whole
  <2>6. TextKept(i)
    BY <1>2, <2>2, <2>4 DEF TextKept, Present
  <2>7. \A k \in Items : TextKept(k) \/ TextUnborn(k)
    BY <1>0, <2>2, <2>4, <2>6, TextSame
  <2>8. EmbedFacts'
    BY <1>0, <2>2, <2>3, <2>5, <2>7, EmbedKept
  <2>9. QED
    BY <2>3, <2>8 DEF EmbedInv
<1>9. CASE MarkEmbedded(w)
  BY <1>2, <1>5, <1>6, <1>9 DEF MarkEmbedded
<1>10. CASE EmbedFails(w)
  <2>1. Ends(w) /\ points' = points
    BY <1>10 DEF EmbedFails
  <2>2. CASE texts' = texts
    <3>1. texts' \in [Items -> TextRow] /\ \A k \in Items : TextKept(k) \/ TextUnborn(k)
      BY <1>0, <2>1, <2>2, TextSame DEF EmbedTypeOK
    <3>2. QED
      BY <1>6, <2>1, <3>1
  <2>3. CASE texts' = [texts EXCEPT ![i].status = "failed"]
    BY <1>5, <1>6, <2>1, <2>3
  <2>4. QED
    BY <1>10, <2>2, <2>3 DEF EmbedFails
<1>11. CASE EmbedWorkerLost(w)
  <2>1. embedding' = [embedding EXCEPT ![w] = NoJob] /\ UNCHANGED <<texts, points, embedQueue>>
    BY <1>11 DEF EmbedWorkerLost
  <2>2. EmbedTypeOK' /\ embedding'[w] = NoJob /\ \A v \in EmbedSlots \ {w} : embedding'[v] = embedding[v]
    BY <1>0, <1>4, <2>1 DEF EmbedTypeOK
  <2>3. \A k \in Items : TextKept(k) \/ TextUnborn(k)
    BY <1>0, <2>1, TextSame
  <2>4. EmbedFacts'
    BY <1>0, <1>3, <2>1, <2>2, <2>3, EmbedKept
  <2>5. QED
    BY <2>2, <2>4 DEF EmbedInv
<1>12. QED
  BY <1>7, <1>8, <1>9, <1>10, <1>11

\* Every step of the pipeline.
LEMMA EmbedNext == EmbedInv /\ [EmbeddingNext]_embeddingVars => EmbedInv'
<1> SUFFICES ASSUME EmbedInv, [EmbeddingNext]_embeddingVars PROVE EmbedInv'
  OBVIOUS
<1>0. EmbedTypeOK /\ EmbedFacts
  BY DEF EmbedInv
<1>1. ASSUME UNCHANGED <<texts, embedding, points, unread>>,
             \A i \in embedQueue' : i \in embedQueue \/ (i \in Items /\ Present(i))
      PROVE  EmbedInv'
  <2>1. EmbedTypeOK'
    BY <1>0, <1>1 DEF EmbedTypeOK
  <2>2. \A k \in Items : TextKept(k) \/ TextUnborn(k)
    BY <1>0, <1>1, TextSame
  <2>3. \A i \in embedQueue' : i \in embedQueue \/ (i \in Items /\ Present(i)')
    BY <1>1 DEF Present
  <2>4. EmbedFacts'
    BY <1>0, <1>1, <2>2, <2>3, EmbedKept
  <2>5. QED
    BY <2>1, <2>4 DEF EmbedInv
<1>2. CASE QueuePendingDocuments
  BY <1>1, <1>2 DEF QueuePendingDocuments, Items, Live, Present
<1>3. CASE UNCHANGED embeddingVars
  BY <1>1, <1>3 DEF embeddingVars
<1>4. ASSUME NEW s \in Pastes, ReadPasteTotal(s) \/ DispatchPaste(s) \/ delete(s) PROVE EmbedInv'
  <2>1. s \in Items /\ 0 \in Nat
    BY DEF Items
  <2>2. QED
    BY <1>4, <2>1, EmbedRequests
<1>5. ASSUME NEW s \in Pastes, NEW n \in Lengths, InsertPaste(s, n) PROVE EmbedInv'
  BY <1>5, EmbedRequests, EmbeddingAssumption DEF Items
<1>6. ASSUME NEW d \in Documents, NEW n \in Lengths, persist_document(d, n) PROVE EmbedInv'
  BY <1>6, EmbedRequests, EmbeddingAssumption DEF Items
<1>7. QED
  BY <1>2, <1>3, <1>4, <1>5, <1>6, EmbedStart, EmbedJobs DEF EmbeddingNext

\* A job holds a row that is there, and one about to mark it has stored all of
\* its windows, however often the message is delivered.
THEOREM EmbeddingInvariant == EmbeddingSpec => []EmbedInv
  BY EmbedInit, EmbedNext, PTL DEF EmbeddingSpec

\* A text marked embedded can be retrieved whole, for every length and every
\* window, overlap and minimum with a minimum of at most the overlap and one
\* (chunk_text, MarkEmbedded): with the code's 512, 50 and 50 the minimum is
\* one below the limit.
THEOREM EmbeddedIsRetrievableAlways == EmbeddingSpec => []EmbeddedIsRetrievable
<1>1. EmbedInv => EmbeddedIsRetrievable
  BY DEF EmbedInv, EmbedFacts
<1>2. QED
  BY <1>1, EmbeddingInvariant, PTL

=============================================================================
