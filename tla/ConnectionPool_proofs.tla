------------------------ MODULE ConnectionPool_proofs ------------------------
(***************************************************************************)
(* Proofs about the connection pool for every set of callers, every supply   *)
(* of connections and every maximum.  The conjunction of the invariants that  *)
(* the run checks is inductive as it stands.                                 *)
(***************************************************************************)
EXTENDS ConnectionPool, SequenceLemmas, FiniteSetTheorems, TLAPS

IInv ==
  /\ TypeOK
  /\ OneOwner
  /\ ActiveIsHonest
  /\ SequentialOpensRespectMax
  /\ OnlyRefusedAreForgotten

-----------------------------------------------------------------------------
(* Counting the callers that are somewhere *)

LEMMA CallersAreCounted ==
  ASSUME NEW CONSTANT s
  PROVE  IsFiniteSet(In(s)) /\ Cardinality(In(s)) \in Nat
BY PoolAssumption, FS_Subset, FS_CardinalityType DEF In

\* A caller that moves from one state to another is counted there instead.
LEMMA CallerMoves ==
  ASSUME TypeOK, NEW c \in Callers, NEW CONSTANT from, NEW CONSTANT to,
         from # to, call[c] = from, call' = [call EXCEPT ![c] = to]
  PROVE  /\ In(to)' = In(to) \cup {c} /\ c \notin In(to)
         /\ In(from)' = In(from) \ {c} /\ c \in In(from)
         /\ Cardinality(In(to)') = Cardinality(In(to)) + 1
         /\ Cardinality(In(from)') = Cardinality(In(from)) - 1
<1>1. /\ In(to)' = In(to) \cup {c} /\ c \notin In(to)
      /\ In(from)' = In(from) \ {c} /\ c \in In(from)
  BY DEF In, TypeOK
<1>2. IsFiniteSet(In(to)) /\ IsFiniteSet(In(from))
  BY CallersAreCounted
<1>3. Cardinality(In(to) \cup {c}) = Cardinality(In(to)) + 1
  BY <1>1, <1>2, FS_AddElement
<1>4. Cardinality(In(from) \ {c}) = Cardinality(In(from)) - 1
  BY <1>1, <1>2, FS_RemoveElement
<1>5. QED
  BY <1>1, <1>3, <1>4

LEMMA OthersStay ==
  ASSUME TypeOK, NEW c \in Callers, NEW CONSTANT to, NEW CONSTANT s,
         s # to, call[c] # s, call' = [call EXCEPT ![c] = to]
  PROVE  In(s)' = In(s)
BY DEF In, TypeOK

LEMMA InitEstablishes == Init => IInv
<1> SUFFICES ASSUME Init PROVE IInv
  OBVIOUS
<1>1. In("using") = {} /\ In("opening") = {}
  BY DEF Init, In
<1>2. TypeOK
  <2>1. connections \in Seq(Conns)
    BY EmptyHolds DEF Init
  <2>2. active \in Int /\ late \subseteq In("waiting")
    BY DEF Init
  <2>3. QED
    BY <2>1, <2>2 DEF Init, TypeOK
<1>3. OneOwner
  BY PoolAssumption, EmptyHolds DEF Init, OneOwner, NoRepeat
<1>4. ActiveIsHonest /\ SequentialOpensRespectMax
  <2>1. Cardinality(In("using")) = 0 /\ Cardinality(In("opening")) = 0
    BY <1>1, FS_EmptySet
  <2>2. Len(connections) = 0 /\ active = 0
    BY DEF Init
  <2>3. QED
    BY <2>1, <2>2, PoolAssumption
       DEF ActiveIsHonest, SequentialOpensRespectMax, totalConnections
<1>5. OnlyRefusedAreForgotten
  BY DEF Init, OnlyRefusedAreForgotten, Connected
<1>6. QED
  BY <1>2, <1>3, <1>4, <1>5 DEF IInv

-----------------------------------------------------------------------------
(* The ways a turn of acquire() ends *)

LEMMA TakePreserves ==
  ASSUME IInv, NEW c \in Callers, call[c] \in {"idle", "waiting"},
         Take(c), UNCHANGED closer, late' = late, c \notin late
  PROVE  IInv'
<1> USE DEF IInv
<1>1. PICK i \in DOMAIN connections :
        /\ Connected(connections[i])
        /\ \A j \in DOMAIN connections : j > i => ~Connected(connections[j])
        /\ connections' = SubSeq(connections, 1, i - 1)
        /\ conn' = [conn EXCEPT ![c] = connections[i]]
  BY DEF Take
<1>2. /\ Len(connections) \in Nat
      /\ DOMAIN connections = 1..Len(connections)
      /\ i \in 1..Len(connections)
      /\ connections[i] \in Conns
      /\ connections[i] \in Range(connections)
  BY DEF TypeOK, Range
<1>3. /\ connections' \in Seq(Conns)
      /\ Len(connections') = i - 1
      /\ Range(connections') = {connections[j] : j \in 1..(i - 1)}
      /\ Range(connections') \subseteq Range(connections)
      /\ NoRepeat(connections')
      /\ connections[i] \notin Range(connections')
  <2>1. connections \in Seq(Conns) /\ NoRepeat(connections)
    BY DEF TypeOK, OneOwner, NoRepeat
  <2>2. i \in 1..Len(connections) /\ connections' = SubSeq(connections, 1, i - 1)
    BY <1>1, <1>2
  <2>3. QED
    BY <2>1, <2>2, PrefixHolds
<1>4. /\ In("using")' = In("using") \cup {c}
      /\ In("waiting")' = In("waiting") \ {c}
      /\ In("opening")' = In("opening")
      /\ Cardinality(In("using")') = Cardinality(In("using")) + 1
  <2>0. TypeOK
    OBVIOUS
  <2>1. call' = [call EXCEPT ![c] = "using"]
    BY DEF Take
  <2>2. CASE call[c] = "idle"
    <3>1. c \notin In("waiting")
      BY <2>2 DEF In
    <3>2. In("waiting")' = In("waiting") /\ In("opening")' = In("opening")
      BY <2>0, <2>1, <2>2, OthersStay
    <3>3. /\ In("using")' = In("using") \cup {c}
          /\ Cardinality(In("using")') = Cardinality(In("using")) + 1
      BY <2>0, <2>1, <2>2, CallerMoves
    <3>4. QED
      BY <3>1, <3>2, <3>3
  <2>3. CASE call[c] = "waiting"
    BY <2>1, <2>3, <2>0, CallerMoves, OthersStay
  <2>4. QED
    BY <2>2, <2>3
<1>5. active' = active + 1 /\ UNCHANGED <<socket, closer, late, overlapped>>
      /\ call' = [call EXCEPT ![c] = "using"]
  BY DEF Take
<1>6. TypeOK'
  BY <1>1, <1>2, <1>3, <1>4, <1>5 DEF TypeOK
<1>7. OneOwner'
  <2>1. \A d \in Callers : conn[d] # connections[i]
    BY <1>2 DEF OneOwner
  <2>2. \A d \in Callers : conn'[d] = IF d = c THEN connections[i] ELSE conn[d]
    BY <1>1 DEF TypeOK
  <2>3. \A d, e \in Callers : conn'[d] = conn'[e] /\ conn'[d] # None => d = e
    BY <2>1, <2>2 DEF OneOwner
  <2>4. \A d \in Callers : conn'[d] \notin Range(connections')
    BY <1>3, <2>2 DEF OneOwner
  <2>5. \A d \in Callers : conn'[d] # None <=> call'[d] \in {"opening", "using"}
    BY <1>2, <1>5, <2>2, PoolAssumption DEF OneOwner, TypeOK
  <2>6. QED
    BY <1>3, <2>3, <2>4, <2>5 DEF OneOwner, NoRepeat
<1>8. ActiveIsHonest'
  BY <1>4, <1>5 DEF ActiveIsHonest
<1>9. SequentialOpensRespectMax'
  BY <1>2, <1>3, <1>4, <1>5, CallersAreCounted, PoolAssumption, SMTT(30)
     DEF SequentialOpensRespectMax, totalConnections, TypeOK
<1>10. OnlyRefusedAreForgotten'
  <2> SUFFICES ASSUME closer = "idle", NEW k \in Conns
               PROVE  /\ socket[k] = "open" => Reachable(k)'
                      /\ socket[k] = "refused" => ~Reachable(k)'
    BY <1>5 DEF OnlyRefusedAreForgotten, TypeOK
  <2>0. /\ socket[k] = "open" => Reachable(k)
        /\ socket[k] = "refused" => ~Reachable(k)
    BY DEF OnlyRefusedAreForgotten
  <2>1. CASE socket[k] = "open" /\ k \in Range(connections)
    <3>1. PICK j \in 1..Len(connections) : connections[j] = k
      BY <1>2, <2>1 DEF Range
    <3>2. j <= i
      BY <1>1, <1>2, <2>1, <3>1 DEF Connected
    <3>3. CASE j = i
      BY <1>1, <2>1, <3>1, <3>3 DEF TypeOK, Reachable
    <3>4. CASE j < i
      <4>1. k \in Range(connections')
        BY <1>2, <1>3, <3>1, <3>4
      <4>2. QED
        BY <2>1, <4>1 DEF Reachable
    <3>5. QED
      BY <1>2, <2>1, <3>2, <3>3, <3>4
  <2>2. CASE socket[k] = "open" /\ \E d \in Callers : conn[d] = k
    <3>1. PICK d \in Callers : conn[d] = k
      BY <2>2
    <3>2. d # c
      BY <3>1, PoolAssumption DEF OneOwner
    <3>3. QED
      BY <1>1, <2>2, <3>1, <3>2 DEF TypeOK, Reachable
  <2>3. CASE socket[k] = "refused"
    <3>1. \A d \in Callers : conn'[d] = IF d = c THEN connections[i] ELSE conn[d]
      BY <1>1 DEF TypeOK
    <3>2. connections[i] # k
      BY <1>1, <2>3 DEF Connected
    <3>3. QED
      BY <1>3, <2>0, <2>3, <3>1, <3>2 DEF Reachable
  <2>4. QED
    BY <2>0, <2>1, <2>2, <2>3 DEF Reachable
<1>11. QED
  BY <1>6, <1>7, <1>8, <1>9, <1>10

LEMMA OpenPreserves ==
  ASSUME IInv, NEW c \in Callers, call[c] \in {"idle", "waiting"},
         Open(c), UNCHANGED closer, late' = late, c \notin late
  PROVE  IInv'
<1> USE DEF IInv
<1>1. PICK k \in Conns : Unused(k) /\ conn' = [conn EXCEPT ![c] = k]
  BY DEF Open
<1>2. /\ connections' = <<>>
      /\ call' = [call EXCEPT ![c] = "opening"]
      /\ UNCHANGED <<active, socket, closer, late>>
      /\ active < MaxSize
      /\ overlapped' = (overlapped \/ In("opening") # {})
  BY DEF Open
<1>3. /\ In("opening")' = In("opening") \cup {c}
      /\ In("waiting")' = In("waiting") \ {c}
      /\ In("using")' = In("using")
  BY <1>2, CallerMoves DEF TypeOK, In
<1>4. /\ connections' \in Seq(Conns)
      /\ Range(connections') = {}
      /\ NoRepeat(connections')
      /\ Len(connections') = 0
  BY <1>2, EmptyHolds
<1>5. TypeOK'
  BY <1>1, <1>2, <1>3, <1>4 DEF TypeOK
<1>6. OneOwner'
  <2>1. \A d \in Callers : conn'[d] = IF d = c THEN k ELSE conn[d]
    BY <1>1 DEF TypeOK
  <2>2. \A d, e \in Callers : conn'[d] = conn'[e] /\ conn'[d] # None => d = e
    BY <1>1, <2>1 DEF OneOwner, Unused
  <2>3. \A d \in Callers : conn'[d] # None <=> call'[d] \in {"opening", "using"}
    BY <1>2, <2>1, PoolAssumption DEF OneOwner, TypeOK
  <2>4. QED
    BY <1>4, <2>2, <2>3 DEF OneOwner, NoRepeat
<1>7. ActiveIsHonest'
  BY <1>2, <1>3 DEF ActiveIsHonest
<1>8. SequentialOpensRespectMax'
  <2> SUFFICES ASSUME ~overlapped'
               PROVE  active' + Cardinality(In("opening")') <= MaxSize
    BY <1>2, <1>4 DEF SequentialOpensRespectMax, totalConnections, TypeOK
  <2>1. In("opening")' = {c}
    BY <1>2, <1>3 DEF TypeOK
  <2>2. Cardinality(In("opening")') = 1
    BY <2>1, FS_Singleton
  <2>3. QED
    BY <1>2, <2>2, PoolAssumption DEF TypeOK
<1>9. OnlyRefusedAreForgotten'
  <2> SUFFICES ASSUME closer = "idle", NEW m \in Conns
               PROVE  /\ socket[m] = "open" => Reachable(m)'
                      /\ socket[m] = "refused" => ~Reachable(m)'
    BY <1>2 DEF OnlyRefusedAreForgotten, TypeOK
  <2>1. CASE socket[m] = "open"
    <3>1. m \notin Range(connections)
      BY <2>1 DEF Open, NoneIsConnected, Connected, Range
    <3>2. PICK d \in Callers : conn[d] = m
      BY <2>1, <3>1 DEF OnlyRefusedAreForgotten, Reachable
    <3>3. d # c
      BY <3>2, PoolAssumption DEF OneOwner
    <3>4. QED
      BY <1>1, <2>1, <3>2, <3>3 DEF TypeOK, Reachable
  <2>2. CASE socket[m] = "refused"
    <3>1. \A d \in Callers : conn'[d] = IF d = c THEN k ELSE conn[d]
      BY <1>1 DEF TypeOK
    <3>2. ~Reachable(m) /\ m # k
      BY <1>1, <2>2 DEF OnlyRefusedAreForgotten, Unused
    <3>3. QED
      BY <1>4, <2>2, <3>1, <3>2 DEF Reachable
  <2>3. QED
    BY <2>1, <2>2
<1>10. QED
  BY <1>5, <1>6, <1>7, <1>8, <1>9

LEMMA WaitPreserves ==
  ASSUME IInv, NEW c \in Callers, call[c] \in {"idle", "waiting"},
         Wait(c), UNCHANGED closer, late' = late, c \notin late
  PROVE  IInv'
<1> USE DEF IInv
<1>1. /\ connections' = <<>>
      /\ call' = [call EXCEPT ![c] = "waiting"]
      /\ UNCHANGED <<active, socket, conn, closer, late, overlapped>>
  BY DEF Wait
<1>2. /\ In("opening")' = In("opening")
      /\ In("using")' = In("using")
      /\ In("waiting") \subseteq In("waiting")'
  BY <1>1 DEF TypeOK, In
<1>3. /\ connections' \in Seq(Conns)
      /\ Range(connections') = {}
      /\ NoRepeat(connections')
      /\ Len(connections') = 0
  BY <1>1, EmptyHolds
<1>4. TypeOK'
  BY <1>1, <1>2, <1>3 DEF TypeOK
<1>5. OneOwner'
  <2>1. \A d \in Callers : conn'[d] # None <=> call'[d] \in {"opening", "using"}
    BY <1>1 DEF OneOwner, TypeOK
  <2>2. QED
    BY <1>1, <1>3, <2>1 DEF OneOwner, NoRepeat
<1>6. ActiveIsHonest'
  BY <1>1, <1>2 DEF ActiveIsHonest
<1>7. SequentialOpensRespectMax'
  BY <1>1, <1>2, <1>3, CallersAreCounted, PoolAssumption
     DEF SequentialOpensRespectMax, totalConnections, TypeOK
<1>8. OnlyRefusedAreForgotten'
  <2> SUFFICES ASSUME closer = "idle", NEW k \in Conns
               PROVE  /\ socket[k] = "open" => Reachable(k)'
                      /\ socket[k] = "refused" => ~Reachable(k)'
    BY <1>1 DEF OnlyRefusedAreForgotten, TypeOK
  <2>1. ASSUME socket[k] = "open" PROVE Reachable(k)'
    <3>1. k \notin Range(connections)
      BY <2>1 DEF Wait, NoneIsConnected, Connected, Range
    <3>2. QED
      BY <1>1, <2>1, <3>1 DEF OnlyRefusedAreForgotten, Reachable
  <2>2. ASSUME socket[k] = "refused" PROVE ~Reachable(k)'
    BY <1>1, <1>3, <2>2 DEF OnlyRefusedAreForgotten, Reachable
  <2>3. QED
    BY <2>1, <2>2
<1>9. QED
  BY <1>4, <1>5, <1>6, <1>7, <1>8

LEMMA TurnPreserves ==
  ASSUME IInv, NEW c \in Callers, Acquire(c) \/ TryAgain(c)
  PROVE  IInv'
<1>1. call[c] \in {"idle", "waiting"} /\ c \notin late
  BY DEF Acquire, TryAgain, IInv, TypeOK, In
<1>2. QED
  BY <1>1, TakePreserves, OpenPreserves, WaitPreserves DEF Acquire, TryAgain, Turn

-----------------------------------------------------------------------------
(* The other steps *)

LEMMA DeadlinePreserves ==
  ASSUME IInv, NEW c \in Callers, DeadlinePasses(c) \/ GivesUp(c)
  PROVE  IInv'
<1> USE DEF IInv
<1>1. UNCHANGED <<connections, active, socket, conn, closer, overlapped>>
  BY DEF DeadlinePasses, GivesUp
<1>2. /\ In("opening")' = In("opening")
      /\ In("using")' = In("using")
      /\ late' \subseteq In("waiting")'
      /\ call' \in [Callers -> {"idle", "waiting", "opening", "using"}]
  BY DEF DeadlinePasses, GivesUp, TypeOK, In
<1>3. \A d \in Callers :
        call'[d] \in {"opening", "using"} <=> call[d] \in {"opening", "using"}
  BY DEF DeadlinePasses, GivesUp, TypeOK
<1>4. TypeOK'
  BY <1>1, <1>2 DEF TypeOK
<1>5. OneOwner'
  BY <1>1, <1>3 DEF OneOwner
<1>6. ActiveIsHonest' /\ SequentialOpensRespectMax' /\ OnlyRefusedAreForgotten'
  BY <1>1, <1>2 DEF ActiveIsHonest, SequentialOpensRespectMax, OnlyRefusedAreForgotten,
                    totalConnections, Reachable
<1>7. QED
  BY <1>4, <1>5, <1>6

LEMMA OpenedPreserves ==
  ASSUME IInv, NEW c \in Callers, Opened(c)
  PROVE  IInv'
<1> USE DEF IInv, Opened
<1>1. /\ In("using")' = In("using") \cup {c}
      /\ In("waiting")' = In("waiting")
      /\ Cardinality(In("using")') = Cardinality(In("using")) + 1
      /\ Cardinality(In("opening")') = Cardinality(In("opening")) - 1
  <2>0. TypeOK
    OBVIOUS
  <2>1. call[c] = "opening" /\ call' = [call EXCEPT ![c] = "using"]
    OBVIOUS
  <2>2. QED
    BY <2>1, <2>0, CallerMoves, OthersStay, ZenonT(60)
<1>2. conn[c] \in Conns
  BY DEF OneOwner, TypeOK
<1>3. TypeOK'
  <2>1. /\ socket' \in [Conns -> {"closed", "open", "refused"}]
        /\ call' \in [Callers -> {"idle", "waiting", "opening", "using"}]
        /\ active' \in Int
    BY <1>2 DEF TypeOK
  <2>2. late' \subseteq In("waiting")'
    BY <1>1 DEF TypeOK
  <2>3. QED
    BY <2>1, <2>2 DEF TypeOK
<1>4. OneOwner'
  BY DEF OneOwner, TypeOK
<1>5. ActiveIsHonest'
  BY <1>1 DEF ActiveIsHonest
<1>6. SequentialOpensRespectMax'
  BY <1>1, CallersAreCounted
     DEF SequentialOpensRespectMax, totalConnections, TypeOK
<1>7. OnlyRefusedAreForgotten'
  <2>1. \A k \in Conns : Reachable(k)' <=> Reachable(k)
    BY DEF Reachable
  <2>2. Reachable(conn[c])
    BY DEF Reachable
  <2>3. \A k \in Conns : socket'[k] = IF k = conn[c] THEN "open" ELSE socket[k]
    BY <1>2 DEF TypeOK
  <2>4. QED
    BY <1>2, <2>1, <2>2, <2>3 DEF OnlyRefusedAreForgotten
<1>8. QED
  BY <1>3, <1>4, <1>5, <1>6, <1>7

LEMMA OpenFailsPreserves ==
  ASSUME IInv, NEW c \in Callers, OpenFails(c)
  PROVE  IInv'
<1> USE DEF IInv, OpenFails
<1>1. /\ In("using")' = In("using")
      /\ In("waiting")' = In("waiting")
      /\ Cardinality(In("opening")') = Cardinality(In("opening")) - 1
  <2>0. TypeOK
    OBVIOUS
  <2>1. call[c] = "opening" /\ call' = [call EXCEPT ![c] = "idle"]
    OBVIOUS
  <2>2. Cardinality(In("opening")') = Cardinality(In("opening")) - 1
    BY <2>1, <2>0, CallerMoves
  <2>3. In("using")' = In("using") /\ In("waiting")' = In("waiting")
    BY <2>1, <2>0, OthersStay
  <2>4. QED
    BY <2>2, <2>3
<1>2. conn[c] \in Conns
  BY DEF OneOwner, TypeOK
<1>3. TypeOK'
  BY <1>1 DEF TypeOK
<1>4. OneOwner'
  <2>1. \A d \in Callers : conn'[d] = IF d = c THEN None ELSE conn[d]
    BY DEF TypeOK
  <2>2. None \notin Range(connections)
    BY PoolAssumption DEF TypeOK, Range
  <2>3. \A d \in Callers : conn'[d] # None <=> call'[d] \in {"opening", "using"}
    BY <2>1 DEF OneOwner, TypeOK
  <2>4. QED
    BY <2>1, <2>2, <2>3 DEF OneOwner
<1>5. ActiveIsHonest'
  BY <1>1 DEF ActiveIsHonest
<1>6. SequentialOpensRespectMax'
  BY <1>1, CallersAreCounted, PoolAssumption
     DEF SequentialOpensRespectMax, totalConnections, TypeOK
<1>7. OnlyRefusedAreForgotten'
  <2> SUFFICES ASSUME closer = "idle", NEW k \in Conns
               PROVE  socket'[k] # "closed" => (socket'[k] = "refused" <=> ~Reachable(k)')
    BY DEF OnlyRefusedAreForgotten
  <2>0. \A d \in Callers : conn'[d] = IF d = c THEN None ELSE conn[d]
    BY DEF TypeOK
  <2>1. CASE k = conn[c]
    <3>1. socket'[k] \in {"closed", "refused"}
      BY <1>2, <2>1 DEF TypeOK
    <3>2. k \notin Range(connections) /\ \A d \in Callers : conn'[d] # k
      BY <1>2, <2>0, <2>1, PoolAssumption DEF OneOwner
    <3>3. QED
      BY <3>1, <3>2 DEF Reachable
  <2>2. CASE k # conn[c]
    <3>1. socket'[k] = socket[k]
      BY <1>2, <2>2 DEF TypeOK
    <3>2. Reachable(k)' <=> Reachable(k)
      BY <2>0, <2>2, PoolAssumption DEF Reachable
    <3>3. QED
      BY <3>1, <3>2 DEF OnlyRefusedAreForgotten
  <2>3. QED
    BY <2>1, <2>2
<1>8. QED
  BY <1>3, <1>4, <1>5, <1>6, <1>7

LEMMA ReleasePreserves ==
  ASSUME IInv, NEW c \in Callers, Release(c)
  PROVE  IInv'
<1> USE DEF IInv, Release
<1>1. /\ In("opening")' = In("opening")
      /\ In("waiting")' = In("waiting")
      /\ Cardinality(In("using")') = Cardinality(In("using")) - 1
  <2>0. TypeOK
    OBVIOUS
  <2>1. call[c] = "using" /\ call' = [call EXCEPT ![c] = "idle"]
    OBVIOUS
  <2>2. QED
    BY <2>1, <2>0, CallerMoves, OthersStay, ZenonT(60)
<1>2. conn[c] \in Conns /\ conn[c] \notin Range(connections)
  BY DEF OneOwner, TypeOK
<1>3. NoRepeat(connections)
  BY DEF OneOwner, NoRepeat
<1>4. /\ connections' \in Seq(Conns)
      /\ NoRepeat(connections')
      /\ Len(connections') <= Len(connections) + 1
      /\ Len(connections) \in Nat /\ Len(connections') \in Nat
      /\ Range(connections) \subseteq Range(connections')
      /\ Range(connections') \subseteq Range(connections) \cup {conn[c]}
      /\ Connected(conn[c]) => conn[c] \in Range(connections')
  <2>1. CASE Connected(conn[c])
    BY <1>2, <1>3, <2>1, AppendHolds DEF TypeOK
  <2>2. CASE ~Connected(conn[c])
    BY <1>3, <2>2 DEF TypeOK
  <2>3. QED
    BY <2>1, <2>2
<1>5. TypeOK'
  BY <1>1, <1>4 DEF TypeOK
<1>6. OneOwner'
  <2>1. \A d \in Callers : conn'[d] = IF d = c THEN None ELSE conn[d]
    BY DEF TypeOK
  <2>2. None \notin Range(connections')
    BY <1>4, PoolAssumption DEF TypeOK, Range
  <2>3. \A d \in Callers : conn'[d] \notin Range(connections')
    BY <1>2, <1>4, <2>1, <2>2, PoolAssumption DEF OneOwner
  <2>4. \A d \in Callers : conn'[d] # None <=> call'[d] \in {"opening", "using"}
    BY <2>1 DEF OneOwner, TypeOK
  <2>5. QED
    BY <1>4, <2>1, <2>3, <2>4 DEF OneOwner, NoRepeat
<1>7. ActiveIsHonest'
  BY <1>1, CallersAreCounted DEF ActiveIsHonest, TypeOK
<1>8. SequentialOpensRespectMax'
  BY <1>1, <1>4, CallersAreCounted, PoolAssumption
     DEF SequentialOpensRespectMax, totalConnections, TypeOK
<1>9. OnlyRefusedAreForgotten'
  <2> SUFFICES ASSUME closer = "idle", NEW k \in Conns
               PROVE  socket[k] # "closed" => (socket[k] = "refused" <=> ~Reachable(k)')
    BY DEF OnlyRefusedAreForgotten
  <2>0. \A d \in Callers : conn'[d] = IF d = c THEN None ELSE conn[d]
    BY DEF TypeOK
  <2>1. CASE k = conn[c]
    <3>1. Reachable(k)
      BY <2>1 DEF Reachable
    <3>2. socket[k] # "refused"
      BY <3>1 DEF OnlyRefusedAreForgotten
    <3>3. socket[k] = "open" => Reachable(k)'
      BY <1>4, <2>1 DEF Connected, Reachable
    <3>4. QED
      BY <3>2, <3>3 DEF TypeOK
  <2>2. CASE k # conn[c]
    <3>1. Reachable(k)' <=> Reachable(k)
      BY <1>4, <2>0, <2>2, PoolAssumption DEF Reachable
    <3>2. QED
      BY <3>1 DEF OnlyRefusedAreForgotten
  <2>3. QED
    BY <2>1, <2>2
<1>10. QED
  BY <1>5, <1>6, <1>7, <1>8, <1>9

LEMMA ClosingPreserves ==
  ASSUME IInv, CloseAll \/ CloseAllEnds \/ \E k \in Conns : PeerCloses(k)
  PROVE  IInv'
<1> USE DEF IInv, CloseAll, CloseAllEnds, PeerCloses
<1>1. In("using")' = In("using") /\ In("opening")' = In("opening")
      /\ In("waiting")' = In("waiting")
  BY DEF In
<1>2. connections' = connections \/ connections' = <<>>
  OBVIOUS
<1>3. TypeOK'
  <2>1. connections' \in Seq(Conns)
    BY <1>2, EmptyHolds DEF TypeOK
  <2>2. QED
    BY <1>1, <2>1 DEF TypeOK
<1>4. OneOwner'
  BY <1>2, EmptyHolds DEF OneOwner, NoRepeat
<1>5. ActiveIsHonest' /\ SequentialOpensRespectMax'
  BY <1>1 DEF ActiveIsHonest, SequentialOpensRespectMax, totalConnections
<1>6. OnlyRefusedAreForgotten'
  BY DEF OnlyRefusedAreForgotten, Reachable, TypeOK
<1>7. QED
  BY <1>3, <1>4, <1>5, <1>6

LEMMA StepPreserves == IInv /\ [Next]_vars => IInv'
<1> SUFFICES ASSUME IInv, [Next]_vars PROVE IInv'
  OBVIOUS
<1>1. ASSUME NEW c \in Callers, Acquire(c) \/ TryAgain(c) PROVE IInv'
  BY <1>1, TurnPreserves
<1>2. ASSUME NEW c \in Callers, DeadlinePasses(c) \/ GivesUp(c) PROVE IInv'
  BY <1>2, DeadlinePreserves
<1>3. ASSUME NEW c \in Callers, Opened(c) PROVE IInv'
  BY <1>3, OpenedPreserves
<1>4. ASSUME NEW c \in Callers, OpenFails(c) PROVE IInv'
  BY <1>4, OpenFailsPreserves
<1>5. ASSUME NEW c \in Callers, Release(c) PROVE IInv'
  BY <1>5, ReleasePreserves
<1>6. CASE CloseAll \/ CloseAllEnds \/ \E k \in Conns : PeerCloses(k)
  BY <1>6, ClosingPreserves
<1>7. CASE UNCHANGED vars
  BY <1>7 DEF vars, IInv, TypeOK, OneOwner, ActiveIsHonest, In,
              SequentialOpensRespectMax, OnlyRefusedAreForgotten,
              totalConnections, Reachable
<1>8. QED
  BY <1>1, <1>2, <1>3, <1>4, <1>5, <1>6, <1>7 DEF Next

LEMMA Inductive == Safety => []IInv
  BY InitEstablishes, StepPreserves, PTL DEF Safety

-----------------------------------------------------------------------------
(* The theorems *)

\* Every field of the pool always holds a value of its type (pool.ts:5-18).
THEOREM TypeCorrect == Safety => []TypeOK
<1>1. IInv => TypeOK
  BY DEF IInv
<1>2. QED
  BY <1>1, Inductive, PTL

\* No connection is ever shared by two callers, or in use and in the list, for
\* any number of callers, lost connections and failed handshakes.
THEOREM NoConnectionIsShared == Safety => []OneOwner
<1>1. IInv => OneOwner
  BY DEF IInv
<1>2. QED
  BY <1>1, Inductive, PTL

\* #active is the number of connections in use until closeAll() ends.
THEOREM NoSlotIsLost == Safety => []ActiveIsHonest
<1>1. IInv => ActiveIsHonest
  BY DEF IInv
<1>2. QED
  BY <1>1, Inductive, PTL

\* The pool exceeds its maximum only after two connections were opened at once.
THEOREM OnlyBurstsOvershoot == Safety => []SequentialOpensRespectMax
<1>1. IInv => SequentialOpensRespectMax
  BY DEF IInv
<1>2. QED
  BY <1>1, Inductive, PTL

\* Until closeAll() the sockets that are up and out of everyone's reach are those
\* whose handshake was refused, and no such connection is in the list or in use.
THEOREM OnlyRefusedSocketsLeak == Safety => []OnlyRefusedAreForgotten
<1>1. IInv => OnlyRefusedAreForgotten
  BY DEF IInv
<1>2. QED
  BY <1>1, Inductive, PTL

\* acquire() returns only connections that are up at that moment.
THEOREM AcquireChecksTheSocket == Safety => HandedOverConnected
<1> DEFINE Checked == \A c \in Callers :
                        call[c] # "using" /\ call'[c] = "using"
                          => socket'[conn'[c]] = "open"
<1>1. ASSUME IInv, [Next]_vars, NEW c \in Callers,
             call[c] # "using", call'[c] = "using"
      PROVE  socket'[conn'[c]] = "open"
  <2>1. CASE \E d \in Callers : Acquire(d) \/ TryAgain(d)
    <3>1. PICK d \in Callers : Turn(d)
      BY <2>1 DEF Acquire, TryAgain
    <3>2. Take(d) /\ d = c
      BY <1>1, <3>1 DEF Turn, Take, Open, Wait, IInv, TypeOK
    <3>3. QED
      BY <3>2, <1>1 DEF Take, Connected, IInv, TypeOK
  <2>2. CASE \E d \in Callers : Opened(d)
    <3>1. PICK d \in Callers : Opened(d)
      BY <2>2
    <3>2. d = c
      BY <1>1, <3>1 DEF Opened, IInv, TypeOK
    <3>3. conn[c] \in Conns
      BY <3>1, <3>2, <1>1 DEF Opened, IInv, OneOwner, TypeOK
    <3>4. QED
      BY <3>1, <3>2, <3>3, <1>1 DEF Opened, IInv, TypeOK
  <2>3. QED
    BY <1>1, <2>1, <2>2 DEF Next, vars, DeadlinePasses, GivesUp, OpenFails, Release,
                            CloseAll, CloseAllEnds, PeerCloses, IInv, TypeOK
<1>2. IInv /\ [Next]_vars => [Checked]_vars
  BY <1>1
<1>3. QED
  BY <1>2, Inductive, PTL DEF Safety, HandedOverConnected
=============================================================================
