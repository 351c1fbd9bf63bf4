--------------------------- MODULE Notices_proofs ---------------------------
(***************************************************************************)
(* The notification sweep, for any positions, bidders, invocations and     *)
(* chain.  PassInv says what an invocation carries through its two passes; *)
(* it holds of any behaviour, and the three results build on it: what is   *)
(* behind the cursor was handled (SkipInv), a watch ends with its position *)
(* or with a warning (WarnInv), and whoever was outbid was told (TellInv). *)
(***************************************************************************)
EXTENDS NotifySweep, FiniteSetTheorems, TLAPS

-----------------------------------------------------------------------------
(* The types. *)

Openings == {Opened(p) : p \in Positions}
BidEvents == {Bid(w, n) : w \in Bidders, n \in 1..MaxBids}
PositionClosings == UNION {Closings(p) : p \in Positions}
AllEvents == Openings \cup PositionClosings \cup BidEvents \cup AuctionClosings
Kinds ==
  {"offer.received", "offer.refunded", "offer.refundable", "offer.settlement-ready", "auction.outbid",
   "auction.won", "auction.refunded"}
Keys == [wallet : Bidders \cup {beneficiary, owner}, kind : Kinds, entity : Entities]

SendPcs == {"send", "insert", "mail", "mark"}
Pcs == {"attach", "cursor", "scan", "event", "holder", "bid", "deadlines", "due", "resolve"} \cup SendPcs
Passes ==
  [pc : Pcs, head : Nat, from : Int, position : Int, upto : Int, logs : Seq(AllEvents), sends : Seq(Keys),
   profile : BOOLEAN, due : Seq(Watches)]

Watched == {w \in Watches : watches[w] # "none"}
\* An invocation in the log pass has nothing due; one that handles an event has
\* it at the head of its logs; one that sends has something to send.
InLogs(x) == x.pc \in {"event", "holder", "bid"} \/ (x.pc \in SendPcs /\ x.due = <<>>)
PassSound(x) ==
  /\ x \in Passes
  /\ x.pc \in {"attach", "cursor", "scan", "event", "holder", "bid", "deadlines"} => x.due = <<>>
  /\ x.pc \in {"due", "resolve"} => x.due # <<>>
  /\ InLogs(x) /\ x.pc # "event" => x.logs # <<>>
  /\ x.pc \in SendPcs => x.sends # <<>>
  /\ x.pc = "holder" => Head(x.logs) \in Openings
ChainTyped == blocks \in Seq(AllEvents \cup {None})
PassInv ==
  /\ ChainTyped /\ cursor \in Int \cup {None}
  /\ watches \in [Watches -> {"none", "open", "resolved"}] /\ IsFiniteSet(Watched)
  /\ run = [r \in Runs |-> run[r]] /\ \A r \in Runs : run[r] = Idle \/ PassSound(run[r])

-----------------------------------------------------------------------------
(* The library's sequences of sets, and the logs of a range. *)

LEMMA SeqOfSet ==
  ASSUME NEW S, IsFiniteSet(S)
  PROVE  /\ SetToSeq(S) \in Seq(S) /\ Len(SetToSeq(S)) = Cardinality(S)
         /\ \A s \in S : \E i \in DOMAIN SetToSeq(S) : SetToSeq(S)[i] = s
         /\ SetToSeq(S) = <<>> <=> S = {}
<1>. DEFINE n == Cardinality(S)
            f == SetToSeq(S)
<1>1. n \in Nat /\ ExistsBijection(1..n, S)  BY FS_CardinalityType
<1>2. \E g \in [1..n -> S] : IsInjective(g)
  BY <1>1 DEF ExistsBijection, Bijection, Injection
<1>3. f \in [1..n -> S] /\ IsInjective(f)  BY <1>2 DEF SetToSeq
<1>. HIDE DEF f
<1>4. f \in Injection(1..n, S)  BY <1>3 DEF Injection
<1>5. Cardinality(1..n) = n  BY <1>1, FS_Interval
<1>6. f \in Surjection(1..n, S)  BY <1>4, <1>5, FS_Injection
<1>7. \A s \in S : \E i \in 1..n : f[i] = s  BY <1>6 DEF Surjection
<1>8. n = 0 <=> S = {}  BY FS_EmptySet
<1>9. f \in Seq(S) /\ Len(f) = n /\ DOMAIN f = 1..n  BY <1>1, <1>3
<1>. QED  BY <1>1, <1>7, <1>8, <1>9 DEF f

\* Which of the set b is, counted from below.
Count(B, b) == Cardinality({c \in B : c <= b})

LEMMA CountsGrow ==
  ASSUME NEW B, B \subseteq Int, IsFiniteSet(B)
  PROVE  /\ \A b \in B : Count(B, b) \in 1..Cardinality(B)
         /\ \A a, b \in B : a < b => Count(B, a) < Count(B, b)
         /\ \A i \in 1..Cardinality(B) : \E b \in B : Count(B, b) = i
<1>1. ASSUME NEW b \in B  PROVE IsFiniteSet({c \in B : c <= b}) /\ Count(B, b) \in 1..Cardinality(B)
  <2>. DEFINE S == {c \in B : c <= b}
  <2>1. S \in SUBSET B /\ b \in S  BY <1>1
  <2>2. IsFiniteSet(S) /\ Cardinality(S) <= Cardinality(B)  BY <2>1, FS_Subset
  <2>3. Cardinality(S) # 0  BY <2>1, <2>2, FS_EmptySet
  <2>. HIDE DEF S
  <2>4. Cardinality(S) \in Nat /\ Cardinality(B) \in Nat  BY <2>2, FS_CardinalityType
  <2>5. Cardinality(S) \in 1..Cardinality(B)  BY <2>2, <2>3, <2>4
  <2>. QED  BY <2>2, <2>5 DEF S, Count
<1>2. ASSUME NEW a \in B, NEW b \in B, a < b  PROVE Count(B, a) < Count(B, b)
  <2>. DEFINE S == {c \in B : c <= a}
              T == {c \in B : c <= b}
  <2>1. IsFiniteSet(T) /\ b \in T  BY <1>1
  <2>2. S \in SUBSET (T \ {b})
    <3>1. \A c \in S : c \in B /\ c <= a /\ c \in Int /\ a \in Int /\ b \in Int  OBVIOUS
    <3>2. \A c \in S : c \in B /\ c <= b /\ c # b  BY <1>2, <3>1
    <3>. QED  BY <3>2
  <2>. HIDE DEF S, T
  <2>3. IsFiniteSet(T \ {b}) /\ Cardinality(T \ {b}) = Cardinality(T) - 1  BY <2>1, FS_RemoveElement
  <2>4. IsFiniteSet(S) /\ Cardinality(S) <= Cardinality(T \ {b})  BY <2>2, <2>3, FS_Subset
  <2>5. Cardinality(S) \in Nat /\ Cardinality(T) \in Nat  BY <2>1, <2>4, FS_CardinalityType
  <2>6. Cardinality(S) < Cardinality(T)  BY <2>3, <2>4, <2>5
  <2>. QED  BY <2>6 DEF S, T, Count
<1>3. \A a, b \in B : a < b => Count(B, a) < Count(B, b)  BY <1>2
<1>4. ASSUME NEW i \in 1..Cardinality(B)  PROVE \E b \in B : Count(B, b) = i
  <2>. DEFINE n == Cardinality(B)
  <2>1. PICK f : f = [b \in B |-> Count(B, b)]  OBVIOUS
  <2>2. f \in [B -> 1..n]  BY <1>1, <2>1
  <2>3. ASSUME NEW a \in B, NEW b \in B, f[a] = f[b]  PROVE a = b
    <3>1. f[a] = Count(B, a) /\ f[b] = Count(B, b) /\ f[a] = f[b]  BY <2>1, <2>3
    <3>2. f[a] \in Int  BY <2>2
    <3>. DEFINE m == Count(B, a)
                n1 == Count(B, b)
    <3>3. m \in Int /\ n1 \in Int /\ m = n1 /\ (a < b => m < n1) /\ (b < a => n1 < m)
      BY <1>3, <3>1, <3>2
    <3>. HIDE DEF m, n1
    <3>4. ~(a < b) /\ ~(b < a)  BY <3>3
    <3>5. a \in Int /\ b \in Int  OBVIOUS
    <3>. QED  BY <3>4, <3>5
  <2>4. f \in Injection(B, 1..n)  BY <2>2, <2>3 DEF Injection, IsInjective
  <2>5. n \in Nat  BY FS_CardinalityType
  <2>6. IsFiniteSet(1..n) /\ Cardinality(1..n) = n  BY <2>5, FS_Interval
  <2>7. f \in Surjection(B, 1..n)  BY <2>4, <2>6, FS_Injection
  <2>. QED  BY <2>1, <2>7 DEF Surjection
<1>. QED  BY <1>1, <1>3, <1>4

LEMMA LogsAre ==
  ASSUME ChainTyped, NEW first \in Int, NEW last \in Int
  PROVE  /\ LogsOf(first, last) \in Seq(AllEvents)
         /\ \A i \in DOMAIN LogsOf(first, last) :
              \E b \in EventBlocks(first, last) : LogsOf(first, last)[i] = blocks[b]
         /\ \E at \in [EventBlocks(first, last) -> DOMAIN LogsOf(first, last)] :
              /\ \A b \in EventBlocks(first, last) : LogsOf(first, last)[at[b]] = blocks[b]
              /\ \A a, b \in EventBlocks(first, last) : a < b => at[a] < at[b]
              /\ \A i \in DOMAIN LogsOf(first, last) : \E b \in EventBlocks(first, last) : at[b] = i
<1>. DEFINE B == EventBlocks(first, last)
            n == Cardinality(B)
            L == LogsOf(first, last)
<1>1. DOMAIN blocks = 1..Len(blocks) /\ Len(blocks) \in Nat /\ \A b \in DOMAIN blocks : blocks[b] \in AllEvents \cup {None}
  BY DEF ChainTyped
<1>2. IsFiniteSet(1..Len(blocks)) /\ B \in SUBSET (1..Len(blocks))  BY <1>1, FS_Interval DEF EventBlocks
<1>3. IsFiniteSet(B) /\ B \subseteq Int  BY <1>2, FS_Subset
<1>4. \A b \in B : blocks[b] \in AllEvents  BY <1>1 DEF EventBlocks
<1>5. n \in Nat  BY <1>3, FS_CardinalityType
<1>6. L = [i \in 1..n |-> blocks[CHOOSE b \in B : Count(B, b) = i]]  BY DEF LogsOf, Count
<1>. HIDE DEF B, n, L
<1>7. /\ \A b \in B : Count(B, b) \in 1..n
      /\ \A a, b \in B : a < b => Count(B, a) < Count(B, b)
      /\ \A i \in 1..n : \E b \in B : Count(B, b) = i
  BY <1>3, CountsGrow DEF n
<1>8. ASSUME NEW i \in 1..n  PROVE \E b \in B : Count(B, b) = i /\ L[i] = blocks[b]
  BY <1>6, <1>7
<1>9. L \in Seq(AllEvents) /\ DOMAIN L = 1..n
  BY <1>4, <1>5, <1>6, <1>8
<1>10. ASSUME NEW b \in B  PROVE L[Count(B, b)] = blocks[b]
  <2>1. PICK c \in B : Count(B, c) = Count(B, b) /\ L[Count(B, b)] = blocks[c]  BY <1>7, <1>8
  <2>2. Count(B, b) \in Int  BY <1>7
  <2>3. ~(c < b) /\ ~(b < c)  BY <1>7, <2>1, <2>2
  <2>. QED  BY <1>3, <2>1, <2>3
<1>11. PICK at : at = [b \in B |-> Count(B, b)]  BY Zenon
<1>12. /\ at \in [B -> DOMAIN L]
       /\ \A b \in B : L[at[b]] = blocks[b]
       /\ \A a, b \in B : a < b => at[a] < at[b]
       /\ \A i \in DOMAIN L : \E b \in B : at[b] = i
  BY <1>7, <1>9, <1>10, <1>11
<1>. QED  BY <1>8, <1>9, <1>12 DEF B, L

\* The other way round: the block that a log comes from.
LEMMA LogsAt ==
  ASSUME ChainTyped, NEW first \in Int, NEW last \in Int
  PROVE  \E at \in [DOMAIN LogsOf(first, last) -> EventBlocks(first, last)] :
           /\ \A i \in DOMAIN LogsOf(first, last) : LogsOf(first, last)[i] = blocks[at[i]]
           /\ \A i, j \in DOMAIN LogsOf(first, last) : i < j => at[i] < at[j]
           /\ \A b \in EventBlocks(first, last) : \E i \in DOMAIN LogsOf(first, last) : at[i] = b
<1>. DEFINE B == EventBlocks(first, last)
            L == LogsOf(first, last)
<1>1. PICK of \in [B -> DOMAIN L] : /\ \A b \in B : L[of[b]] = blocks[b]
                                    /\ \A a, b \in B : a < b => of[a] < of[b]
                                    /\ \A i \in DOMAIN L : \E b \in B : of[b] = i
  BY LogsAre
<1>2. B \subseteq Int /\ DOMAIN L \subseteq Int
  <2>1. L \in Seq(AllEvents)  BY LogsAre
  <2>2. DOMAIN blocks \subseteq Int  BY DEF ChainTyped
  <2>. QED  BY <2>1, <2>2 DEF EventBlocks
<1>. HIDE DEF B, L
<1>3. PICK at : at = [i \in DOMAIN L |-> CHOOSE b \in B : of[b] = i]  BY Zenon
<1>4. at \in [DOMAIN L -> B] /\ \A i \in DOMAIN L : of[at[i]] = i  BY <1>1, <1>3
<1>5. \A i \in DOMAIN L : L[i] = blocks[at[i]]  BY <1>1, <1>4
<1>6. ASSUME NEW i \in DOMAIN L, NEW j \in DOMAIN L, i < j  PROVE at[i] < at[j]
  <2>1. at[i] \in Int /\ at[j] \in Int /\ of[at[i]] = i /\ of[at[j]] = j /\ i \in Int /\ j \in Int  BY <1>2, <1>4
  <2>2. at[j] < at[i] => j < i  BY <1>1, <1>4, <2>1
  <2>3. at[i] # at[j]  BY <1>6, <2>1
  <2>. QED  BY <1>6, <2>1, <2>2, <2>3
<1>7. ASSUME NEW b \in B  PROVE at[of[b]] = b
  <2>1. of[b] \in DOMAIN L /\ of[at[of[b]]] = of[b] /\ at[of[b]] \in B  BY <1>1, <1>4
  <2>2. of[b] \in Int /\ b \in Int /\ at[of[b]] \in Int  BY <1>2, <2>1
  <2>3. ~(at[of[b]] < b) /\ ~(b < at[of[b]])  BY <1>1, <2>1, <2>2
  <2>. QED  BY <2>2, <2>3
<1>8. \A b \in B : \E i \in DOMAIN L : at[i] = b  BY <1>1, <1>7
<1>. QED  BY <1>4, <1>5, <1>6, <1>8 DEF B, L

LEMMA TailOf ==
  ASSUME NEW T, NEW q \in Seq(T), q # <<>>
  PROVE  /\ Tail(q) \in Seq(T) /\ Head(q) = q[1] /\ Head(q) \in T /\ Len(q) \in Nat \ {0} /\ DOMAIN q = 1..Len(q)
         /\ Len(Tail(q)) = Len(q) - 1 /\ DOMAIN Tail(q) = 1..(Len(q) - 1)
         /\ \A i \in 1..(Len(q) - 1) : Tail(q)[i] = q[i + 1]
         /\ Len(q) # 1 => Tail(q) # <<>>
<1>1. Len(q) \in Nat /\ Len(q) # 0 /\ DOMAIN q = 1..Len(q)  OBVIOUS
<1>2. Tail(q) \in Seq(T) /\ Len(Tail(q)) = Len(q) - 1 /\ DOMAIN Tail(q) = 1..(Len(q) - 1)
      /\ \A i \in 1..(Len(q) - 1) : Tail(q)[i] = q[i + 1]
  BY <1>1
<1>3. Head(q) = q[1] /\ Head(q) \in T  BY <1>1
<1>4. Len(<<>>) = 0  OBVIOUS
<1>5. Len(q) # 1 => Tail(q) # <<>>
  <2>. DEFINE t == Tail(q)
  <2>1. t = <<>> => Len(t) = 0  BY <1>4
  <2>2. Len(t) = Len(q) - 1  BY <1>2
  <2>. HIDE DEF t
  <2>3. Len(q) # 1 => t # <<>>  BY <1>1, <2>1, <2>2
  <2>. QED  BY <2>3 DEF t
<1>. QED  BY <1>1, <1>2, <1>3, <1>5

LEMMA TailAt ==
  ASSUME NEW T, NEW q \in Seq(T), q # <<>>, NEW j \in DOMAIN q, j # 1
  PROVE  j \in Nat /\ j > 1 /\ j - 1 \in DOMAIN Tail(q) /\ Tail(q)[j - 1] = q[j]
<1>. DEFINE t == Tail(q)
            n == Len(q)
<1>1. n \in Nat \ {0} /\ DOMAIN q = 1..n /\ DOMAIN t = 1..(n - 1) /\ \A i \in 1..(n - 1) : t[i] = q[i + 1]
  BY TailOf
<1>. HIDE DEF t, n
<1>2. j \in Nat /\ j > 1 /\ j - 1 \in 1..(n - 1) /\ (j - 1) + 1 = j  BY <1>1
<1>3. t[j - 1] = q[(j - 1) + 1]  BY <1>1, <1>2
<1>. QED  BY <1>1, <1>2, <1>3 DEF t

-----------------------------------------------------------------------------
(* Steps keep the types. *)

LEMMA NotesFirst == Init => PassInv
<1>. SUFFICES ASSUME Init  PROVE PassInv  OBVIOUS
<1>1. watches = [w \in Watches |-> "none"] /\ Watched = {}  BY DEF Init, Watched
<1>2. IsFiniteSet(Watched)  BY <1>1, FS_EmptySet
<1>3. run = [r \in Runs |-> run[r]] /\ \A r \in Runs : run[r] = Idle  BY DEF Init, ScanInit
<1>4. ChainTyped /\ cursor \in Int \cup {None}  BY DEF Init, ScanInit, ChainTyped
<1>. QED  BY <1>1, <1>2, <1>3, <1>4 DEF PassInv

\* What a step does to the watches: none is forgotten, and none comes back.
WatchStep ==
  /\ watches' \in [Watches -> {"none", "open", "resolved"}] /\ IsFiniteSet(Watched')
  /\ \A w \in Watches : /\ watches[w] # "none" => watches'[w] # "none"
                        /\ watches[w] = "resolved" => watches'[w] = "resolved"

LEMMA WatchesMove ==
  ASSUME PassInv,
         \/ \E entity, wallet : watch(entity, wallet)
         \/ \E entity : resolveWatch(entity)
         \/ \E w : watches' = [watches EXCEPT ![w] = "resolved"]
         \/ UNCHANGED watches
  PROVE  WatchStep
<1>. DEFINE States == {"none", "open", "resolved"}
<1>0. watches \in [Watches -> States] /\ IsFiniteSet(Watched)  BY DEF PassInv
<1>1. ASSUME NEW w, NEW v \in States, v # "none", watches' = [watches EXCEPT ![w] = v],
             w \in Watches /\ watches[w] = "resolved" => v = "resolved"
      PROVE  WatchStep
  <2>1. watches' \in [Watches -> States]  BY <1>0, <1>1
  <2>2. Watched' \in SUBSET (Watched \cup {w})
    <3>1. \A u \in Watches : u # w => watches'[u] = watches[u]  BY <1>0, <1>1
    <3>. QED  BY <3>1 DEF Watched, Watches
  <2>3. IsFiniteSet(Watched \cup {w})  BY <1>0, FS_AddElement
  <2>4. IsFiniteSet(Watched')  BY <2>2, <2>3, FS_Subset
  <2>. QED  BY <1>0, <1>1, <2>1, <2>4 DEF WatchStep
<1>2. ASSUME NEW entity, NEW wallet, watch(entity, wallet)  PROVE WatchStep
  <2>1. CASE <<entity, wallet>> \in Watches
    <3>. DEFINE v == IF watches[<<entity, wallet>>] = "none" THEN "open" ELSE watches[<<entity, wallet>>]
    <3>1. v \in States /\ v # "none" /\ (watches[<<entity, wallet>>] = "resolved" => v = "resolved")
      BY <1>0, <2>1
    <3>2. watches' = [watches EXCEPT ![<<entity, wallet>>] = v]  BY <1>2 DEF watch
    <3>. HIDE DEF v
    <3>. QED  BY <1>1, <3>1, <3>2
  <2>2. CASE <<entity, wallet>> \notin Watches
    <3>1. watches' = watches  BY <1>0, <1>2, <2>2 DEF watch
    <3>2. Watched' = Watched  BY <3>1 DEF Watched, Watches
    <3>. QED  BY <1>0, <3>1, <3>2 DEF WatchStep
  <2>. QED  BY <2>1, <2>2
<1>3. ASSUME NEW entity, resolveWatch(entity)  PROVE WatchStep
  <2>1. watches' = [w \in Watches |-> IF w[1] = entity /\ watches[w] = "open" THEN "resolved" ELSE watches[w]]
    BY <1>3 DEF resolveWatch
  <2>2. \A w \in Watches : watches'[w] = IF w[1] = entity /\ watches[w] = "open" THEN "resolved" ELSE watches[w]
    BY <2>1
  <2>3. watches' \in [Watches -> States]  BY <1>0, <2>1, <2>2
  <2>4. Watched' = Watched  BY <2>2 DEF Watched, Watches
  <2>. QED  BY <1>0, <2>2, <2>3, <2>4 DEF WatchStep
<1>4. CASE UNCHANGED watches
  <2>1. Watched' = Watched  BY <1>4 DEF Watched, Watches
  <2>. QED  BY <1>0, <1>4, <2>1 DEF WatchStep
<1>5. ASSUME NEW w, watches' = [watches EXCEPT ![w] = "resolved"]  PROVE WatchStep
  BY <1>1, <1>5
<1>. QED  BY <1>2, <1>3, <1>4, <1>5

\* An invocation that moves on.
LEMMA PassMoves ==
  ASSUME PassInv, NEW r \in Runs, NEW y, y = Idle \/ PassSound(y), run' = [run EXCEPT ![r] = y],
         blocks' = blocks, cursor' \in Int \cup {None}, WatchStep
  PROVE  PassInv'
<1>1. \A q \in Runs : run'[q] = Idle \/ PassSound(run'[q])  BY DEF PassInv
<1>2. run' = [q \in Runs |-> run'[q]]  BY DEF PassInv
<1>. QED  BY <1>1, <1>2 DEF PassInv, WatchStep, ChainTyped

LEMMA Bigger == PassInv => \A r \in Runs : run[r].pc # "idle" => PassSound(run[r])
BY DEF PassInv, Idle

\* The first event that is left to handle is done, and its notifications go out.
LEMMA SendsMove ==
  ASSUME PassInv, NEW r \in Runs, InLogs(run[r]), run[r].logs # <<>>, run[r].due = <<>>,
         NEW keys, keys \subseteq Keys, IsFiniteSet(keys), Sends(r, keys)
  PROVE  \E y : /\ PassSound(y) /\ run' = [run EXCEPT ![r] = y]
                /\ \/ keys = {} /\ y = [run[r] EXCEPT !.pc = "event", !.logs = Tail(@)]
                   \/ keys # {} /\ y = [run[r] EXCEPT !.pc = "send", !.sends = SetToSeq(keys)]
<1>. DEFINE x == run[r]
<1>1. PassSound(x) /\ x \in Passes  BY Bigger DEF InLogs, SendPcs, PassSound
<1>2. CASE keys = {}
  <2>. DEFINE y == [x EXCEPT !.pc = "event", !.logs = Tail(x.logs)]
  <2>1. Tail(x.logs) \in Seq(AllEvents)  BY <1>1 DEF Passes
  <2>2. y \in Passes /\ y.pc = "event" /\ y.due = <<>>  BY <1>1, <2>1 DEF Passes, Pcs, SendPcs
  <2>3. PassSound(y)  BY <2>2 DEF PassSound, SendPcs
  <2>. QED  BY <1>2, <2>3 DEF Sends
<1>3. CASE keys # {}
  <2>. DEFINE y == [x EXCEPT !.pc = "send", !.sends = SetToSeq(keys)]
  <2>1. SetToSeq(keys) \in Seq(Keys) /\ SetToSeq(keys) # <<>>  BY <1>3, SeqOfSet
  <2>2. /\ y \in Passes /\ y.pc = "send" /\ y.due = <<>> /\ y.logs = x.logs /\ y.sends = SetToSeq(keys)
    BY <1>1, <2>1 DEF Passes, Pcs, SendPcs
  <2>. HIDE DEF y
  <2>3. PassSound(y)  BY <2>1, <2>2 DEF PassSound, SendPcs
  <2>. QED  BY <1>3, <2>3 DEF Sends, y
<1>. QED  BY <1>2, <1>3

\* An event by its type.
LEMMA EventIs ==
  ASSUME NEW e \in AllEvents
  PROVE  /\ e.type = "OfferCreated" => \E p \in Positions : e = Opened(p)
         /\ e.type \in {"OfferClosed", "ListingAuctionRefunded"} => \E p \in Positions : e \in Closings(p) /\ e.id = p
         /\ e.type = "BidPlaced" => e \in BidEvents /\ e.wallet \in Bidders
         /\ e.type \in {"AuctionSettled", "AuctionSettlementRefunded"} => e \in AuctionClosings /\ e.wallet \in Bidders
<1>1. CASE e \in Openings  BY <1>1 DEF Openings, Opened
<1>2. ASSUME NEW p \in Positions, e \in Closings(p)  PROVE e.type \in {"OfferClosed", "ListingAuctionRefunded"} /\ e.id = p
  BY <1>2 DEF Closings
<1>3. CASE e \in BidEvents
  <2>1. PICK w \in Bidders, n \in 1..MaxBids : e = [type |-> "BidPlaced", wallet |-> w, n |-> n]
    BY <1>3 DEF BidEvents, Bid
  <2>. QED  BY <1>3, <2>1
<1>4. CASE e \in AuctionClosings
  <2>1. e.type \in {"AuctionSettled", "AuctionSettlementRefunded"} /\ e.wallet \in Bidders
    BY <1>4 DEF AuctionClosings, Settled
  <2>. QED  BY <1>4, <2>1
<1>5. \/ e \in Openings \/ e \in BidEvents \/ e \in AuctionClosings
      \/ \E p \in Positions : e \in Closings(p)
  BY DEF AllEvents, PositionClosings
<1>. QED  BY <1>1, <1>2, <1>3, <1>4, <1>5

LEMMA HandlingIs ==
  ASSUME PassInv, NEW r \in Runs, Handling(r)
  PROVE  /\ PassSound(run[r]) /\ run[r].pc = "event" /\ run[r].due = <<>> /\ run[r].logs # <<>> /\ InLogs(run[r])
         /\ run[r].logs \in Seq(AllEvents) /\ Event(r) \in AllEvents /\ Tail(run[r].logs) \in Seq(AllEvents)
<1>1. run[r].pc = "event" /\ run[r].logs # <<>>  BY DEF Handling
<1>2. PassSound(run[r]) /\ run[r].due = <<>> /\ InLogs(run[r])  BY <1>1, Bigger DEF PassSound, InLogs
<1>3. run[r].logs \in Seq(AllEvents)  BY <1>2 DEF PassSound, Passes
<1>. QED  BY <1>1, <1>2, <1>3 DEF Event

LEMMA SeqIsFinite ==
  ASSUME NEW T, NEW q \in Seq(T)
  PROVE  {q[i] : i \in DOMAIN q} \subseteq T /\ IsFiniteSet({q[i] : i \in DOMAIN q})
<1>. DEFINE S == {q[i] : i \in DOMAIN q}
<1>1. DOMAIN q = 1..Len(q) /\ Len(q) \in Nat /\ q \in [1..Len(q) -> T]  OBVIOUS
<1>2. IsFiniteSet(1..Len(q))  BY <1>1, FS_Interval
<1>3. q \in Surjection(1..Len(q), S)  BY <1>1 DEF Surjection
<1>4. IsFiniteSet(S)  BY <1>2, <1>3, FS_Surjection
<1>. QED  BY <1>1, <1>4

LEMMA PriorKeys ==
  ASSUME PassInv, NEW except
  PROVE  LET keys == {Key(w, "auction.outbid", "round") : w \in priorBidders(except)} IN
         keys \subseteq Keys /\ IsFiniteSet(keys)
<1>. DEFINE keys == {Key(w, "auction.outbid", "round") : w \in priorBidders(except)}
            S == {w \in Watches : w[1] = "round" /\ watches[w] # "none"}
<1>1. S \in SUBSET Watched /\ IsFiniteSet(Watched)  BY DEF Watched, PassInv
<1>2. IsFiniteSet(S)  BY <1>1, FS_Subset
<1>3. PICK f : f = [w \in S |-> Key(w[2], "auction.outbid", "round")]  BY Zenon
<1>. DEFINE T == {f[w] : w \in S}
<1>4. f \in Surjection(S, T)  BY <1>3 DEF Surjection
<1>5. IsFiniteSet(T)  BY <1>2, <1>4, FS_Surjection
<1>6. keys \in SUBSET T
  <2>. SUFFICES ASSUME NEW w \in priorBidders(except)  PROVE Key(w, "auction.outbid", "round") \in T  OBVIOUS
  <2>1. w \in Bidders /\ watches[<<"round", w>>] = "open"  BY DEF priorBidders
  <2>2. <<"round", w>> \in S  BY <2>1 DEF Watches
  <2>3. f[<<"round", w>>] = Key(w, "auction.outbid", "round")  BY <1>3, <2>2
  <2>. QED  BY <2>2, <2>3
<1>7. IsFiniteSet(keys)  BY <1>5, <1>6, FS_Subset
<1>8. keys \subseteq Keys
  <2>. SUFFICES ASSUME NEW w \in Bidders  PROVE Key(w, "auction.outbid", "round") \in Keys  BY DEF priorBidders
  <2>. QED  BY DEF Key, Keys, Kinds, Entities
<1>. QED  BY <1>7, <1>8

-----------------------------------------------------------------------------
(* The log pass. *)

LEMMA ScanPass ==
  ASSUME ReplayIsNat, PassInv, NEW r \in Runs, Scan(r)
  PROVE  PassInv'
<1>. DEFINE x == run[r]
<1>0. WatchStep  BY WatchesMove DEF Scan
<1>1. ChainTyped /\ Len(blocks) \in Nat /\ cursor \in Int \cup {None}  BY DEF PassInv, ChainTyped
<1>2. CASE ReadHead(r)
  <2>. DEFINE y == [pc |-> "attach", head |-> Len(blocks), from |-> 0, position |-> 0, upto |-> 0, logs |-> <<>>,
                    sends |-> <<>>, profile |-> FALSE, due |-> <<>>]
  <2>1. PassSound(y)  BY <1>1 DEF PassSound, Passes, Pcs, SendPcs, InLogs
  <2>2. run' = [run EXCEPT ![r] = y] /\ blocks' = blocks /\ cursor' = cursor  BY <1>2 DEF ReadHead
  <2>. HIDE DEF y
  <2>. QED  BY <1>0, <1>1, <2>1, <2>2, PassMoves
<1>3. CASE BeginScan(r)
  <2>1. PassSound(x) /\ x.pc = "cursor"  BY <1>3, Bigger DEF BeginScan
  <2>2. PICK pc \in {"deadlines", "scan"} :
          run' = [run EXCEPT ![r].from = cursorFor, ![r].position = cursorFor, ![r].pc = pc]
    BY <1>3 DEF BeginScan
  <2>. DEFINE y == [x EXCEPT !.from = cursorFor, !.position = cursorFor, !.pc = pc]
  <2>3. cursorFor \in Int  BY <1>1 DEF cursorFor, ReplayIsNat
  <2>4. y \in Passes /\ y.pc = pc /\ y.due = <<>>  BY <2>1, <2>3 DEF PassSound, Passes, Pcs
  <2>5. PassSound(y)  BY <2>4 DEF PassSound, InLogs, SendPcs
  <2>6. run' = [run EXCEPT ![r] = y] /\ blocks' = blocks /\ cursor' = cursor  BY <1>3, <2>2 DEF BeginScan, PassInv
  <2>. HIDE DEF y
  <2>. QED  BY <1>0, <1>1, <2>5, <2>6, PassMoves
<1>4. CASE GetLogs(r)
  <2>1. PassSound(x) /\ x.pc = "scan" /\ x \in Passes  BY <1>4, Bigger DEF GetLogs, PassSound
  <2>2. PICK last \in x.position..x.head :
          run' = [run EXCEPT ![r].upto = last, ![r].pc = "event", ![r].logs = LogsOf(x.position, last)]
    BY <1>4 DEF GetLogs
  <2>. DEFINE y == [x EXCEPT !.upto = last, !.pc = "event", !.logs = LogsOf(x.position, last)]
  <2>3. last \in Int /\ x.position \in Int  BY <2>1 DEF Passes
  <2>4. LogsOf(x.position, last) \in Seq(AllEvents)  BY <1>1, <2>3, LogsAre
  <2>5. y \in Passes /\ y.pc = "event" /\ y.due = <<>>  BY <2>1, <2>3, <2>4 DEF PassSound, Passes, Pcs
  <2>6. PassSound(y)  BY <2>5 DEF PassSound, SendPcs
  <2>7. run' = [run EXCEPT ![r] = y] /\ blocks' = blocks /\ cursor' = cursor  BY <1>4, <2>2 DEF GetLogs, PassInv
  <2>. HIDE DEF y
  <2>. QED  BY <1>0, <1>1, <2>6, <2>7, PassMoves
<1>5. CASE ChunkDone(r)
  <2>1. PassSound(x) /\ x.pc = "event" /\ x \in Passes  BY <1>5, Bigger DEF ChunkDone, PassSound
  <2>. DEFINE y == [x EXCEPT !.position = x.upto + 1, !.pc = "scan"]
  <2>2. y \in Passes /\ y.pc = "scan" /\ y.due = <<>>
    <3>1. x.upto + 1 \in Int /\ x.due = <<>>  BY <2>1 DEF PassSound, Passes
    <3>. DEFINE n == x.upto + 1
    <3>. HIDE DEF n
    <3>2. [x EXCEPT !.position = n, !.pc = "scan"] \in Passes  BY <2>1, <3>1 DEF n, Passes, Pcs
    <3>3. [x EXCEPT !.position = n, !.pc = "scan"].pc = "scan" /\ [x EXCEPT !.position = n, !.pc = "scan"].due = <<>>
      BY <2>1, <3>1 DEF Passes
    <3>. QED  BY <3>2, <3>3 DEF n
  <2>3. PassSound(y)  BY <2>2 DEF PassSound, InLogs, SendPcs
  <2>4. run' = [run EXCEPT ![r] = y] /\ blocks' = blocks  BY <1>5 DEF ChunkDone, PassInv
  <2>5. cursor' \in Int \cup {None}
    <3>1. x.upto \in Int  BY <2>1 DEF Passes
    <3>2. cursor' \in {cursor, x.upto}  BY <1>5 DEF ChunkDone
    <3>. QED  BY <1>1, <3>1, <3>2
  <2>. HIDE DEF y
  <2>. QED  BY <1>0, <2>3, <2>4, <2>5, PassMoves
<1>6. CASE EndScan(r)
  <2>1. PassSound(x) /\ x.pc = "scan" /\ x \in Passes  BY <1>6, Bigger DEF EndScan, PassSound
  <2>. DEFINE y == [x EXCEPT !.pc = "deadlines"]
  <2>2. y \in Passes /\ y.pc = "deadlines" /\ y.due = <<>>  BY <2>1 DEF PassSound, Passes, Pcs
  <2>3. PassSound(y)  BY <2>2 DEF PassSound, InLogs, SendPcs
  <2>4. run' = [run EXCEPT ![r] = y] /\ blocks' = blocks  BY <1>6 DEF EndScan, Go, PassInv
  <2>5. cursor' \in Int \cup {None}  BY <1>1, <1>6, <2>1 DEF EndScan, Passes
  <2>. HIDE DEF y
  <2>. QED  BY <1>0, <2>3, <2>4, <2>5, PassMoves
<1>. QED  BY <1>2, <1>3, <1>4, <1>5, <1>6 DEF Scan

LEMMA HandlePass ==
  ASSUME PassInv, NEW r \in Runs, Handle(r)
  PROVE  PassInv'
<1>. DEFINE x == run[r]
            e == Event(r)
<1>0. blocks' = blocks /\ cursor' \in Int \cup {None}
  BY DEF Handle, HandleOpened, OfferReceived, HandleClosed, HandleBid, WatchBidder, HandleSettled, PassInv
<1>1. CASE HandleOpened(r)
  <2>1. Handling(r) /\ e.type = "OfferCreated"  BY <1>1 DEF HandleOpened
  <2>2. PassSound(x) /\ x \in Passes /\ x.due = <<>> /\ x.logs # <<>> /\ e \in Openings
    BY <2>1, HandlingIs, EventIs DEF PassSound, Openings
  <2>. DEFINE y == [x EXCEPT !.pc = "holder"]
  <2>3. y \in Passes /\ y.pc = "holder" /\ y.due = <<>> /\ y.logs = x.logs  BY <2>2 DEF Passes, Pcs
  <2>4. PassSound(y)  BY <2>2, <2>3 DEF PassSound, SendPcs, Event
  <2>5. run' = [run EXCEPT ![r] = y]  BY <1>1 DEF HandleOpened, Go, PassInv
  <2>6. WatchStep  BY <1>1, WatchesMove DEF HandleOpened
  <2>. HIDE DEF y
  <2>. QED  BY <1>0, <2>4, <2>5, <2>6, PassMoves
<1>2. CASE OfferReceived(r)
  <2>1. PICK holder \in {{}, {owner}} :
          Sends(r, {Key(w, "offer.received", e.id) : w \in IF e.id \in lapsed THEN {} ELSE holder})
    BY <1>2 DEF OfferReceived
  <2>2. PassSound(x) /\ x.pc = "holder" /\ x.due = <<>> /\ x.logs # <<>> /\ InLogs(x)
    <3>1. x.pc = "holder"  BY <1>2 DEF OfferReceived
    <3>. QED  BY <3>1, Bigger DEF PassSound, InLogs
  <2>3. e.id \in Positions  BY <2>2 DEF PassSound, Openings, Event, Opened
  <2>. DEFINE keys == {Key(w, "offer.received", e.id) : w \in IF e.id \in lapsed THEN {} ELSE holder}
  <2>4. keys = {} \/ keys = {Key(owner, "offer.received", e.id)}  OBVIOUS
  <2>5. Key(owner, "offer.received", e.id) \in Keys /\ IsFiniteSet({Key(owner, "offer.received", e.id)})
    <3>1. Key(owner, "offer.received", e.id) \in Keys  BY <2>3 DEF Key, Keys, Kinds, Entities
    <3>. QED  BY <3>1, FS_Singleton
  <2>6. keys \subseteq Keys /\ IsFiniteSet(keys)  BY <2>4, <2>5, FS_EmptySet
  <2>7. WatchStep  BY <1>2, WatchesMove DEF OfferReceived
  <2>8. Sends(r, keys)  BY <2>1
  <2>. HIDE DEF keys
  <2>. QED  BY <1>0, <2>2, <2>6, <2>7, <2>8, SendsMove, PassMoves
<1>3. CASE HandleClosed(r)
  <2>1. Handling(r) /\ e.type \in {"OfferClosed", "ListingAuctionRefunded"}  BY <1>3 DEF HandleClosed
  <2>2. e.id \in Positions /\ PassSound(x) /\ InLogs(x) /\ x.logs # <<>> /\ x.due = <<>>
    BY <2>1, HandlingIs, EventIs
  <2>3. PICK keys : keys \in {{}, {Key(beneficiary, "offer.refunded", e.id)}} /\ Sends(r, keys)
    BY <1>3 DEF HandleClosed
  <2>4. keys \subseteq Keys /\ IsFiniteSet(keys)
    <3>1. Key(beneficiary, "offer.refunded", e.id) \in Keys  BY <2>2 DEF Key, Keys, Kinds, Entities
    <3>2. IsFiniteSet({Key(beneficiary, "offer.refunded", e.id)}) /\ IsFiniteSet({})  BY FS_Singleton, FS_EmptySet
    <3>. QED  BY <2>3, <3>1, <3>2, Zenon
  <2>5. WatchStep  BY <1>3, WatchesMove DEF HandleClosed
  <2>. QED  BY <1>0, <2>2, <2>3, <2>4, <2>5, SendsMove, PassMoves
<1>4. CASE HandleBid(r)
  <2>1. Handling(r) /\ e.type = "BidPlaced"  BY <1>4 DEF HandleBid
  <2>2. PassSound(x) /\ x \in Passes /\ InLogs(x) /\ x.logs # <<>> /\ x.due = <<>>
    BY <2>1, HandlingIs DEF PassSound
  <2>3. WatchStep  BY <1>4, WatchesMove DEF HandleBid
  <2>4. CASE Sends(r, {})
    BY <1>0, <2>2, <2>3, <2>4, SendsMove, PassMoves, FS_EmptySet
  <2>5. CASE ~Sends(r, {})
    <3>. DEFINE keys == {Key(w, "auction.outbid", "round") : w \in priorBidders(e.wallet)}
                y == [x EXCEPT !.pc = "bid", !.sends = SetToSeq(keys)]
    <3>1. keys \subseteq Keys /\ IsFiniteSet(keys)  BY PriorKeys
    <3>2. SetToSeq(keys) \in Seq(Keys)
      <4>. HIDE DEF keys
      <4>1. SetToSeq(keys) \in Seq(keys)  BY <3>1, SeqOfSet
      <4>. QED  BY <3>1, <4>1
    <3>3. run' = [run EXCEPT ![r] = y]  BY <1>4, <2>5 DEF HandleBid, PassInv
    <3>. HIDE DEF keys
    <3>4. y \in Passes /\ y.pc = "bid" /\ y.logs = x.logs /\ y.due = <<>>
      BY <2>2, <3>2 DEF Passes, Pcs
    <3>. HIDE DEF y
    <3>5. PassSound(y)  BY <2>2, <3>4 DEF PassSound, SendPcs
    <3>. QED  BY <1>0, <2>3, <3>3, <3>5, PassMoves
  <2>. QED  BY <2>4, <2>5
<1>5. CASE WatchBidder(r)
  <2>1. x.pc = "bid" /\ Sends(r, {x.sends[i] : i \in DOMAIN x.sends})  BY <1>5 DEF WatchBidder
  <2>2. PassSound(x) /\ x \in Passes /\ InLogs(x) /\ x.logs # <<>> /\ x.due = <<>>
    BY <2>1, Bigger DEF PassSound, InLogs
  <2>3. /\ {x.sends[i] : i \in DOMAIN x.sends} \subseteq Keys
        /\ IsFiniteSet({x.sends[i] : i \in DOMAIN x.sends})
    <3>1. x.sends \in Seq(Keys)  BY <2>2 DEF Passes
    <3>. QED  BY <3>1, SeqIsFinite
  <2>4. WatchStep  BY <1>5, WatchesMove DEF WatchBidder
  <2>. HIDE DEF x
  <2>. QED  BY <1>0, <2>1, <2>2, <2>3, <2>4, SendsMove, PassMoves DEF x
<1>6. CASE HandleSettled(r)
  <2>1. Handling(r) /\ e.type \in {"AuctionSettled", "AuctionSettlementRefunded"}  BY <1>6 DEF HandleSettled
  <2>2. e.wallet \in Bidders /\ PassSound(x) /\ InLogs(x) /\ x.logs # <<>> /\ x.due = <<>>
    BY <2>1, HandlingIs, EventIs
  <2>3. PICK kind \in {"auction.won", "auction.refunded"} : Sends(r, {Key(e.wallet, kind, "round")})
    <3>1. CASE e.type = "AuctionSettled"  BY <1>6, <3>1 DEF HandleSettled
    <3>2. CASE e.type # "AuctionSettled"  BY <1>6, <3>2 DEF HandleSettled
    <3>. QED  BY <3>1, <3>2
  <2>4. {Key(e.wallet, kind, "round")} \subseteq Keys /\ IsFiniteSet({Key(e.wallet, kind, "round")})
    <3>1. Key(e.wallet, kind, "round") \in Keys  BY <2>2 DEF Key, Keys, Kinds, Entities
    <3>. QED  BY <3>1, FS_Singleton
  <2>5. WatchStep  BY <1>6, WatchesMove DEF HandleSettled
  <2>. QED  BY <1>0, <2>2, <2>3, <2>4, <2>5, SendsMove, PassMoves
<1>. QED  BY <1>1, <1>2, <1>3, <1>4, <1>5, <1>6 DEF Handle

-----------------------------------------------------------------------------
(* Notifying, the deadline pass, and what fails. *)

\* What an invocation may become while it notifies.
AfterOne(x) ==
  IF x.due = <<>> THEN [x EXCEPT !.pc = "event", !.sends = <<>>, !.logs = Tail(x.logs)]
  ELSE [x EXCEPT !.pc = "resolve", !.sends = <<>>]
OneLess(x) == IF Len(x.sends) > 1 THEN [x EXCEPT !.sends = Tail(@), !.pc = "send"] ELSE AfterOne(x)

LEMMA OneLessSound ==
  ASSUME NEW x, PassSound(x), x.pc \in SendPcs
  PROVE  PassSound(OneLess(x))
<1>1. x \in Passes /\ x.sends \in Seq(Keys) /\ x.sends # <<>> /\ x.logs \in Seq(AllEvents)
      /\ (x.due = <<>> => x.logs # <<>>) /\ <<>> \in Seq(Keys)
  <2>1. x \in Passes /\ x.sends # <<>>  BY DEF PassSound
  <2>2. x.sends \in Seq(Keys) /\ x.logs \in Seq(AllEvents)  BY <2>1 DEF Passes
  <2>3. x.due = <<>> => InLogs(x) /\ x.pc # "event"  BY DEF InLogs, SendPcs
  <2>4. x.due = <<>> => x.logs # <<>>  BY <2>3 DEF PassSound
  <2>. QED  BY <2>1, <2>2, <2>4
<1>2. CASE Len(x.sends) > 1
  <2>. DEFINE y == [x EXCEPT !.sends = Tail(x.sends), !.pc = "send"]
  <2>1. Tail(x.sends) \in Seq(Keys) /\ Tail(x.sends) # <<>>
    <3>. DEFINE n == Len(x.sends)
    <3>0. n \in Nat /\ n > 1  BY <1>1, <1>2
    <3>. HIDE DEF n
    <3>1. n # 1  BY <3>0
    <3>. QED  BY <1>1, <3>1, TailOf DEF n
  <2>2. y \in Passes /\ y.pc = "send" /\ y.sends = Tail(x.sends) /\ y.logs = x.logs /\ y.due = x.due
    BY <1>1, <2>1 DEF Passes, Pcs, SendPcs
  <2>. HIDE DEF y
  <2>3. PassSound(y)  BY <1>1, <2>1, <2>2 DEF PassSound, InLogs, SendPcs
  <2>. QED  BY <1>2, <2>3 DEF y, OneLess
<1>3. CASE ~(Len(x.sends) > 1) /\ x.due = <<>>
  <2>. DEFINE y == [x EXCEPT !.pc = "event", !.sends = <<>>, !.logs = Tail(x.logs)]
  <2>1. Tail(x.logs) \in Seq(AllEvents)  BY <1>1, <1>3
  <2>2. y \in Passes /\ y.pc = "event" /\ y.due = <<>>
    <3>. DEFINE none == <<>>
                logs == Tail(x.logs)
    <3>1. none \in Seq(Keys) /\ logs \in Seq(AllEvents)  BY <1>1, <2>1
    <3>. HIDE DEF none, logs
    <3>2. [x EXCEPT !.pc = "event", !.sends = none, !.logs = logs] \in Passes  BY <1>1, <3>1 DEF Passes, Pcs
    <3>3. LET z == [x EXCEPT !.pc = "event", !.sends = none, !.logs = logs] IN z.pc = "event" /\ z.due = x.due
      BY <1>1 DEF Passes
    <3>. QED  BY <1>3, <3>2, <3>3 DEF none, logs
  <2>3. PassSound(y)  BY <2>2 DEF PassSound, SendPcs
  <2>. QED  BY <1>3, <2>3 DEF OneLess, AfterOne
<1>4. CASE ~(Len(x.sends) > 1) /\ x.due # <<>>
  <2>. DEFINE y == [x EXCEPT !.pc = "resolve", !.sends = <<>>]
  <2>1. y \in Passes /\ y.pc = "resolve" /\ y.due = x.due
    <3>. DEFINE none == <<>>
    <3>1. none \in Seq(Keys)  BY <1>1
    <3>. HIDE DEF none
    <3>2. [x EXCEPT !.pc = "resolve", !.sends = none] \in Passes  BY <1>1, <3>1 DEF Passes, Pcs
    <3>3. LET z == [x EXCEPT !.pc = "resolve", !.sends = none] IN z.pc = "resolve" /\ z.due = x.due
      BY <1>1 DEF Passes
    <3>. QED  BY <3>2, <3>3 DEF none
  <2>2. PassSound(y)  BY <1>4, <2>1 DEF PassSound, InLogs, SendPcs
  <2>. QED  BY <1>4, <2>2 DEF OneLess, AfterOne
<1>. QED  BY <1>2, <1>3, <1>4

LEMMA StillSends ==
  ASSUME NEW x, PassSound(x), x.pc \in SendPcs, NEW pc \in SendPcs, NEW profile \in BOOLEAN
  PROVE  PassSound([x EXCEPT !.pc = pc, !.profile = profile])
<1>. DEFINE y == [x EXCEPT !.pc = pc, !.profile = profile]
<1>1. x \in Passes  BY DEF PassSound
<1>2. y \in Passes /\ y.pc = pc /\ y.due = x.due /\ y.logs = x.logs /\ y.sends = x.sends
  BY <1>1 DEF Passes, Pcs
<1>. HIDE DEF y
<1>3. PassSound(y)  BY <1>2 DEF PassSound, InLogs, SendPcs
<1>. QED  BY <1>3 DEF y

\* A notifying step goes on to the next, or is done with one.
NextSend == [send |-> "insert", insert |-> "mail", mail |-> "mark"]
Notified(x, y) ==
  \/ y = OneLess(x) /\ x.pc # "send"
  \/ \E pc \in SendPcs, profile \in BOOLEAN :
       y = [x EXCEPT !.pc = pc, !.profile = profile] /\ x.pc # "mark" /\ pc = NextSend[x.pc]
LEMMA Notifies ==
  ASSUME PassInv, NEW r \in Runs,
         NotifyReadsLink(r) \/ NotifyInserts(r) \/ NotifyMails(r) \/ NotifyMarks(r)
  PROVE  /\ PassSound(run[r]) /\ run[r].pc \in SendPcs
         /\ UNCHANGED <<blocks, sent, cursor, linked>>
         /\ DOMAIN notes \subseteq DOMAIN notes' /\ (run[r].pc = "insert" => Sending(r) \in DOMAIN notes')
         /\ \E y : run' = [run EXCEPT ![r] = y] /\ Notified(run[r], y)
<1>. DEFINE x == run[r]
<1>1. x.pc \in SendPcs  BY DEF NotifyReadsLink, NotifyInserts, NotifyMails, NotifyMarks, SendPcs
<1>2. PassSound(x) /\ x \in Passes /\ x.profile \in BOOLEAN
  BY <1>1, Bigger DEF SendPcs, PassSound, Passes
<1>3. Sent1(r) => run' = [run EXCEPT ![r] = OneLess(x)]  BY DEF Sent1, AfterSends, OneLess, AfterOne
<1>4. ASSUME NEW pc \in SendPcs, Go(r, pc)
      PROVE  run' = [run EXCEPT ![r] = [x EXCEPT !.pc = pc, !.profile = x.profile]]
  <2>1. run' = [run EXCEPT ![r] = [x EXCEPT !.pc = pc]]  BY <1>4 DEF Go, PassInv
  <2>2. [x EXCEPT !.pc = pc] = [x EXCEPT !.pc = pc, !.profile = x.profile]  BY <1>2 DEF Passes
  <2>. QED  BY <2>1, <2>2
<1>5. \A key, value : Note(key, value) => DOMAIN notes' = DOMAIN notes \cup {key}  BY DEF Note
<1>6. "insert" \in SendPcs /\ "mail" \in SendPcs /\ "mark" \in SendPcs  BY DEF SendPcs
<1>7. NextSend["send"] = "insert" /\ NextSend["insert"] = "mail" /\ NextSend["mail"] = "mark"  BY DEF NextSend
<1>8. CASE NotifyReadsLink(r)
  <2>1. run' = [run EXCEPT ![r].profile = Sending(r).wallet \in linked, ![r].pc = "insert"] /\ x.pc = "send"
    BY <1>8 DEF NotifyReadsLink
  <2>2. (Sending(r).wallet \in linked) \in BOOLEAN  OBVIOUS
  <2>3. run' = [run EXCEPT ![r] = [x EXCEPT !.pc = "insert", !.profile = Sending(r).wallet \in linked]]
    BY <1>2, <2>1 DEF PassInv, Passes
  <2>. QED  BY <1>1, <1>2, <1>6, <1>7, <1>8, <2>1, <2>2, <2>3 DEF NotifyReadsLink, noteVars, Notified
<1>9. CASE NotifyInserts(r)
  <2>1. x.pc = "insert" /\ UNCHANGED <<blocks, sent, cursor, linked>> /\ (Go(r, "mail") \/ Sent1(r))
    BY <1>9 DEF NotifyInserts
  <2>2. DOMAIN notes \subseteq DOMAIN notes' /\ Sending(r) \in DOMAIN notes'
    <3>1. CASE Noted(Sending(r))  BY <1>9, <3>1 DEF NotifyInserts, Noted
    <3>2. CASE ~Noted(Sending(r))  BY <1>5, <1>9, <3>2 DEF NotifyInserts
    <3>. QED  BY <3>1, <3>2
  <2>. QED  BY <1>1, <1>2, <1>3, <1>4, <1>6, <1>7, <2>1, <2>2 DEF Notified
<1>10. CASE NotifyMails(r)
  <2>1. x.pc = "mail" /\ UNCHANGED <<blocks, sent, cursor, notes, linked>> /\ (Go(r, "mark") \/ Sent1(r))
    BY <1>10 DEF NotifyMails
  <2>. QED  BY <1>1, <1>2, <1>3, <1>4, <1>6, <1>7, <2>1 DEF Notified
<1>11. CASE NotifyMarks(r)
  <2>1. x.pc = "mark" /\ UNCHANGED <<blocks, sent, cursor, linked>> /\ Sent1(r) /\ DOMAIN notes \subseteq DOMAIN notes'
    BY <1>5, <1>11 DEF NotifyMarks
  <2>. QED  BY <1>1, <1>2, <1>3, <2>1 DEF Notified
<1>. QED  BY <1>8, <1>9, <1>10, <1>11

NotifyFields(x, y) ==
  /\ y.head = x.head /\ y.position = x.position /\ y.upto = x.upto /\ y.due = x.due
  /\ \/ y.pc \in SendPcs /\ y.logs = x.logs /\ y.sends = x.sends /\ x.pc # "mark" /\ y.pc = NextSend[x.pc]
     \/ x.pc # "send" /\ Len(x.sends) > 1 /\ y.pc = "send" /\ y.logs = x.logs /\ y.sends = Tail(x.sends)
     \/ x.pc # "send" /\ ~(Len(x.sends) > 1) /\ x.due = <<>> /\ y.pc = "event" /\ y.logs = Tail(x.logs)
     \/ x.pc # "send" /\ ~(Len(x.sends) > 1) /\ x.due # <<>> /\ y.pc = "resolve" /\ y.logs = x.logs
LEMMA NotifiedIs ==
  ASSUME NEW x, NEW y, PassSound(x), Notified(x, y)
  PROVE  NotifyFields(x, y)
<1>. DEFINE Same == y.head = x.head /\ y.position = x.position /\ y.upto = x.upto /\ y.due = x.due
<1>1. x \in Passes  BY DEF PassSound
<1>2. ASSUME NEW pc \in SendPcs, NEW profile \in BOOLEAN, y = [x EXCEPT !.pc = pc, !.profile = profile]
      PROVE  Same /\ y.pc = pc /\ y.logs = x.logs /\ y.sends = x.sends
  BY <1>1, <1>2 DEF Passes
<1>3. ASSUME NEW s, y = [x EXCEPT !.sends = s, !.pc = "send"]
      PROVE  Same /\ y.pc = "send" /\ y.logs = x.logs /\ y.sends = s
  BY <1>1, <1>3 DEF Passes
<1>4. ASSUME NEW s, NEW l, y = [x EXCEPT !.pc = "event", !.sends = s, !.logs = l]
      PROVE  Same /\ y.pc = "event" /\ y.logs = l
  BY <1>1, <1>4 DEF Passes
<1>5. ASSUME NEW s, y = [x EXCEPT !.pc = "resolve", !.sends = s]
      PROVE  Same /\ y.pc = "resolve" /\ y.logs = x.logs
  BY <1>1, <1>5 DEF Passes
<1>. HIDE DEF Same
<1>6. CASE y = OneLess(x) /\ x.pc # "send" /\ Len(x.sends) > 1
  <2>1. y = [x EXCEPT !.sends = Tail(x.sends), !.pc = "send"]  BY <1>6, Zenon DEF OneLess
  <2>2. Same /\ y.pc = "send" /\ y.logs = x.logs /\ y.sends = Tail(x.sends)  BY <1>3, <2>1
  <2>. QED  BY <1>6, <2>2 DEF Same, NotifyFields
<1>7. CASE y = OneLess(x) /\ x.pc # "send" /\ ~(Len(x.sends) > 1) /\ x.due = <<>>
  <2>1. y = [x EXCEPT !.pc = "event", !.sends = <<>>, !.logs = Tail(x.logs)]  BY <1>7, Zenon DEF OneLess, AfterOne
  <2>2. Same /\ y.pc = "event" /\ y.logs = Tail(x.logs)  BY <1>4, <2>1
  <2>. QED  BY <1>7, <2>2 DEF Same, NotifyFields
<1>8. CASE y = OneLess(x) /\ x.pc # "send" /\ ~(Len(x.sends) > 1) /\ x.due # <<>>
  <2>1. y = [x EXCEPT !.pc = "resolve", !.sends = <<>>]  BY <1>8, Zenon DEF OneLess, AfterOne
  <2>2. Same /\ y.pc = "resolve" /\ y.logs = x.logs  BY <1>5, <2>1
  <2>. QED  BY <1>8, <2>2 DEF Same, NotifyFields
<1>. QED  BY <1>2, <1>6, <1>7, <1>8 DEF Same, Notified, NotifyFields

LEMMA NotifyPass ==
  ASSUME PassInv, NEW r \in Runs, Notify(r)
  PROVE  PassInv'
<1>0. WatchStep  BY WatchesMove DEF Notify
<1>1. cursor \in Int \cup {None}  BY DEF PassInv
<1>2. CASE reconcileNotificationProfileLinks(r)
  <2>. DEFINE y == [run[r] EXCEPT !.pc = "cursor"]
  <2>1. run[r].pc = "attach"  BY <1>2 DEF reconcileNotificationProfileLinks
  <2>2. PassSound(run[r]) /\ run[r] \in Passes /\ run[r].due = <<>>  BY <2>1, Bigger DEF PassSound
  <2>3. y \in Passes /\ y.pc = "cursor" /\ y.due = <<>>  BY <2>2 DEF Passes, Pcs
  <2>4. PassSound(y)  BY <2>3 DEF PassSound, InLogs, SendPcs
  <2>5. run' = [run EXCEPT ![r] = y] /\ blocks' = blocks /\ cursor' = cursor
    BY <1>2 DEF reconcileNotificationProfileLinks, Go, PassInv
  <2>. HIDE DEF y
  <2>. QED  BY <1>0, <1>1, <2>4, <2>5, PassMoves
<1>3. CASE ~reconcileNotificationProfileLinks(r)
  <2>1. PICK y : run' = [run EXCEPT ![r] = y] /\ Notified(run[r], y)
    BY <1>3, Notifies DEF Notify
  <2>2. PassSound(run[r]) /\ run[r].pc \in SendPcs /\ blocks' = blocks /\ cursor' = cursor
    BY <1>3, Notifies DEF Notify
  <2>3. PassSound(y)
    <3>1. PassSound(OneLess(run[r]))  BY <2>2, OneLessSound
    <3>2. \A pc \in SendPcs, profile \in BOOLEAN : PassSound([run[r] EXCEPT !.pc = pc, !.profile = profile])
      BY <2>2, StillSends
    <3>. QED  BY <2>1, <3>1, <3>2 DEF Notified
  <2>. QED  BY <1>0, <1>1, <2>1, <2>2, <2>3, PassMoves
<1>. QED  BY <1>2, <1>3

LEMMA DueIs ==
  ASSUME PassInv, NEW r \in Runs, run[r].pc \in {"due", "resolve"}
  PROVE  /\ PassSound(run[r]) /\ run[r] \in Passes /\ run[r].due # <<>> /\ run[r].due \in Seq(Watches)
         /\ Due(r) \in Watches /\ Due(r) = run[r].due[1] /\ Len(run[r].due) \in Nat \ {0}
<1>1. PassSound(run[r])  BY Bigger
<1>2. run[r] \in Passes /\ run[r].due # <<>> /\ run[r].due \in Seq(Watches)  BY <1>1 DEF PassSound, Passes
<1>. QED  BY <1>1, <1>2 DEF Due

LEMMA WarnsWatch ==
  ASSUME NEW w \in Watches, w[1] \in Positions, NEW kind \in {"offer.refundable", "offer.settlement-ready"}, RoundIsNoPosition
  PROVE  w[2] = beneficiary /\ Key(w[2], kind, w[1]) \in Keys
<1>1. w[2] = beneficiary  BY DEF Watches, RoundIsNoPosition
<1>. QED  BY <1>1 DEF Key, Keys, Kinds, Entities

LEMMA DeadlinesPass ==
  ASSUME PassInv, RoundIsNoPosition, NEW r \in Runs, Deadlines(r)
  PROVE  PassInv'
<1>. DEFINE x == run[r]
<1>0. blocks' = blocks /\ cursor' \in Int \cup {None}
  BY DEF Deadlines, SweepDeadlines, CheckDue, ResolveDue, PassInv
<1>1. WatchStep  BY WatchesMove DEF Deadlines, SweepDeadlines, CheckDue, ResolveDue
<1>2. CASE SweepDeadlines(r)
  <2>1. x.pc = "deadlines"  BY <1>2 DEF SweepDeadlines
  <2>2. PassSound(x) /\ x \in Passes  BY <2>1, Bigger DEF PassSound
  <2>3. CASE due = {}
    BY <1>0, <1>1, <1>2, <2>3, PassMoves DEF SweepDeadlines
  <2>4. CASE due # {}
    <3>. DEFINE y == [x EXCEPT !.pc = "due", !.due = SetToSeq(due)]
    <3>1. due \in SUBSET Watched /\ IsFiniteSet(Watched)  BY DEF due, Unresolved, Watched, PassInv
    <3>2. IsFiniteSet(due) /\ due \subseteq Watches  BY <3>1, FS_Subset DEF Watched
    <3>3. SetToSeq(due) \in Seq(due) /\ SetToSeq(due) # <<>>  BY <2>4, <3>2, SeqOfSet
    <3>4. SetToSeq(due) \in Seq(Watches)  BY <3>2, <3>3
    <3>5. y \in Passes /\ y.pc = "due" /\ y.due = SetToSeq(due)  BY <2>2, <3>4 DEF Passes, Pcs
    <3>6. run' = [run EXCEPT ![r] = y]  BY <1>2, <2>4 DEF SweepDeadlines
    <3>. HIDE DEF y
    <3>7. PassSound(y)  BY <3>3, <3>5 DEF PassSound, InLogs, SendPcs
    <3>. QED  BY <1>0, <1>1, <3>6, <3>7, PassMoves
  <2>. QED  BY <2>3, <2>4
<1>3. CASE CheckDue(r)
  <2>1. x.pc = "due"  BY <1>3 DEF CheckDue
  <2>2. PassSound(x) /\ x \in Passes /\ x.due # <<>> /\ Due(r) \in Watches  BY <2>1, DueIs
  <2>3. CASE Go(r, "resolve")
    <3>. DEFINE y == [x EXCEPT !.pc = "resolve"]
    <3>1. y \in Passes /\ y.pc = "resolve" /\ y.due = x.due  BY <2>2 DEF Passes, Pcs
    <3>2. PassSound(y)  BY <2>2, <3>1 DEF PassSound, InLogs, SendPcs
    <3>3. run' = [run EXCEPT ![r] = y]  BY <2>3 DEF Go, PassInv
    <3>. HIDE DEF y
    <3>. QED  BY <1>0, <1>1, <3>2, <3>3, PassMoves
  <2>4. CASE ~Go(r, "resolve")
    <3>1. PICK kind \in {"offer.refundable", "offer.settlement-ready"} :
            run' = [run EXCEPT ![r].pc = "send", ![r].sends = <<Key(Due(r)[2], kind, Due(r)[1])>>]
      BY <1>3, <2>4 DEF CheckDue
    <3>2. Due(r)[1] \in Positions  BY <1>3, <2>4 DEF CheckDue
    <3>. DEFINE sends == <<Key(Due(r)[2], kind, Due(r)[1])>>
                y == [x EXCEPT !.pc = "send", !.sends = sends]
    <3>3. sends \in Seq(Keys) /\ sends # <<>>  BY <2>2, <3>2, WarnsWatch
    <3>4. run' = [run EXCEPT ![r] = y]  BY <3>1 DEF PassInv
    <3>. HIDE DEF sends
    <3>5. y \in Passes /\ y.pc = "send" /\ y.due = x.due /\ y.sends = sends
      BY <2>2, <3>3 DEF Passes, Pcs, SendPcs
    <3>. HIDE DEF y
    <3>6. PassSound(y)  BY <2>2, <3>3, <3>5 DEF PassSound, InLogs, SendPcs
    <3>. QED  BY <1>0, <1>1, <3>4, <3>6, PassMoves
  <2>. QED  BY <2>3, <2>4
<1>4. CASE ResolveDue(r)
  <2>1. x.pc = "resolve" /\ NextDue(r)  BY <1>4 DEF ResolveDue
  <2>2. PassSound(x) /\ x \in Passes /\ x.due \in Seq(Watches) /\ Len(x.due) \in Nat \ {0}  BY <2>1, DueIs
  <2>3. CASE Len(x.due) = 1  BY <1>0, <1>1, <2>1, <2>3, PassMoves DEF NextDue
  <2>4. CASE Len(x.due) # 1
    <3>. DEFINE y == [x EXCEPT !.pc = "due", !.due = Tail(x.due)]
    <3>1. Tail(x.due) \in Seq(Watches) /\ Tail(x.due) # <<>>
      BY <2>1, <2>2, <2>4, DueIs, TailOf
    <3>2. y \in Passes /\ y.pc = "due" /\ y.due = Tail(x.due)  BY <2>2, <3>1 DEF Passes, Pcs
    <3>3. run' = [run EXCEPT ![r] = y]  BY <2>1, <2>4 DEF NextDue
    <3>. HIDE DEF y
    <3>4. PassSound(y)  BY <3>1, <3>2 DEF PassSound, InLogs, SendPcs
    <3>. QED  BY <1>0, <1>1, <3>3, <3>4, PassMoves
  <2>. QED  BY <2>3, <2>4
<1>. QED  BY <1>2, <1>3, <1>4 DEF Deadlines

LEMMA FailsPass ==
  ASSUME PassInv, NEW r \in Runs, Fails(r)
  PROVE  PassInv'
<1>. DEFINE x == run[r]
<1>0. WatchStep  BY WatchesMove DEF Fails
<1>1. cursor \in Int \cup {None}  BY DEF PassInv
<1>2. CASE Outage(r)
  <2>1. x.pc = "scan"  BY <1>2 DEF Outage
  <2>2. x.position \in Int  BY <2>1, Bigger DEF PassSound, Passes
  <2>3. cursor' \in Int \cup {None}  BY <1>1, <1>2, <2>2 DEF Outage
  <2>4. run' = [run EXCEPT ![r] = Idle] /\ blocks' = blocks  BY <1>2 DEF Outage
  <2>. QED  BY <1>0, <2>3, <2>4, PassMoves
<1>3. CASE Throws(r)
  <2>. DEFINE y == [x EXCEPT !.pc = "scan", !.sends = <<>>, !.logs = <<>>]
  <2>1. x.pc = "insert" /\ x.due = <<>>  BY <1>3 DEF Throws
  <2>2. PassSound(x) /\ x \in Passes  BY <2>1, Bigger DEF PassSound
  <2>3. y \in Passes /\ y.pc = "scan" /\ y.due = <<>>
    <3>. DEFINE none == <<>>
    <3>1. none \in Seq(Keys) /\ none \in Seq(AllEvents)  OBVIOUS
    <3>. HIDE DEF none
    <3>2. [x EXCEPT !.pc = "scan", !.sends = none, !.logs = none] \in Passes  BY <2>2, <3>1 DEF Passes, Pcs
    <3>3. LET z == [x EXCEPT !.pc = "scan", !.sends = none, !.logs = none] IN z.pc = "scan" /\ z.due = x.due
      BY <2>2 DEF Passes
    <3>. QED  BY <2>1, <3>2, <3>3 DEF none
  <2>4. PassSound(y)  BY <2>3 DEF PassSound, InLogs, SendPcs
  <2>5. run' = [run EXCEPT ![r] = y] /\ blocks' = blocks /\ cursor' = cursor  BY <1>3 DEF Throws, PassInv
  <2>. HIDE DEF y
  <2>. QED  BY <1>0, <1>1, <2>4, <2>5, PassMoves
<1>4. CASE Die(r)  BY <1>0, <1>1, <1>4, PassMoves DEF Die
<1>. QED  BY <1>2, <1>3, <1>4 DEF Fails

-----------------------------------------------------------------------------
(* The chain and the wallets. *)

LEMMA NewEvents ==
  ASSUME PassInv, ChainGrows
  PROVE  /\ \E e \in AllEvents \cup {None} :
              /\ e \in Events /\ NewBlock(e) /\ blocks' = Append(blocks, e)
         /\ UNCHANGED <<cursor, run, watches, lapsed, noteVars>>
         /\ Len(blocks) \in Nat /\ DOMAIN blocks = 1..Len(blocks) /\ Len(blocks') = Len(blocks) + 1
         /\ DOMAIN blocks' = 1..(Len(blocks) + 1) /\ \A b \in DOMAIN blocks : blocks'[b] = blocks[b]
         /\ ChainTyped'
<1>1. PICK e \in Events : NewBlock(e)  BY DEF ChainGrows
<1>2. e \in AllEvents \cup {None}
  <2>1. CASE e \in {Opened(p) : p \in {p \in Positions : p \notin lapsed}}
    BY <2>1 DEF AllEvents, Openings
  <2>2. CASE e \in UNION {Closings(p) : p \in {p \in Positions : StillOpen(p)}}
    BY <2>2 DEF AllEvents, PositionClosings
  <2>3. CASE e \in AuctionClosings  BY <2>3 DEF AllEvents
  <2>4. CASE e \in {Bid(w, n) : w \in {w \in Bidders : Bids # <<>> => Last(Bids).wallet # w}, n \in 1..MaxBids}
    <3>1. PICK w \in Bidders, n \in 1..MaxBids : e = Bid(w, n)  BY <2>4
    <3>. QED  BY <3>1 DEF AllEvents, BidEvents
  <2>. QED  BY <1>1, <2>1, <2>2, <2>3, <2>4 DEF Events
<1>3. blocks' = Append(blocks, e) /\ UNCHANGED <<cursor, run>>  BY <1>1 DEF NewBlock
<1>4. blocks \in Seq(AllEvents \cup {None})  BY DEF PassInv, ChainTyped
<1>5. /\ Len(blocks) \in Nat /\ DOMAIN blocks = 1..Len(blocks) /\ Len(blocks') = Len(blocks) + 1
      /\ DOMAIN blocks' = 1..(Len(blocks) + 1) /\ \A b \in DOMAIN blocks : blocks'[b] = blocks[b]
      /\ ChainTyped'
  BY <1>2, <1>3, <1>4 DEF ChainTyped
<1>. QED  BY <1>1, <1>2, <1>3, <1>5 DEF ChainGrows

LEMMA LessChain ==
  ASSUME PassInv, ReplayIsNat, ChainReorganises
  PROVE  /\ UNCHANGED <<sent, cursor, run, watches, lapsed, noteVars>>
         /\ Len(blocks) \in Nat /\ DOMAIN blocks = 1..Len(blocks) /\ Len(blocks') \in Nat /\ Len(blocks') < Len(blocks)
         /\ DOMAIN blocks' = 1..Len(blocks') /\ \A b \in DOMAIN blocks' : blocks'[b] = blocks[b]
         /\ ChainTyped'
<1>1. PICK depth \in 1..REORG_REPLAY : depth <= Len(blocks) /\ blocks' = SubSeq(blocks, 1, Len(blocks) - depth)
  BY DEF ChainReorganises, Reorg
<1>2. blocks \in Seq(AllEvents \cup {None}) /\ Len(blocks) \in Nat /\ depth \in Nat \ {0}
  BY DEF PassInv, ChainTyped, ReplayIsNat
<1>. DEFINE n == Len(blocks) - depth
<1>3. n \in Nat /\ n < Len(blocks)  BY <1>1, <1>2
<1>. HIDE DEF n
<1>4. /\ Len(blocks') = n /\ DOMAIN blocks' = 1..n /\ \A b \in 1..n : blocks'[b] = blocks[b]
      /\ blocks' \in Seq(AllEvents \cup {None}) /\ DOMAIN blocks = 1..Len(blocks)
  BY <1>1, <1>2, <1>3 DEF n
<1>. QED  BY <1>2, <1>3, <1>4 DEF ChainReorganises, Reorg, ChainTyped

LEMMA PassStep ==
  ASSUME ReplayIsNat, RoundIsNoPosition, PassInv, [Next]_sweepVars
  PROVE  PassInv'
<1>1. ASSUME UNCHANGED <<cursor, run, watches>>, ChainTyped'  PROVE PassInv'
  <2>1. Watched' = Watched  BY <1>1 DEF Watched, Watches
  <2>. QED  BY <1>1, <2>1 DEF PassInv
<1>2. CASE UNCHANGED sweepVars  BY <1>1, <1>2 DEF sweepVars, scanVars, PassInv, ChainTyped
<1>3. ASSUME NEW r \in Runs, SweepStep(r) \/ Fails(r)  PROVE PassInv'
  BY <1>3, ScanPass, HandlePass, NotifyPass, DeadlinesPass, FailsPass DEF SweepStep
<1>4. CASE ChainGrows  BY <1>1, <1>4, NewEvents
<1>5. CASE ChainReorganises  BY <1>1, <1>5, LessChain
<1>6. CASE \E e \in Entities : Lapses(e)
  BY <1>1, <1>6 DEF Lapses, scanVars, PassInv, ChainTyped
<1>7. CASE \E w \in Wallets : LinkWallet(w) /\ UNCHANGED <<watches, lapsed>>
  BY <1>1, <1>7 DEF LinkWallet, scanVars, PassInv, ChainTyped
<1>. QED  BY <1>2, <1>3, <1>4, <1>5, <1>6, <1>7 DEF Next

-----------------------------------------------------------------------------
(* NothingSkipped: what is behind the cursor was handled. *)

WatchOf(p) == watches[<<p, beneficiary>>]
\* What handling an event leaves behind, among the watches W.
Handled(W, e) ==
  \A p \in Positions : /\ e = Opened(p) => W[<<p, beneficiary>>] # "none"
                       /\ e \in Closings(p) => W[<<p, beneficiary>>] = "resolved"
\* The deepest block that the invocation's chain may still lose is above this.
Deep(x) == x.head - REORG_REPLAY
\* The events of the chunk that the invocation has not begun to handle.
Rest(x) == IF x.pc = "event" THEN x.logs ELSE Tail(x.logs)
Ahead(W, rest, e) ==
  \E j \in DOMAIN rest :
    /\ rest[j] = e
    /\ \A p \in Positions :
         e \in Closings(p) /\ W[<<p, beneficiary>>] = "none" => \E i \in DOMAIN rest : i < j /\ rest[i] = Opened(p)

Behind(W, B, x) ==
  \A b \in DOMAIN B : b < x.position /\ b <= Deep(x) /\ B[b] # None => Handled(W, B[b])
InChunk(W, B, x) ==
  \A b \in DOMAIN B : x.position <= b /\ b <= x.upto /\ b <= Deep(x) /\ B[b] # None =>
    Handled(W, B[b]) \/ Ahead(W, Rest(x), B[b])
ScanSound(W, B, x) ==
  /\ Len(B) >= Deep(x)
  /\ x.pc = "scan" \/ InLogs(x) => x.position <= x.head + 1 /\ Behind(W, B, x)
  /\ InLogs(x) => x.upto <= x.head /\ InChunk(W, B, x)
CursorSound ==
  cursor # None =>
    /\ Len(blocks) >= cursor - REORG_REPLAY
    /\ \A b \in DOMAIN blocks : b <= cursor - REORG_REPLAY /\ blocks[b] # None => Handled(watches, blocks[b])
\* A position is opened before it is closed.
OrderSound ==
  \A b \in DOMAIN blocks, p \in Positions :
    blocks[b] \in Closings(p) => \E a \in DOMAIN blocks : a < b /\ blocks[a] = Opened(p)
SkipInv == CursorSound /\ OrderSound /\ \A r \in Runs : run[r] = Idle \/ ScanSound(watches, blocks, run[r])

LEMMA SkipFirst == Init => SkipInv
BY DEF Init, ScanInit, SkipInv, CursorSound, OrderSound, Idle

\* A block stays handled, and the chain below d stays as it is.
LEMMA HandledStays == ASSUME WatchStep, NEW e, Handled(watches, e)  PROVE Handled(watches', e)
<1>1. \A p \in Positions : <<p, beneficiary>> \in Watches  BY DEF Watches
<1>. QED  BY <1>1 DEF WatchStep, Handled

LEMMA AheadStays == ASSUME WatchStep, NEW rest, NEW e, Ahead(watches, rest, e)  PROVE Ahead(watches', rest, e)
<1>1. \A p \in Positions : watches'[<<p, beneficiary>>] = "none" => watches[<<p, beneficiary>>] = "none"
  BY DEF Watches, WatchStep
<1>. QED  BY <1>1 DEF Ahead

Kept(d) == Len(blocks') >= d /\ \A b \in DOMAIN blocks' : b <= d => b \in DOMAIN blocks /\ blocks'[b] = blocks[b]
LEMMA ScanStays ==
  ASSUME NEW x, ScanSound(watches, blocks, x), WatchStep, Kept(Deep(x))
  PROVE  ScanSound(watches', blocks', x)
<1>1. Behind(watches, blocks, x) => Behind(watches', blocks', x)  BY HandledStays DEF Behind, Kept
<1>2. InChunk(watches, blocks, x) => InChunk(watches', blocks', x)  BY HandledStays, AheadStays DEF InChunk, Kept
<1>. QED  BY <1>1, <1>2 DEF ScanSound, Kept

LEMMA CursorStays ==
  ASSUME CursorSound, WatchStep, cursor' = cursor, cursor # None => Kept(cursor - REORG_REPLAY)
  PROVE  CursorSound'
BY HandledStays DEF CursorSound, Kept

LEMMA SkipMoves ==
  ASSUME PassInv, SkipInv, NEW r \in Runs, NEW y, y = Idle \/ ScanSound(watches', blocks, y),
         run' = [run EXCEPT ![r] = y], blocks' = blocks, WatchStep, cursor' = cursor \/ CursorSound'
  PROVE  SkipInv'
<1>1. CursorSound'
  <2>1. cursor # None /\ CursorSound => Kept(cursor - REORG_REPLAY)  BY DEF CursorSound, Kept
  <2>. QED  BY <2>1, CursorStays DEF SkipInv
<1>2. OrderSound'  BY DEF OrderSound, SkipInv
<1>3. ASSUME NEW q \in Runs  PROVE run'[q] = Idle \/ ScanSound(watches', blocks', run'[q])
  <2>1. run'[q] = IF q = r THEN y ELSE run[q]  BY DEF PassInv
  <2>2. CASE q = r  BY <2>1, <2>2
  <2>3. CASE q # r
    <3>1. run'[q] = run[q] /\ (run[q] = Idle \/ ScanSound(watches, blocks, run[q]))  BY <2>1, <2>3 DEF SkipInv
    <3>2. ScanSound(watches, blocks, run[q]) => Kept(Deep(run[q]))  BY DEF Kept, ScanSound
    <3>. QED  BY <3>1, <3>2, ScanStays
  <2>. QED  BY <2>2, <2>3
<1>. QED  BY <1>1, <1>2, <1>3 DEF SkipInv

\* An invocation that keeps its place, or leaves the log pass.
LEMMA KeepsPlace ==
  ASSUME PassInv, SkipInv, NEW r \in Runs, run[r].pc # "idle", NEW y, run' = [run EXCEPT ![r] = y],
         UNCHANGED <<blocks, cursor>>, WatchStep, y.head = run[r].head,
         \/ y.pc # "scan" /\ ~InLogs(y)
         \/ /\ y.position = run[r].position /\ (run[r].pc = "scan" \/ InLogs(run[r]))
            /\ InLogs(y) => y.upto = run[r].upto /\ Rest(y) = Rest(run[r]) /\ InLogs(run[r])
  PROVE  SkipInv'
<1>. DEFINE x == run[r]
<1>1. ScanSound(watches, blocks, x)  BY DEF SkipInv, Idle
<1>2. Deep(y) = Deep(x)  BY DEF Deep
<1>3. ScanSound(watches, blocks, y)  BY <1>1, <1>2 DEF ScanSound, Behind, InChunk
<1>4. Kept(Deep(y))  BY <1>3 DEF Kept, ScanSound
<1>5. ScanSound(watches', blocks, y)  BY <1>3, <1>4, ScanStays
<1>. QED  BY <1>5, SkipMoves

\* Handling the next event.
LEMMA KeepsUp ==
  ASSUME PassInv, SkipInv, NEW r \in Runs, Handling(r), NEW y, run' = [run EXCEPT ![r] = y],
         UNCHANGED <<blocks, cursor>>, WatchStep, y.head = run[r].head, y.position = run[r].position,
         y.upto = run[r].upto, InLogs(y), Rest(y) = Tail(run[r].logs),
         \A p \in Positions : /\ Event(r) = Opened(p) => WatchOf(p)' # "none"
                              /\ Event(r) \in Closings(p) /\ WatchOf(p) # "none" => WatchOf(p)' = "resolved"
  PROVE  SkipInv'
<1>. DEFINE x == run[r]
<1>1. ScanSound(watches, blocks, x) /\ InLogs(x) /\ Rest(x) = x.logs /\ x.logs \in Seq(AllEvents) /\ x.logs # <<>>
  BY HandlingIs DEF SkipInv, Idle, Rest
<1>2. Deep(y) = Deep(x)  BY DEF Deep
<1>3. Behind(watches', blocks, y)
  <2>1. Behind(watches, blocks, y)  BY <1>1, <1>2 DEF ScanSound, Behind
  <2>. QED  BY <2>1, HandledStays DEF Behind
<1>4. ASSUME NEW e, Handled(watches, e) \/ Ahead(watches, x.logs, e)
      PROVE  Handled(watches', e) \/ Ahead(watches', Tail(x.logs), e)
  <2>2. CASE Handled(watches, e)  BY <2>2, HandledStays
  <2>3. CASE Ahead(watches, x.logs, e)
    <3>1. PICK j \in DOMAIN x.logs :
            /\ x.logs[j] = e
            /\ \A p \in Positions :
                 e \in Closings(p) /\ WatchOf(p) = "none" => \E i \in DOMAIN x.logs : i < j /\ x.logs[i] = Opened(p)
      BY <2>3 DEF Ahead, WatchOf
    <3>2. Event(r) = x.logs[1] /\ x.logs \in Seq(AllEvents) /\ x.logs # <<>> /\ 1 \in DOMAIN x.logs
      BY <1>1, TailOf DEF Event
    <3>5. \A i \in DOMAIN x.logs : i \in Nat /\ ~(i < 1)  BY <3>2
    <3>3. CASE j = 1
      <4>1. e = Event(r) /\ \A p \in Positions : e \in Closings(p) => WatchOf(p) # "none"  BY <3>1, <3>2, <3>3, <3>5
      <4>. QED  BY <4>1 DEF Handled, WatchOf
    <3>4. CASE j # 1
      <4>1. j - 1 \in DOMAIN Tail(x.logs) /\ Tail(x.logs)[j - 1] = e  BY <3>1, <3>2, <3>4, TailAt
      <4>2. ASSUME NEW p \in Positions, e \in Closings(p), WatchOf(p)' = "none"
            PROVE  \E i \in DOMAIN Tail(x.logs) : i < j - 1 /\ Tail(x.logs)[i] = Opened(p)
        <5>1. WatchOf(p) = "none"  BY <4>2 DEF WatchStep, Watches, WatchOf
        <5>2. PICK i \in DOMAIN x.logs : i < j /\ x.logs[i] = Opened(p)  BY <3>1, <4>2, <5>1
        <5>3. i # 1  BY <3>2, <4>2, <5>2
        <5>4. i - 1 \in DOMAIN Tail(x.logs) /\ Tail(x.logs)[i - 1] = x.logs[i]  BY <3>2, <5>3, TailAt
        <5>5. i - 1 < j - 1  BY <3>5, <5>2
        <5>. QED  BY <5>2, <5>4, <5>5
      <4>. QED  BY <4>1, <4>2 DEF Ahead, WatchOf
    <3>. QED  BY <3>3, <3>4
  <2>. QED  BY <1>4, <2>2, <2>3
<1>5. InChunk(watches', blocks, y)  BY <1>1, <1>2, <1>4 DEF InChunk, ScanSound
<1>6. ScanSound(watches', blocks, y)  BY <1>1, <1>2, <1>3, <1>5 DEF ScanSound
<1>. QED  BY <1>6, SkipMoves

LEMMA ScanSkips ==
  ASSUME ReplayIsNat, NoneIsNoEvent, PassInv, PassInv', SkipInv, NEW r \in Runs, Scan(r)
  PROVE  SkipInv'
<1>. DEFINE x == run[r]
<1>0. WatchStep /\ watches' = watches  BY WatchesMove DEF Scan
<1>1. /\ ChainTyped /\ Len(blocks) \in Nat /\ DOMAIN blocks = 1..Len(blocks) /\ cursor \in Int \cup {None}
      /\ REORG_REPLAY \in Nat
  BY DEF PassInv, ChainTyped, ReplayIsNat
<1>2. CASE ReadHead(r)
  <2>. DEFINE y == [pc |-> "attach", head |-> Len(blocks), from |-> 0, position |-> 0, upto |-> 0, logs |-> <<>>,
                    sends |-> <<>>, profile |-> FALSE, due |-> <<>>]
  <2>1. ScanSound(watches', blocks, y)  BY <1>1 DEF ScanSound, Deep, InLogs, SendPcs
  <2>2. run' = [run EXCEPT ![r] = y] /\ blocks' = blocks /\ cursor' = cursor  BY <1>2 DEF ReadHead
  <2>. HIDE DEF y
  <2>. QED  BY <1>0, <2>1, <2>2, SkipMoves
<1>3. ASSUME x.pc \in {"cursor", "scan", "event"}
      PROVE  /\ x \in Passes /\ x.head \in Nat /\ x.position \in Int /\ x.upto \in Int
             /\ ScanSound(watches, blocks, x) /\ Deep(x) = x.head - REORG_REPLAY
  <2>1. PassSound(x)  BY <1>3, Bigger
  <2>2. x \in Passes  BY <2>1 DEF PassSound
  <2>3. x.head \in Nat /\ x.position \in Int /\ x.upto \in Int  BY <2>2 DEF Passes
  <2>. QED  BY <1>3, <2>2, <2>3 DEF SkipInv, Idle, Deep
<1>4. CASE BeginScan(r)
  <2>1. x.pc = "cursor"  BY <1>4 DEF BeginScan
  <2>. DEFINE pc == IF cursorFor > x.head THEN "deadlines" ELSE "scan"
              y == [x EXCEPT !.from = cursorFor, !.position = cursorFor, !.pc = pc]
  <2>2. run' = [run EXCEPT ![r] = y] /\ blocks' = blocks /\ cursor' = cursor  BY <1>4 DEF BeginScan, PassInv
  <2>3. y.pc = pc /\ y.head = x.head /\ y.position = cursorFor  BY <1>3, <2>1 DEF Passes
  <2>4. cursorFor \in Int  BY <1>1 DEF cursorFor
  <2>5. pc = "scan" => cursorFor <= x.head
    <3>1. x.head \in Nat  BY <1>3, <2>1
    <3>. QED  BY <2>4, <3>1
  <2>6. ASSUME NEW b \in DOMAIN blocks, b < cursorFor, blocks[b] # None  PROVE Handled(watches, blocks[b])
    <3>1. b \in Nat /\ b >= 1  BY <1>1
    <3>2. cursor # None /\ cursor \in Int /\ b <= cursor - REORG_REPLAY  BY <1>1, <2>6, <3>1 DEF cursorFor
    <3>. QED  BY <2>6, <3>2 DEF SkipInv, CursorSound
  <2>. HIDE DEF pc, y
  <2>7. Behind(watches, blocks, y)  BY <2>3, <2>6 DEF Behind
  <2>8. ~InLogs(y)  BY <2>3 DEF InLogs, SendPcs, pc
  <2>9. ScanSound(watches', blocks, y)
    <3>1. Len(blocks) >= Deep(y)  BY <1>3, <2>1, <2>3 DEF ScanSound, Deep
    <3>2. x.head \in Nat  BY <1>3, <2>1
    <3>3. y.pc = "scan" => y.position <= y.head + 1  BY <2>3, <2>4, <2>5, <3>2
    <3>. QED  BY <1>0, <2>7, <2>8, <3>1, <3>3 DEF ScanSound
  <2>. QED  BY <1>0, <2>2, <2>9, SkipMoves
<1>5. CASE GetLogs(r)
  <2>1. x.pc = "scan"  BY <1>5 DEF GetLogs
  <2>2. PICK last \in x.position..x.head :
          run' = [run EXCEPT ![r].upto = last, ![r].pc = "event", ![r].logs = LogsOf(x.position, last)]
    BY <1>5 DEF GetLogs
  <2>. DEFINE L == LogsOf(x.position, last)
              y == [x EXCEPT !.upto = last, !.pc = "event", !.logs = L]
  <2>3. run' = [run EXCEPT ![r] = y] /\ blocks' = blocks /\ cursor' = cursor  BY <1>5, <2>2 DEF GetLogs, PassInv
  <2>4. y.pc = "event" /\ y.logs = L /\ y.upto = last /\ y.head = x.head /\ y.position = x.position
    BY <1>3, <2>1 DEF Passes
  <2>5. x.head \in Nat /\ x.position \in Int /\ last \in Int /\ last <= x.head  BY <1>3, <2>1
  <2>. DEFINE B == EventBlocks(x.position, last)
  <2>6. PICK at \in [B -> DOMAIN L] : /\ \A b \in B : L[at[b]] = blocks[b]
                                      /\ \A a, b \in B : a < b => at[a] < at[b]
    BY <1>1, <2>5, LogsAre
  <2>. HIDE DEF L, y
  <2>7. Behind(watches, blocks, x) /\ x.position <= x.head + 1  BY <1>3, <2>1 DEF ScanSound
  <2>8. InChunk(watches, blocks, y)
    <3>. SUFFICES ASSUME NEW b \in DOMAIN blocks, x.position <= b, b <= last, b <= Deep(x), blocks[b] # None
                  PROVE  Ahead(watches, L, blocks[b])
      BY <2>4 DEF InChunk, Rest, Deep
    <3>1. b \in B  BY DEF EventBlocks
    <3>2. ASSUME NEW p \in Positions, blocks[b] \in Closings(p), WatchOf(p) = "none"
          PROVE  \E i \in DOMAIN L : i < at[b] /\ L[i] = Opened(p)
      <4>1. PICK a \in DOMAIN blocks : a < b /\ blocks[a] = Opened(p)  BY <3>2 DEF SkipInv, OrderSound
      <4>2. blocks[a] # None  BY <4>1 DEF NoneIsNoEvent
      <4>3. a \in Nat /\ b \in Nat /\ a <= Deep(x) /\ a <= last
        <5>1. a \in Nat /\ b \in Nat  BY <1>1
        <5>2. Deep(x) \in Int  BY <1>1, <2>5 DEF Deep
        <5>. QED  BY <2>5, <4>1, <5>1, <5>2
      <4>4. ~(a < x.position)
        <5>1. a < x.position => Handled(watches, blocks[a])  BY <2>7, <4>2, <4>3 DEF Behind
        <5>. QED  BY <3>2, <4>1, <5>1 DEF Handled, WatchOf
      <4>5. a \in B  BY <2>5, <4>2, <4>3, <4>4 DEF EventBlocks
      <4>. QED  BY <2>6, <3>1, <4>1, <4>5
    <3>. QED  BY <2>6, <3>1, <3>2 DEF Ahead, WatchOf
  <2>9. ScanSound(watches', blocks, y)
    <3>1. Len(blocks) >= Deep(y) /\ Deep(y) = Deep(x)  BY <1>3, <2>1, <2>4 DEF ScanSound, Deep
    <3>2. Behind(watches, blocks, y)  BY <2>4, <2>7, <3>1 DEF Behind
    <3>. QED  BY <1>0, <2>4, <2>5, <2>7, <2>8, <3>1, <3>2 DEF ScanSound
  <2>. QED  BY <1>0, <2>3, <2>9, SkipMoves
<1>6. CASE ChunkDone(r)
  <2>1. x.pc = "event" /\ x.logs = <<>> /\ InLogs(x)  BY <1>6 DEF ChunkDone, InLogs
  <2>2. /\ x \in Passes /\ x.head \in Nat /\ x.position \in Int /\ x.upto \in Int
        /\ ScanSound(watches, blocks, x) /\ Deep(x) = x.head - REORG_REPLAY
    BY <1>3, <2>1
  <2>. DEFINE n == x.upto + 1
              y == [x EXCEPT !.position = n, !.pc = "scan"]
  <2>3. run' = [run EXCEPT ![r] = y] /\ blocks' = blocks  BY <1>6 DEF ChunkDone, PassInv
  <2>4. n \in Int  BY <2>2
  <2>5. n <= x.head + 1 /\ Len(blocks) >= Deep(x)  BY <2>1, <2>2 DEF ScanSound
  <2>6. ASSUME NEW b \in DOMAIN blocks, b < n, b <= Deep(x), blocks[b] # None  PROVE Handled(watches, blocks[b])
    <3>1. b \in Nat /\ (b < x.position \/ (x.position <= b /\ b <= x.upto))  BY <1>1, <2>2, <2>6
    <3>2. CASE b < x.position  BY <2>1, <2>2, <2>6, <3>2 DEF ScanSound, Behind
    <3>3. CASE x.position <= b /\ b <= x.upto
      <4>1. Handled(watches, blocks[b]) \/ Ahead(watches, Rest(x), blocks[b])
        BY <2>1, <2>2, <2>6, <3>3 DEF ScanSound, InChunk
      <4>2. Rest(x) = <<>>  BY <2>1 DEF Rest
      <4>. QED  BY <4>1, <4>2 DEF Ahead
    <3>. QED  BY <3>1, <3>2, <3>3
  <2>. HIDE DEF n
  <2>7. y.pc = "scan" /\ y.position = n /\ y.head = x.head  BY <2>2 DEF Passes
  <2>. HIDE DEF y
  <2>8. ~InLogs(y)  BY <2>7 DEF InLogs, SendPcs
  <2>9. ScanSound(watches', blocks, y)  BY <1>0, <2>5, <2>6, <2>7, <2>8 DEF ScanSound, Behind, Deep
  <2>10. cursor' = cursor \/ CursorSound'
    <3>1. CASE cursor' = x.upto
      <4>1. Len(blocks) >= x.upto - REORG_REPLAY /\ \A b \in DOMAIN blocks : b <= x.upto - REORG_REPLAY => b < n /\ b <= Deep(x)
        BY <1>1, <2>2, <2>4, <2>5 DEF n
      <4>. QED  BY <1>0, <2>3, <2>6, <3>1, <4>1 DEF CursorSound
    <3>. QED  BY <1>6, <3>1 DEF ChunkDone
  <2>. QED  BY <1>0, <2>3, <2>9, <2>10, SkipMoves
<1>7. CASE EndScan(r)
  <2>1. x.pc = "scan"  BY <1>7 DEF EndScan
  <2>. DEFINE y == [x EXCEPT !.pc = "deadlines"]
  <2>2. run' = [run EXCEPT ![r] = y] /\ blocks' = blocks /\ cursor' = x.position - 1  BY <1>7 DEF EndScan, Go, PassInv
  <2>3. y.pc = "deadlines" /\ y.head = x.head  BY <1>3, <2>1 DEF Passes
  <2>. HIDE DEF y
  <2>4. ScanSound(watches', blocks, y)  BY <1>3, <2>1, <2>3 DEF ScanSound, Deep, InLogs, SendPcs
  <2>5. CursorSound'
    <3>1. /\ x.head \in Nat /\ x.position \in Int /\ x.position <= x.head + 1 /\ Len(blocks) >= Deep(x)
          /\ Deep(x) = x.head - REORG_REPLAY /\ Behind(watches, blocks, x)
      BY <1>3, <2>1 DEF ScanSound
    <3>2. Len(blocks) >= (x.position - 1) - REORG_REPLAY
      BY <1>1, <3>1
    <3>3. \A b \in DOMAIN blocks : b <= (x.position - 1) - REORG_REPLAY => b < x.position /\ b <= Deep(x)
      BY <1>1, <3>1
    <3>. QED  BY <1>0, <2>2, <3>1, <3>2, <3>3 DEF CursorSound, Behind
  <2>. QED  BY <1>0, <2>2, <2>4, <2>5, SkipMoves
<1>. QED  BY <1>2, <1>4, <1>5, <1>6, <1>7 DEF Scan

LEMMA EventKinds ==
  ASSUME NEW e \in AllEvents
  PROVE  /\ e.type # "OfferCreated" => \A p \in Positions : e # Opened(p)
         /\ e.type \notin {"OfferClosed", "ListingAuctionRefunded"} => \A p \in Positions : e \notin Closings(p)
         /\ \A p \in Positions : (e = Opened(p) \/ e \in Closings(p)) => e.id = p
BY DEF Opened, Closings

\* What an invocation that handles an event becomes.
Onward(x, y) ==
  /\ InLogs(y) /\ Rest(y) = Tail(x.logs) /\ y.pc \in {"event", "holder", "bid", "send"} /\ y.due = <<>>
  /\ y.head = x.head /\ y.position = x.position /\ y.upto = x.upto /\ y.logs = IF y.pc = "event" THEN Tail(x.logs) ELSE x.logs
LEMMA HandleBecomes ==
  ASSUME PassInv, NEW r \in Runs, Handle(r)
  PROVE  /\ WatchStep /\ UNCHANGED <<blocks, sent, cursor, noteVars, lapsed>>
         /\ PassSound(run[r]) /\ run[r] \in Passes /\ InLogs(run[r]) /\ run[r].logs # <<>> /\ run[r].due = <<>>
         /\ run[r].logs \in Seq(AllEvents) /\ Event(r) \in AllEvents
         /\ \E y : run' = [run EXCEPT ![r] = y] /\ Onward(run[r], y)
<1>. DEFINE x == run[r]
<1>1. WatchStep /\ UNCHANGED <<blocks, sent, cursor, noteVars, lapsed>>
  <2>1. UNCHANGED <<blocks, sent, cursor, noteVars, lapsed>>
    BY DEF Handle, HandleOpened, OfferReceived, HandleClosed, HandleBid, WatchBidder, HandleSettled
  <2>2. \/ \E entity, wallet : watch(entity, wallet)
        \/ \E entity : resolveWatch(entity)
        \/ UNCHANGED watches
    BY DEF Handle, HandleOpened, OfferReceived, HandleClosed, HandleBid, WatchBidder, HandleSettled
  <2>. QED  BY <2>1, <2>2, WatchesMove
<1>2. x.pc \in {"event", "holder", "bid"} /\ (x.pc = "event" => x.logs # <<>>)
  BY DEF Handle, HandleOpened, OfferReceived, HandleClosed, HandleBid, WatchBidder, HandleSettled, Handling
<1>3. PassSound(x) /\ InLogs(x) /\ x.logs # <<>> /\ x.due = <<>> /\ x \in Passes /\ x.logs \in Seq(AllEvents)
  <2>1. PassSound(x)  BY <1>2, Bigger
  <2>2. InLogs(x)  BY <1>2 DEF InLogs
  <2>. QED  BY <1>2, <2>1, <2>2 DEF PassSound, Passes
<1>4. Event(r) \in AllEvents  BY <1>3 DEF Event
<1>5. \/ \E keys : Sends(r, keys)
      \/ HandleOpened(r) /\ Go(r, "holder")
      \/ \E sends : run' = [run EXCEPT ![r].pc = "bid", ![r].sends = sends]
  BY Zenon DEF Handle, HandleOpened, OfferReceived, HandleClosed, HandleBid, WatchBidder, HandleSettled
<1>6. ASSUME NEW keys, Sends(r, keys), keys = {}
      PROVE  \E y : run' = [run EXCEPT ![r] = y] /\ Onward(x, y)
  <2>. DEFINE t == Tail(x.logs)
              y == [x EXCEPT !.pc = "event", !.logs = t]
  <2>1. run' = [run EXCEPT ![r] = y]  BY <1>6 DEF Sends
  <2>. HIDE DEF t
  <2>2. y.pc = "event" /\ y.logs = t /\ y.due = x.due /\ y.head = x.head /\ y.position = x.position /\ y.upto = x.upto
    BY <1>3 DEF Passes
  <2>. HIDE DEF y
  <2>3. InLogs(y) /\ Rest(y) = t  BY <2>2 DEF InLogs, Rest
  <2>. QED  BY <1>3, <2>1, <2>2, <2>3 DEF Onward, t
<1>7. ASSUME NEW keys, Sends(r, keys), keys # {}
      PROVE  \E y : run' = [run EXCEPT ![r] = y] /\ Onward(x, y)
  <2>. DEFINE s == SetToSeq(keys)
              y == [x EXCEPT !.pc = "send", !.sends = s]
  <2>1. run' = [run EXCEPT ![r] = y]  BY <1>7 DEF Sends
  <2>. HIDE DEF s
  <2>2. y.pc = "send" /\ y.logs = x.logs /\ y.due = x.due /\ y.head = x.head /\ y.position = x.position /\ y.upto = x.upto
    BY <1>3 DEF Passes
  <2>. HIDE DEF y
  <2>3. InLogs(y) /\ Rest(y) = Tail(x.logs)  BY <1>3, <2>2 DEF InLogs, Rest, SendPcs
  <2>. QED  BY <1>3, <2>1, <2>2, <2>3 DEF Onward
<1>8. ASSUME NEW pc \in {"holder", "bid"}, NEW s, run' = [run EXCEPT ![r] = [x EXCEPT !.pc = pc, !.sends = s]]
      PROVE  \E y : run' = [run EXCEPT ![r] = y] /\ Onward(x, y)
  <2>. DEFINE y == [x EXCEPT !.pc = pc, !.sends = s]
  <2>1. y.pc = pc /\ y.logs = x.logs /\ y.due = x.due /\ y.head = x.head /\ y.position = x.position /\ y.upto = x.upto
    BY <1>3 DEF Passes
  <2>2. run' = [run EXCEPT ![r] = y]  BY <1>8
  <2>. HIDE DEF y
  <2>3. InLogs(y) /\ Rest(y) = Tail(x.logs)  BY <2>1 DEF InLogs, Rest
  <2>. QED  BY <1>3, <2>1, <2>2, <2>3 DEF Onward
<1>9. Go(r, "holder") => run' = [run EXCEPT ![r] = [x EXCEPT !.pc = "holder", !.sends = x.sends]]
  <2>1. [x EXCEPT !.pc = "holder", !.sends = x.sends] = [x EXCEPT !.pc = "holder"]  BY <1>3 DEF Passes
  <2>. QED  BY <2>1 DEF Go, PassInv
<1>10. \A sends : run' = [run EXCEPT ![r].pc = "bid", ![r].sends = sends]
                  => run' = [run EXCEPT ![r] = [x EXCEPT !.pc = "bid", !.sends = sends]]
  BY DEF PassInv
<1>. QED  BY <1>1, <1>3, <1>4, <1>5, <1>6, <1>7, <1>8, <1>9, <1>10

LEMMA HandleSkips ==
  ASSUME PassInv, PassInv', SkipInv, NEW r \in Runs, Handle(r)
  PROVE  SkipInv'
<1>. DEFINE x == run[r]
            e == Event(r)
<1>1. /\ WatchStep /\ UNCHANGED <<blocks, cursor>> /\ PassSound(x) /\ InLogs(x) /\ x.logs # <<>> /\ x.due = <<>>
      /\ e \in AllEvents
  BY HandleBecomes
<1>2. PICK y : /\ run' = [run EXCEPT ![r] = y] /\ InLogs(y) /\ Rest(y) = Tail(x.logs)
               /\ y.head = x.head /\ y.position = x.position /\ y.upto = x.upto
  BY HandleBecomes DEF Onward
<1>3. CASE x.pc = "event"
  <2>1. Handling(r)  BY <1>1, <1>3 DEF Handling
  <2>2. ASSUME NEW p \in Positions
        PROVE  /\ e = Opened(p) => WatchOf(p)' # "none"
               /\ e \in Closings(p) /\ WatchOf(p) # "none" => WatchOf(p)' = "resolved"
    <3>1. watches \in [Watches -> {"none", "open", "resolved"}] /\ <<p, beneficiary>> \in Watches
      BY DEF PassInv, Watches
    <3>2. CASE HandleOpened(r)
      <4>1. e.type = "OfferCreated" /\ watch(e.id, beneficiary)  BY <3>2 DEF HandleOpened
      <4>2. e \notin Closings(p)  BY <4>1, <1>1, EventKinds
      <4>3. ASSUME e = Opened(p)  PROVE WatchOf(p)' # "none"
        <5>1. e.id = p  BY <4>3 DEF Opened
        <5>2. watches' = [watches EXCEPT ![<<p, beneficiary>>] = IF @ = "none" THEN "open" ELSE @]
          BY <4>1, <5>1 DEF watch
        <5>. QED  BY <3>1, <5>2 DEF WatchOf
      <4>. QED  BY <4>2, <4>3
    <3>3. CASE HandleClosed(r)
      <4>1. e.type \in {"OfferClosed", "ListingAuctionRefunded"} /\ resolveWatch(e.id)  BY <3>3 DEF HandleClosed
      <4>2. e # Opened(p)  BY <4>1 DEF Opened
      <4>3. ASSUME e \in Closings(p), WatchOf(p) # "none"  PROVE WatchOf(p)' = "resolved"
        <5>1. e.id = p  BY <1>1, <4>3, EventKinds
        <5>2. watches' = [w \in Watches |-> IF w[1] = p /\ watches[w] = "open" THEN "resolved" ELSE watches[w]]
          BY <4>1, <5>1 DEF resolveWatch
        <5>. QED  BY <3>1, <4>3, <5>2 DEF WatchOf
      <4>. QED  BY <4>2, <4>3
    <3>4. CASE HandleBid(r) \/ HandleSettled(r)
      <4>1. e.type \in {"BidPlaced", "AuctionSettled", "AuctionSettlementRefunded"}
        BY <3>4 DEF HandleBid, HandleSettled
      <4>. QED  BY <1>1, <4>1, EventKinds
    <3>5. ~OfferReceived(r) /\ ~WatchBidder(r)  BY <1>3 DEF OfferReceived, WatchBidder
    <3>. QED  BY <3>2, <3>3, <3>4, <3>5 DEF Handle
  <2>. HIDE DEF e
  <2>. QED  BY <1>1, <1>2, <2>1, <2>2, KeepsUp DEF e
<1>4. CASE x.pc # "event"
  <2>1. Rest(y) = Rest(x)  BY <1>2, <1>4 DEF Rest
  <2>2. x.pc # "idle"  BY <1>1 DEF InLogs, SendPcs
  <2>. QED  BY <1>1, <1>2, <2>1, <2>2, KeepsPlace
<1>. QED  BY <1>3, <1>4

LEMMA NotifySkips ==
  ASSUME PassInv, SkipInv, NEW r \in Runs, Notify(r)
  PROVE  SkipInv'
<1>. DEFINE x == run[r]
<1>0. WatchStep  BY WatchesMove DEF Notify
<1>1. CASE reconcileNotificationProfileLinks(r)
  <2>. DEFINE y == [x EXCEPT !.pc = "cursor"]
  <2>1. x.pc = "attach" /\ run' = [run EXCEPT ![r] = y] /\ UNCHANGED <<blocks, cursor>>
    BY <1>1 DEF reconcileNotificationProfileLinks, Go, PassInv
  <2>2. x \in Passes  BY <2>1, Bigger DEF PassSound
  <2>3. y.pc = "cursor" /\ y.head = x.head  BY <2>2 DEF Passes
  <2>. HIDE DEF y
  <2>4. ~InLogs(y)  BY <2>3 DEF InLogs, SendPcs
  <2>. QED  BY <1>0, <2>1, <2>3, <2>4, KeepsPlace
<1>2. CASE ~reconcileNotificationProfileLinks(r)
  <2>1. PassSound(x) /\ x.pc \in SendPcs /\ UNCHANGED <<blocks, cursor>>  BY <1>2, Notifies DEF Notify
  <2>2. PICK y : run' = [run EXCEPT ![r] = y] /\ Notified(x, y)  BY <1>2, Notifies DEF Notify
  <2>4. /\ y.head = x.head /\ y.position = x.position /\ y.upto = x.upto /\ y.due = x.due
        /\ \/ y.pc \in SendPcs /\ y.logs = x.logs
           \/ y.pc = "event" /\ y.logs = Tail(x.logs) /\ x.due = <<>>
           \/ y.pc = "resolve"
    <3>1. NotifyFields(x, y)  BY <2>1, <2>2, NotifiedIs
    <3>. QED  BY <3>1 DEF NotifyFields, SendPcs
  <2>5. CASE x.due = <<>> /\ y.pc # "resolve"
    <3>1. InLogs(x)  BY <2>1, <2>5 DEF InLogs
    <3>2. Rest(x) = Tail(x.logs)  BY <2>1 DEF Rest, SendPcs
    <3>3. Rest(y) = Rest(x)  BY <2>4, <2>5, <3>2 DEF Rest, SendPcs
    <3>4. x.pc # "idle"  BY <2>1 DEF SendPcs
    <3>. HIDE DEF x
    <3>. QED  BY <1>0, <2>1, <2>2, <2>4, <3>1, <3>3, <3>4, KeepsPlace DEF x
  <2>6. CASE x.due # <<>> \/ y.pc = "resolve"
    <3>1. ~InLogs(y) /\ y.pc # "scan"  BY <2>4, <2>6 DEF InLogs, SendPcs
    <3>2. x.pc # "idle"  BY <2>1 DEF SendPcs
    <3>. HIDE DEF x
    <3>. QED  BY <1>0, <2>1, <2>2, <2>4, <3>1, <3>2, KeepsPlace DEF x
  <2>. QED  BY <2>5, <2>6
<1>. QED  BY <1>1, <1>2

LEMMA DeadlinesSkip ==
  ASSUME PassInv, SkipInv, NEW r \in Runs, Deadlines(r)
  PROVE  SkipInv'
<1>. DEFINE x == run[r]
<1>1. WatchStep /\ UNCHANGED <<blocks, cursor>>
  BY WatchesMove DEF Deadlines, SweepDeadlines, CheckDue, ResolveDue
<1>2. x.pc \in {"deadlines", "due", "resolve"}  BY DEF Deadlines, SweepDeadlines, CheckDue, ResolveDue
<1>3. x \in Passes  BY <1>2, Bigger DEF PassSound
<1>4. ASSUME NEW y, run' = [run EXCEPT ![r] = y], \/ y = Idle
                                                  \/ y.head = x.head /\ y.pc # "scan" /\ ~InLogs(y)
      PROVE  SkipInv'
  <2>1. CASE y = Idle  BY <1>1, <1>4, <2>1, SkipMoves
  <2>2. CASE y # Idle  BY <1>1, <1>2, <1>4, <2>2, KeepsPlace
  <2>. QED  BY <2>1, <2>2
<1>5. CASE run' = [run EXCEPT ![r] = Idle]  BY <1>4, <1>5
<1>6. ASSUME NEW d, d = x.due \/ d # <<>>, NEW s, NEW pc \in {"due", "resolve", "send"}, pc = "send" => d # <<>>,
             run' = [run EXCEPT ![r] = [x EXCEPT !.pc = pc, !.due = d, !.sends = s]]
      PROVE  SkipInv'
  <2>. DEFINE y == [x EXCEPT !.pc = pc, !.due = d, !.sends = s]
  <2>1. y.pc = pc /\ y.due = d /\ y.head = x.head  BY <1>3 DEF Passes
  <2>. HIDE DEF y
  <2>2. ~InLogs(y)  BY <1>6, <2>1 DEF InLogs, SendPcs
  <2>. QED  BY <1>4, <1>6, <2>1, <2>2 DEF y
<1>7. CASE SweepDeadlines(r) /\ due # {}
  <2>. DEFINE s == SetToSeq(due)
  <2>1. due \in SUBSET Watched /\ IsFiniteSet(Watched)  BY DEF due, Unresolved, Watched, PassInv
  <2>2. IsFiniteSet(due)  BY <2>1, FS_Subset
  <2>3. s # <<>>  BY <1>7, <2>2, SeqOfSet
  <2>4. run' = [run EXCEPT ![r] = [x EXCEPT !.pc = "due", !.due = s]]  BY <1>7 DEF SweepDeadlines
  <2>. HIDE DEF s
  <2>5. [x EXCEPT !.pc = "due", !.due = s] = [x EXCEPT !.pc = "due", !.due = s, !.sends = x.sends]  BY <1>3 DEF Passes
  <2>. QED  BY <1>6, <2>3, <2>4, <2>5
<1>8. CASE CheckDue(r)
  <2>1. x.pc = "due" /\ x.due # <<>>
    <3>1. x.pc = "due"  BY <1>8 DEF CheckDue
    <3>. QED  BY <3>1, Bigger DEF PassSound
  <2>2. CASE Go(r, "resolve")
    <3>1. run' = [run EXCEPT ![r] = [x EXCEPT !.pc = "resolve"]]  BY <2>2 DEF Go, PassInv
    <3>2. [x EXCEPT !.pc = "resolve"] = [x EXCEPT !.pc = "resolve", !.due = x.due, !.sends = x.sends]  BY <1>3 DEF Passes
    <3>. QED  BY <1>6, <3>1, <3>2
  <2>3. CASE ~Go(r, "resolve")
    <3>1. PICK s : run' = [run EXCEPT ![r].pc = "send", ![r].sends = s]  BY <1>8, <2>3 DEF CheckDue
    <3>2. run' = [run EXCEPT ![r] = [x EXCEPT !.pc = "send", !.sends = s]]  BY <3>1 DEF PassInv
    <3>3. [x EXCEPT !.pc = "send", !.sends = s] = [x EXCEPT !.pc = "send", !.due = x.due, !.sends = s]  BY <1>3 DEF Passes
    <3>. QED  BY <1>6, <2>1, <3>2, <3>3
  <2>. QED  BY <2>2, <2>3
<1>9. CASE ResolveDue(r) /\ Len(x.due) # 1
  <2>. DEFINE t == Tail(x.due)
  <2>1. x.pc = "resolve" /\ run' = [run EXCEPT ![r] = [x EXCEPT !.pc = "due", !.due = t]]
    BY <1>9 DEF ResolveDue, NextDue
  <2>2. t # <<>>  BY <1>9, <2>1, DueIs, TailOf
  <2>. HIDE DEF t
  <2>3. [x EXCEPT !.pc = "due", !.due = t] = [x EXCEPT !.pc = "due", !.due = t, !.sends = x.sends]  BY <1>3 DEF Passes
  <2>. QED  BY <1>6, <2>1, <2>2, <2>3
<1>10. SweepDeadlines(r) /\ due = {} => run' = [run EXCEPT ![r] = Idle]  BY DEF SweepDeadlines
<1>11. ResolveDue(r) /\ Len(x.due) = 1 => run' = [run EXCEPT ![r] = Idle]  BY DEF ResolveDue, NextDue
<1>. QED  BY <1>5, <1>7, <1>8, <1>9, <1>10, <1>11 DEF Deadlines

LEMMA FailsSkip ==
  ASSUME ReplayIsNat, PassInv, SkipInv, NEW r \in Runs, Fails(r)
  PROVE  SkipInv'
<1>. DEFINE x == run[r]
<1>0. WatchStep /\ watches' = watches  BY WatchesMove DEF Fails
<1>1. CASE Outage(r)
  <2>1. x.pc = "scan" /\ run' = [run EXCEPT ![r] = Idle] /\ blocks' = blocks  BY <1>1 DEF Outage
  <2>2. x.position \in Int /\ x.head \in Nat /\ REORG_REPLAY \in Nat  BY <2>1, Bigger DEF PassSound, Passes, ReplayIsNat
  <2>3. Len(blocks) \in Nat /\ DOMAIN blocks = 1..Len(blocks)  BY DEF PassInv, ChainTyped
  <2>4. cursor' = cursor \/ CursorSound'
    <3>1. CASE cursor' = x.position - 1
      <4>1. /\ x.position <= x.head + 1 /\ Len(blocks) >= x.head - REORG_REPLAY
            /\ Deep(x) = x.head - REORG_REPLAY /\ Behind(watches, blocks, x)
        BY <2>1 DEF SkipInv, Idle, ScanSound, Deep
      <4>2. Len(blocks) >= (x.position - 1) - REORG_REPLAY  BY <2>2, <2>3, <4>1
      <4>3. \A b \in DOMAIN blocks : b <= (x.position - 1) - REORG_REPLAY => b < x.position /\ b <= Deep(x)
        BY <2>2, <2>3, <4>1
      <4>. QED  BY <1>0, <2>1, <3>1, <4>1, <4>2, <4>3 DEF CursorSound, Behind
    <3>. QED  BY <1>1, <3>1 DEF Outage
  <2>. QED  BY <1>0, <2>1, <2>4, SkipMoves
<1>2. CASE Throws(r)
  <2>. DEFINE none == <<>>
              y == [x EXCEPT !.pc = "scan", !.sends = none, !.logs = none]
  <2>1. /\ x.pc = "insert" /\ x.due = <<>> /\ UNCHANGED <<blocks, cursor>>
        /\ run' = [run EXCEPT ![r] = [x EXCEPT !.pc = "scan", !.sends = <<>>, !.logs = <<>>]]
    BY <1>2 DEF Throws, PassInv
  <2>2. x \in Passes /\ InLogs(x)  BY <2>1, Bigger DEF PassSound, InLogs, SendPcs
  <2>3. run' = [run EXCEPT ![r] = y]  BY <2>1
  <2>. HIDE DEF none
  <2>4. y.pc = "scan" /\ y.head = x.head /\ y.position = x.position  BY <2>2 DEF Passes
  <2>. HIDE DEF y
  <2>5. ~InLogs(y)  BY <2>4 DEF InLogs, SendPcs
  <2>. QED  BY <1>0, <2>1, <2>2, <2>3, <2>4, <2>5, KeepsPlace
<1>3. CASE Die(r)  BY <1>0, <1>3, SkipMoves DEF Die
<1>. QED  BY <1>1, <1>2, <1>3 DEF Fails

\* The chain moves above what the invocations and the cursor rely on.
LEMMA ChainSkips ==
  ASSUME PassInv, SkipInv, UNCHANGED <<cursor, run>>, WatchStep, OrderSound',
         cursor # None => Kept(cursor - REORG_REPLAY),
         \A r \in Runs : run[r] = Idle \/ Kept(Deep(run[r]))
  PROVE  SkipInv'
<1>1. CursorSound'  BY CursorStays DEF SkipInv
<1>2. ASSUME NEW r \in Runs  PROVE run'[r] = Idle \/ ScanSound(watches', blocks', run'[r])
  BY ScanStays DEF SkipInv
<1>. QED  BY <1>1, <1>2 DEF SkipInv

LEMMA GrowSkips ==
  ASSUME NoneIsNoEvent, ReplayIsNat, PassInv, SkipInv, ChainGrows
  PROVE  SkipInv'
<1>1. PICK e \in AllEvents \cup {None} : e \in Events /\ NewBlock(e) /\ blocks' = Append(blocks, e)  BY NewEvents
<1>. DEFINE n == Len(blocks)
<1>2. /\ UNCHANGED <<cursor, run, watches, lapsed>> /\ n \in Nat /\ DOMAIN blocks = 1..n
      /\ Len(blocks') = n + 1 /\ DOMAIN blocks' = 1..(n + 1) /\ \A b \in DOMAIN blocks : blocks'[b] = blocks[b]
  BY NewEvents
<1>3. blocks'[n + 1] = e  BY <1>1, <1>2
<1>4. WatchStep  BY <1>2, WatchesMove
<1>5. OrderSound'
  <2>. SUFFICES ASSUME NEW b \in DOMAIN blocks', NEW p \in Positions, blocks'[b] \in Closings(p)
                PROVE  \E a \in DOMAIN blocks' : a < b /\ blocks'[a] = Opened(p)
    BY DEF OrderSound
  <2>. HIDE DEF n
  <2>1. CASE b \in DOMAIN blocks
    <3>1. PICK a \in DOMAIN blocks : a < b /\ blocks[a] = Opened(p)  BY <1>2, <2>1 DEF SkipInv, OrderSound
    <3>2. a \in DOMAIN blocks' /\ blocks'[a] = blocks[a]  BY <1>2
    <3>. QED  BY <3>1, <3>2
  <2>2. CASE b \notin DOMAIN blocks
    <3>1. b = n + 1  BY <1>2, <2>2
    <3>2. e \in Closings(p)  BY <1>3, <3>1
    <3>3. StillOpen(p)
      <4>1. e.type \in {"OfferClosed", "ListingAuctionRefunded"} /\ e.id = p /\ e # None
        BY <3>2 DEF Closings, NoneIsNoEvent
      <4>2. \A q \in Positions : e # Opened(q)  BY <4>1 DEF Opened
      <4>3. e \notin AuctionClosings  BY <4>1 DEF AuctionClosings, Settled
      <4>4. \A w \in Bidders, m \in 1..MaxBids : e # Bid(w, m)  BY <4>1 DEF Bid
      <4>5. e \in UNION {Closings(q) : q \in {q \in Positions : StillOpen(q)}}
        BY <1>1, <4>1, <4>2, <4>3, <4>4 DEF Events
      <4>6. PICK q \in Positions : StillOpen(q) /\ e \in Closings(q)  BY <4>5
      <4>7. q = p  BY <4>1, <4>6 DEF Closings
      <4>. QED  BY <4>6, <4>7
    <3>4. PICK a \in DOMAIN blocks : blocks[a] = Opened(p)  BY <3>3 DEF StillOpen, OnChain
    <3>5. a < b /\ a \in DOMAIN blocks' /\ blocks'[a] = Opened(p)  BY <1>2, <3>1, <3>4
    <3>. QED  BY <3>5
  <2>. QED  BY <2>1, <2>2
<1>6. ASSUME NEW d, d \in Int, n >= d  PROVE Kept(d)
  <2>. HIDE DEF n
  <2>1. Len(blocks') >= d  BY <1>2, <1>6
  <2>2. \A b \in DOMAIN blocks' : b <= d => b \in DOMAIN blocks  BY <1>2, <1>6
  <2>. QED  BY <1>2, <2>1, <2>2 DEF Kept
<1>7. cursor # None => Kept(cursor - REORG_REPLAY)
  <2>1. cursor # None => cursor - REORG_REPLAY \in Int  BY DEF PassInv, ReplayIsNat
  <2>. QED  BY <1>6, <2>1 DEF SkipInv, CursorSound
<1>8. ASSUME NEW r \in Runs, run[r] # Idle  PROVE Kept(Deep(run[r]))
  <2>1. ScanSound(watches, blocks, run[r]) /\ PassSound(run[r])  BY <1>8 DEF SkipInv, PassInv
  <2>2. Deep(run[r]) \in Int  BY <2>1 DEF PassSound, Passes, Deep, ReplayIsNat
  <2>. QED  BY <1>6, <2>1, <2>2 DEF ScanSound
<1>. QED  BY <1>2, <1>4, <1>5, <1>7, <1>8, ChainSkips

LEMMA ReorgSkips ==
  ASSUME ReplayIsNat, PassInv, SkipInv, ChainReorganises, Finality
  PROVE  SkipInv'
<1>1. /\ UNCHANGED <<cursor, run, watches>> /\ Len(blocks) \in Nat /\ DOMAIN blocks = 1..Len(blocks)
      /\ Len(blocks') \in Nat /\ Len(blocks') < Len(blocks)
      /\ DOMAIN blocks' = 1..Len(blocks') /\ \A b \in DOMAIN blocks' : blocks'[b] = blocks[b]
  BY LessChain
<1>2. WatchStep  BY <1>1, WatchesMove
<1>. DEFINE n == Len(blocks')
            m == Len(blocks)
<1>. HIDE DEF n, m
<1>3. DOMAIN blocks' \subseteq DOMAIN blocks  BY <1>1 DEF n, m
<1>4. OrderSound'
  <2>. SUFFICES ASSUME NEW b \in DOMAIN blocks', NEW p \in Positions, blocks'[b] \in Closings(p)
                PROVE  \E a \in DOMAIN blocks' : a < b /\ blocks'[a] = Opened(p)
    BY DEF OrderSound
  <2>1. PICK a \in DOMAIN blocks : a < b /\ blocks[a] = Opened(p)  BY <1>1, <1>3 DEF SkipInv, OrderSound
  <2>2. a \in DOMAIN blocks'  BY <1>1, <2>1
  <2>. QED  BY <1>1, <2>1, <2>2
<1>5. \A d : Len(blocks') >= d => Kept(d)  BY <1>1, <1>3 DEF Kept
<1>6. cursor # None => Kept(cursor - REORG_REPLAY)  BY <1>5 DEF Finality
<1>7. ASSUME NEW r \in Runs, run[r] # Idle  PROVE Kept(Deep(run[r]))
  <2>1. run[r] \in Passes  BY <1>7 DEF PassInv, PassSound
  <2>2. run[r].pc # "idle"  BY <2>1 DEF Passes, Pcs, SendPcs
  <2>. QED  BY <1>5, <2>2 DEF Finality, Deep
<1>. QED  BY <1>1, <1>2, <1>4, <1>6, <1>7, ChainSkips

LEMMA SkipStep ==
  ASSUME ReplayIsNat, RoundIsNoPosition, NoneIsNoEvent, PassInv, SkipInv, [Next /\ Finality]_sweepVars
  PROVE  SkipInv'
<1>0. PassInv'  BY PassStep
<1>1. ASSUME UNCHANGED <<blocks, cursor, run, watches>>  PROVE SkipInv'
  <2>1. WatchStep  BY <1>1, WatchesMove
  <2>2. OrderSound'  BY <1>1 DEF SkipInv, OrderSound
  <2>3. cursor # None => Kept(cursor - REORG_REPLAY)  BY <1>1 DEF SkipInv, CursorSound, Kept
  <2>4. \A r \in Runs : run[r] = Idle \/ Kept(Deep(run[r]))  BY <1>1 DEF SkipInv, ScanSound, Kept
  <2>. QED  BY <1>1, <2>1, <2>2, <2>3, <2>4, ChainSkips
<1>2. CASE UNCHANGED sweepVars  BY <1>1, <1>2 DEF sweepVars, scanVars
<1>3. ASSUME NEW r \in Runs, SweepStep(r) \/ Fails(r)  PROVE SkipInv'
  BY <1>0, <1>3, ScanSkips, HandleSkips, NotifySkips, DeadlinesSkip, FailsSkip DEF SweepStep
<1>4. CASE ChainGrows  BY <1>4, GrowSkips
<1>5. CASE ChainReorganises /\ Finality  BY <1>5, ReorgSkips
<1>6. CASE \E e \in Entities : Lapses(e)  BY <1>1, <1>6 DEF Lapses, scanVars
<1>7. CASE \E w \in Wallets : LinkWallet(w) /\ UNCHANGED <<watches, lapsed>>
  BY <1>1, <1>7 DEF LinkWallet, scanVars
<1>. QED  BY <1>2, <1>3, <1>4, <1>5, <1>6, <1>7 DEF Next

LEMMA SkipSound == ASSUME ReplayIsNat, PassInv, SkipInv  PROVE NothingSkipped
<1>. SUFFICES ASSUME cursor # None, NEW p \in Positions
              PROVE  /\ Opened(p) \in Through(cursor - REORG_REPLAY) => WatchOf(p) # "none"
                     /\ Closings(p) \cap Through(cursor - REORG_REPLAY) # {} => WatchOf(p) = "resolved"
  BY DEF NothingSkipped, WatchOf
<1>1. \A e \in Through(cursor - REORG_REPLAY) : Handled(watches, e)  BY DEF Through, SkipInv, CursorSound
<1>. QED  BY <1>1 DEF Handled, WatchOf

\* However the invocations of the sweep overlap, fail and die, once the cursor
\* has left a position's event REORG_REPLAY blocks behind, the beneficiary of
\* the position is watched, and no longer watched if the event closed it.
THEOREM SweepSkipsNothing == FinalSpec => []NothingSkipped
<1>1. Init => PassInv /\ SkipInv  BY NotesFirst, SkipFirst
<1>2. PassInv /\ SkipInv /\ [Next /\ Finality]_sweepVars => (PassInv /\ SkipInv)'
  BY ReplayIsNat, RoundIsNoPosition, NoneIsNoEvent, PassStep, SkipStep
<1>3. PassInv /\ SkipInv => NothingSkipped  BY ReplayIsNat, SkipSound
<1>. QED  BY <1>1, <1>2, <1>3, PTL DEF FinalSpec

-----------------------------------------------------------------------------
(* What an invocation acts on has happened: NewsInv. *)

LogsSent(S, x) == \A i \in DOMAIN x.logs : x.logs[i] \in S
DueLapsed(L, x) == \A i \in DOMAIN x.due : x.due[i][1] \in L
\* It mails what is recorded.
Recorded(N, x) == x.pc \in {"mail", "mark"} => Head(x.sends) \in N
NewsSound(S, L, N, x) == LogsSent(S, x) /\ DueLapsed(L, x) /\ Recorded(N, x)

ChainSent == \A b \in DOMAIN blocks : blocks[b] # None => blocks[b] \in sent
\* A round is closed after it lapsed, and so are its watches.
RoundSound ==
  "round" \notin lapsed => /\ AuctionClosings \cap sent = {}
                           /\ \A w \in Bidders : watches[<<"round", w>>] # "resolved"
NewsInv == None \notin sent /\ ChainSent /\ RoundSound /\ \A r \in Runs : run[r] = Idle \/ NewsSound(sent, lapsed, DOMAIN notes, run[r])

\* What an invocation is after a step, by its step.
ScanStep(r, y) ==
  /\ y.due = <<>>
  /\ \/ ReadHead(r) /\ y.pc = "attach" /\ y.head = Len(blocks) /\ y.logs = <<>>
     \/ /\ run[r].pc \in {"cursor", "scan", "event"} /\ run[r].head = y.head /\ PassSound(run[r])
        /\ \/ /\ run[r].pc = "cursor" /\ y.pc \in {"deadlines", "scan"} /\ y.logs = run[r].logs
              /\ y.position = cursorFor /\ (y.pc = "scan" => ~(cursorFor > y.head)) /\ cursor' = cursor
           \/ /\ run[r].pc = "scan" /\ y.pc = "event" /\ y.upto \in run[r].position..y.head
              /\ y.logs = LogsOf(run[r].position, y.upto) /\ y.position = run[r].position /\ cursor' = cursor
           \/ /\ run[r].pc = "event" /\ run[r].logs = <<>> /\ y.pc = "scan" /\ y.logs = <<>>
              /\ y.position = run[r].upto + 1 /\ cursor' \in {cursor, run[r].upto}
           \/ /\ run[r].pc = "scan" /\ y.pc = "deadlines" /\ y.logs = run[r].logs /\ cursor' = run[r].position - 1
LEMMA ScanBecomes ==
  ASSUME PassInv, NEW r \in Runs, Scan(r)
  PROVE  /\ UNCHANGED <<blocks, sent, watches, lapsed, noteVars>>
         /\ \E y : run' = [run EXCEPT ![r] = y] /\ ScanStep(r, y)
<1>. DEFINE x == run[r]
<1>1. UNCHANGED <<blocks, sent, watches, lapsed, noteVars>>
  BY DEF Scan, ReadHead, BeginScan, GetLogs, ChunkDone, EndScan
<1>2. CASE ReadHead(r)
  <2>. DEFINE y == [pc |-> "attach", head |-> Len(blocks), from |-> 0, position |-> 0, upto |-> 0, logs |-> <<>>,
                    sends |-> <<>>, profile |-> FALSE, due |-> <<>>]
  <2>1. run' = [run EXCEPT ![r] = y]  BY <1>2 DEF ReadHead
  <2>2. y.pc = "attach" /\ y.head = Len(blocks) /\ y.logs = <<>> /\ y.due = <<>>  OBVIOUS
  <2>. HIDE DEF y
  <2>. QED  BY <1>1, <1>2, <2>1, <2>2 DEF ScanStep, ReadHead
<1>3. ASSUME x.pc \in {"cursor", "scan", "event"}  PROVE PassSound(x) /\ x \in Passes /\ x.due = <<>>
  <2>1. PassSound(x)  BY <1>3, Bigger
  <2>. QED  BY <1>3, <2>1 DEF PassSound
<1>4. CASE BeginScan(r)
  <2>. DEFINE pc == IF cursorFor > x.head THEN "deadlines" ELSE "scan"
              y == [x EXCEPT !.from = cursorFor, !.position = cursorFor, !.pc = pc]
  <2>1. x.pc = "cursor" /\ cursor' = cursor  BY <1>4 DEF BeginScan
  <2>2. run' = [run EXCEPT ![r] = y]  BY <1>4 DEF BeginScan, PassInv
  <2>3. y.pc = pc /\ y.head = x.head /\ y.position = cursorFor /\ y.logs = x.logs /\ y.due = x.due
    BY <1>3, <2>1 DEF Passes
  <2>4. pc \in {"deadlines", "scan"} /\ (pc = "scan" => ~(cursorFor > x.head))  OBVIOUS
  <2>. HIDE DEF pc, y
  <2>. QED  BY <1>1, <1>3, <2>1, <2>2, <2>3, <2>4 DEF ScanStep
<1>5. CASE GetLogs(r)
  <2>1. PICK last \in x.position..x.head :
          run' = [run EXCEPT ![r].upto = last, ![r].pc = "event", ![r].logs = LogsOf(x.position, last)]
    BY <1>5 DEF GetLogs
  <2>. DEFINE L == LogsOf(x.position, last)
              y == [x EXCEPT !.upto = last, !.pc = "event", !.logs = L]
  <2>2. x.pc = "scan" /\ cursor' = cursor  BY <1>5 DEF GetLogs
  <2>3. run' = [run EXCEPT ![r] = y]  BY <2>1 DEF PassInv
  <2>4. y.pc = "event" /\ y.logs = L /\ y.upto = last /\ y.head = x.head /\ y.position = x.position /\ y.due = x.due
    BY <1>3, <2>2 DEF Passes
  <2>. HIDE DEF y
  <2>. QED  BY <1>1, <1>3, <2>2, <2>3, <2>4 DEF ScanStep
<1>6. CASE ChunkDone(r)
  <2>. DEFINE n == x.upto + 1
              y == [x EXCEPT !.position = n, !.pc = "scan"]
  <2>1. x.pc = "event" /\ x.logs = <<>> /\ cursor' \in {cursor, x.upto}  BY <1>6 DEF ChunkDone
  <2>2. run' = [run EXCEPT ![r] = y]  BY <1>6 DEF ChunkDone, PassInv
  <2>. HIDE DEF n
  <2>3. y.pc = "scan" /\ y.position = n /\ y.head = x.head /\ y.logs = x.logs /\ y.due = x.due
    BY <1>3, <2>1 DEF Passes
  <2>. HIDE DEF y
  <2>. QED  BY <1>1, <1>3, <2>1, <2>2, <2>3 DEF ScanStep, n
<1>7. CASE EndScan(r)
  <2>. DEFINE y == [x EXCEPT !.pc = "deadlines"]
  <2>1. x.pc = "scan" /\ cursor' = x.position - 1 /\ run' = [run EXCEPT ![r] = y]  BY <1>7 DEF EndScan, Go, PassInv
  <2>2. y.pc = "deadlines" /\ y.head = x.head /\ y.logs = x.logs /\ y.due = x.due  BY <1>3, <2>1 DEF Passes
  <2>. HIDE DEF y
  <2>. QED  BY <1>1, <1>3, <2>1, <2>2 DEF ScanStep
<1>. QED  BY <1>2, <1>4, <1>5, <1>6, <1>7 DEF Scan

DueStep(r, y) ==
  \/ y = Idle
  \/ /\ y.logs = run[r].logs /\ y.head = run[r].head /\ y.due # <<>>
     /\ \/ SweepDeadlines(r) /\ y.pc = "due" /\ y.due = SetToSeq(due) /\ IsFiniteSet(due)
        \/ CheckDue(r) /\ Go(r, "resolve") /\ y.pc = "resolve" /\ y.due = run[r].due
        \/ /\ CheckDue(r) /\ y.pc = "send" /\ y.due = run[r].due /\ Due(r)[1] \in Positions
           /\ \E kind \in {"offer.refundable", "offer.settlement-ready"} : y.sends = <<Key(Due(r)[2], kind, Due(r)[1])>>
        \/ ResolveDue(r) /\ y.pc = "due" /\ y.due = Tail(run[r].due)
LEMMA DeadlinesBecome ==
  ASSUME PassInv, NEW r \in Runs, Deadlines(r)
  PROVE  /\ UNCHANGED <<blocks, sent, cursor, lapsed, noteVars>> /\ WatchStep
         /\ run[r].pc \in {"deadlines", "due", "resolve"} /\ PassSound(run[r])
         /\ ResolveDue(r) \/ UNCHANGED watches
         /\ \E y : run' = [run EXCEPT ![r] = y] /\ DueStep(r, y)
<1>. DEFINE x == run[r]
<1>1. /\ UNCHANGED <<blocks, sent, cursor, lapsed, noteVars>> /\ x.pc \in {"deadlines", "due", "resolve"}
      /\ WatchStep /\ (ResolveDue(r) \/ UNCHANGED watches)
  <2>1. UNCHANGED <<blocks, sent, cursor, lapsed, noteVars>> /\ x.pc \in {"deadlines", "due", "resolve"}
    BY DEF Deadlines, SweepDeadlines, CheckDue, ResolveDue
  <2>2. WatchStep  BY WatchesMove DEF Deadlines, SweepDeadlines, CheckDue, ResolveDue
  <2>3. ResolveDue(r) \/ UNCHANGED watches  BY DEF Deadlines, SweepDeadlines, CheckDue
  <2>. QED  BY <2>1, <2>2, <2>3
<1>2. PassSound(x) /\ x \in Passes  BY <1>1, Bigger DEF PassSound
<1>3. CASE run' = [run EXCEPT ![r] = Idle]  BY <1>1, <1>2, <1>3 DEF DueStep
<1>4. ASSUME NEW pc, NEW d
      PROVE  LET y == [x EXCEPT !.pc = pc, !.due = d] IN y.pc = pc /\ y.due = d /\ y.logs = x.logs /\ y.head = x.head
  BY <1>2 DEF Passes
<1>5. CASE SweepDeadlines(r) /\ due # {}
  <2>. DEFINE s == SetToSeq(due)
              y == [x EXCEPT !.pc = "due", !.due = s]
  <2>1. due \in SUBSET Watched /\ IsFiniteSet(Watched)  BY DEF due, Unresolved, Watched, PassInv
  <2>2. IsFiniteSet(due)  BY <2>1, FS_Subset
  <2>3. s # <<>>  BY <1>5, <2>2, SeqOfSet
  <2>4. run' = [run EXCEPT ![r] = y]  BY <1>5 DEF SweepDeadlines
  <2>. HIDE DEF s
  <2>5. y.pc = "due" /\ y.due = s /\ y.logs = x.logs /\ y.head = x.head  BY <1>4
  <2>. HIDE DEF y
  <2>6. DueStep(r, y)  BY <1>5, <2>2, <2>3, <2>5 DEF DueStep, s
  <2>. QED  BY <1>1, <1>2, <2>4, <2>6
<1>6. CASE CheckDue(r)
  <2>1. x.due # <<>>
    <3>1. x.pc = "due"  BY <1>6 DEF CheckDue
    <3>. QED  BY <1>2, <3>1 DEF PassSound
  <2>2. CASE Go(r, "resolve")
    <3>. DEFINE y == [x EXCEPT !.pc = "resolve"]
    <3>1. run' = [run EXCEPT ![r] = y]  BY <2>2 DEF Go, PassInv
    <3>2. y.pc = "resolve" /\ y.due = x.due /\ y.logs = x.logs /\ y.head = x.head  BY <1>2 DEF Passes
    <3>. HIDE DEF y
    <3>3. DueStep(r, y)  BY <1>6, <2>1, <2>2, <3>2 DEF DueStep
    <3>. QED  BY <1>1, <1>2, <3>1, <3>3
  <2>3. CASE ~Go(r, "resolve")
    <3>1. PICK kind \in {"offer.refundable", "offer.settlement-ready"} :
            run' = [run EXCEPT ![r].pc = "send", ![r].sends = <<Key(Due(r)[2], kind, Due(r)[1])>>]
      BY <1>6, <2>3 DEF CheckDue
    <3>2. Due(r)[1] \in Positions  BY <1>6, <2>3 DEF CheckDue
    <3>. DEFINE s == <<Key(Due(r)[2], kind, Due(r)[1])>>
                y == [x EXCEPT !.pc = "send", !.sends = s]
    <3>3. run' = [run EXCEPT ![r] = y]  BY <3>1 DEF PassInv
    <3>. HIDE DEF s
    <3>4. y.pc = "send" /\ y.sends = s /\ y.due = x.due /\ y.logs = x.logs /\ y.head = x.head  BY <1>2 DEF Passes
    <3>. HIDE DEF y
    <3>5. DueStep(r, y)  BY <1>6, <2>1, <3>2, <3>4 DEF DueStep, s
    <3>. QED  BY <1>1, <1>2, <3>3, <3>5
  <2>. QED  BY <2>2, <2>3
<1>7. CASE ResolveDue(r) /\ Len(x.due) # 1
  <2>. DEFINE t == Tail(x.due)
              y == [x EXCEPT !.pc = "due", !.due = t]
  <2>1. x.pc = "resolve" /\ run' = [run EXCEPT ![r] = y]  BY <1>7 DEF ResolveDue, NextDue
  <2>2. t # <<>>  BY <1>7, <2>1, DueIs, TailOf
  <2>. HIDE DEF t
  <2>3. y.pc = "due" /\ y.due = t /\ y.logs = x.logs /\ y.head = x.head  BY <1>4
  <2>. HIDE DEF y
  <2>4. DueStep(r, y)  BY <1>7, <2>2, <2>3 DEF DueStep, t
  <2>. QED  BY <1>1, <1>2, <2>1, <2>4
<1>8. SweepDeadlines(r) /\ due = {} => run' = [run EXCEPT ![r] = Idle]  BY DEF SweepDeadlines
<1>9. ResolveDue(r) /\ Len(x.due) = 1 => run' = [run EXCEPT ![r] = Idle]  BY DEF ResolveDue, NextDue
<1>. QED  BY <1>3, <1>5, <1>6, <1>7, <1>8, <1>9 DEF Deadlines

LEMMA NewsFirst == Init => NewsInv
BY DEF Init, ScanInit, NewsInv, ChainSent, RoundSound, Watches, Idle

LEMMA NoneApart == ASSUME NoneIsNoEvent  PROVE None \notin AllEvents
<1>1. None \notin Openings /\ None \notin PositionClosings  BY DEF NoneIsNoEvent, Openings, PositionClosings
<1>2. None \notin BidEvents  BY DEF NoneIsNoEvent, BidEvents
<1>3. None \notin AuctionClosings  BY DEF NoneIsNoEvent, AuctionClosings
<1>. QED  BY <1>1, <1>2, <1>3 DEF AllEvents

\* An invocation moves on; the chain stays.
LEMMA NewsMoves ==
  ASSUME PassInv, NewsInv, NEW r \in Runs, NEW y, run' = [run EXCEPT ![r] = y], UNCHANGED <<blocks, sent, lapsed>>,
         DOMAIN notes \subseteq DOMAIN notes', y = Idle \/ NewsSound(sent, lapsed, DOMAIN notes', y),
         "round" \notin lapsed =>
           \A w \in Bidders : watches'[<<"round", w>>] = "resolved" => watches[<<"round", w>>] = "resolved"
  PROVE  NewsInv'
<1>1. RoundSound'  BY DEF NewsInv, RoundSound, AuctionClosings, Settled
<1>2. None \notin sent' /\ ChainSent'  BY DEF NewsInv, ChainSent
<1>3. ASSUME NEW q \in Runs  PROVE run'[q] = Idle \/ NewsSound(sent', lapsed', DOMAIN notes', run'[q])
  <2>1. run'[q] = IF q = r THEN y ELSE run[q]  BY DEF PassInv
  <2>2. CASE q = r  BY <2>1, <2>2
  <2>3. CASE q # r
    <3>1. run'[q] = run[q] /\ (run[q] = Idle \/ NewsSound(sent, lapsed, DOMAIN notes, run[q]))
      BY <2>1, <2>3 DEF NewsInv
    <3>. QED  BY <3>1 DEF NewsSound, Recorded
  <2>. QED  BY <2>2, <2>3
<1>. QED  BY <1>1, <1>2, <1>3 DEF NewsInv

LEMMA LogsStay ==
  ASSUME NEW S, NEW x, PassSound(x), LogsSent(S, x), NEW y, y.logs \in {x.logs, Tail(x.logs)}, x.logs # <<>>
  PROVE  LogsSent(S, y)
<1>1. x.logs \in Seq(AllEvents)  BY DEF PassSound, Passes
<1>2. CASE y.logs = x.logs  BY <1>2 DEF LogsSent
<1>3. CASE y.logs = Tail(x.logs)
  <2>1. \A i \in 1..(Len(x.logs) - 1) : Tail(x.logs)[i] = x.logs[i + 1] /\ i + 1 \in DOMAIN x.logs
    BY <1>1, TailOf
  <2>2. DOMAIN Tail(x.logs) = 1..(Len(x.logs) - 1)  BY <1>1, TailOf
  <2>. QED  BY <1>3, <2>1, <2>2 DEF LogsSent
<1>. QED  BY <1>2, <1>3

LEMMA ScanNews ==
  ASSUME PassInv, NewsInv, NEW r \in Runs, Scan(r)
  PROVE  NewsInv'
<1>. DEFINE x == run[r]
<1>1. PICK y : run' = [run EXCEPT ![r] = y] /\ ScanStep(r, y)  BY ScanBecomes
<1>2. UNCHANGED <<blocks, sent, watches, lapsed, notes>>  BY ScanBecomes DEF noteVars
<1>3. y.pc \notin {"mail", "mark"} /\ y.due = <<>>  BY <1>1 DEF ScanStep
<1>4. LogsSent(sent, y)
  <2>1. CASE y.logs = <<>>  BY <2>1 DEF LogsSent
  <2>2. CASE x.pc # "idle" /\ y.logs = x.logs  BY <2>2 DEF NewsInv, NewsSound, LogsSent, Idle
  <2>3. CASE x.pc = "scan" /\ y.logs = LogsOf(x.position, y.upto) /\ y.upto \in x.position..y.head
    <3>1. x.position \in Int /\ y.upto \in Int  BY <2>3, Bigger DEF PassSound, Passes
    <3>2. \A i \in DOMAIN y.logs : \E b \in EventBlocks(x.position, y.upto) : y.logs[i] = blocks[b]
      <4>1. ChainTyped  BY DEF PassInv
      <4>2. \A i \in DOMAIN LogsOf(x.position, y.upto) :
              \E b \in EventBlocks(x.position, y.upto) : LogsOf(x.position, y.upto)[i] = blocks[b]
        BY <3>1, <4>1, LogsAre
      <4>. QED  BY <2>3, <4>2
    <3>. QED  BY <3>2 DEF LogsSent, EventBlocks, NewsInv, ChainSent
  <2>. QED  BY <1>1, <2>1, <2>2, <2>3 DEF ScanStep
<1>5. NewsSound(sent, lapsed, DOMAIN notes', y)  BY <1>3, <1>4 DEF NewsSound, DueLapsed, Recorded
<1>. QED  BY <1>1, <1>2, <1>5, NewsMoves

LEMMA HandleNews ==
  ASSUME RoundIsNoPosition, PassInv, NewsInv, NEW r \in Runs, Handle(r)
  PROVE  NewsInv'
<1>. DEFINE x == run[r]
            e == Event(r)
<1>1. PICK y : run' = [run EXCEPT ![r] = y] /\ Onward(x, y)  BY HandleBecomes
<1>2. /\ UNCHANGED <<blocks, sent, lapsed, notes>> /\ PassSound(x) /\ x.logs # <<>> /\ x.logs \in Seq(AllEvents)
      /\ e \in AllEvents /\ InLogs(x)
  BY HandleBecomes DEF noteVars
<1>3. NewsSound(sent, lapsed, DOMAIN notes, x)  BY <1>2 DEF NewsInv, InLogs, SendPcs, Idle
<1>4. LogsSent(sent, y)
  <2>1. y.logs \in {x.logs, Tail(x.logs)} /\ LogsSent(sent, x)  BY <1>1, <1>3 DEF NewsSound, Onward
  <2>. QED  BY <1>2, <2>1, LogsStay
<1>5. NewsSound(sent, lapsed, DOMAIN notes', y)  BY <1>1, <1>4 DEF NewsSound, DueLapsed, Recorded, Onward
<1>6. e \in sent
  <2>1. e = x.logs[1] /\ 1 \in DOMAIN x.logs  BY <1>2, TailOf DEF Event
  <2>. QED  BY <1>3, <2>1 DEF NewsSound, LogsSent
<1>7. ASSUME "round" \notin lapsed, NEW w \in Bidders, watches'[<<"round", w>>] = "resolved"
      PROVE  watches[<<"round", w>>] = "resolved"
  <2>1. watches \in [Watches -> {"none", "open", "resolved"}] /\ <<"round", w>> \in Watches  BY DEF PassInv, Watches
  <2>2. CASE UNCHANGED watches  BY <1>7, <2>2
  <2>3. ASSUME NEW entity, NEW wallet, watch(entity, wallet)  PROVE watches[<<"round", w>>] = "resolved"
    BY <1>7, <2>1, <2>3 DEF watch
  <2>4. ASSUME NEW entity, resolveWatch(entity), entity # "round"  PROVE watches[<<"round", w>>] = "resolved"
    BY <1>7, <2>1, <2>4 DEF resolveWatch
  <2>5. CASE HandleClosed(r)
    <3>1. e.type \in {"OfferClosed", "ListingAuctionRefunded"} /\ resolveWatch(e.id)  BY <2>5 DEF HandleClosed
    <3>2. e.id \in Positions  BY <1>2, <3>1, EventIs
    <3>. QED  BY <2>4, <3>1, <3>2 DEF RoundIsNoPosition
  <2>6. CASE HandleSettled(r)
    <3>1. e.type \in {"AuctionSettled", "AuctionSettlementRefunded"}  BY <2>6 DEF HandleSettled
    <3>2. e \in AuctionClosings  BY <1>2, <3>1, EventIs
    <3>. QED  BY <1>6, <1>7, <3>2 DEF NewsInv, RoundSound
  <2>7. CASE HandleOpened(r) \/ WatchBidder(r)  BY <2>3, <2>7 DEF HandleOpened, WatchBidder
  <2>8. CASE OfferReceived(r) \/ HandleBid(r)  BY <2>2, <2>8 DEF OfferReceived, HandleBid
  <2>. QED  BY <2>5, <2>6, <2>7, <2>8 DEF Handle
<1>. HIDE DEF e
<1>. QED  BY <1>1, <1>2, <1>5, <1>7, NewsMoves

LEMMA NotifyNews ==
  ASSUME PassInv, NewsInv, NEW r \in Runs, Notify(r)
  PROVE  NewsInv'
<1>. DEFINE x == run[r]
<1>0. UNCHANGED <<watches, lapsed>>  BY DEF Notify
<1>1. CASE reconcileNotificationProfileLinks(r)
  <2>. DEFINE y == [x EXCEPT !.pc = "cursor"]
  <2>1. x.pc = "attach" /\ run' = [run EXCEPT ![r] = y] /\ UNCHANGED <<blocks, sent>> /\ notes' = Attached(linked)
    BY <1>1 DEF reconcileNotificationProfileLinks, Go, PassInv
  <2>2. x \in Passes /\ NewsSound(sent, lapsed, DOMAIN notes, x)  BY <2>1, Bigger DEF PassSound, NewsInv, Idle
  <2>3. y.pc = "cursor" /\ y.logs = x.logs /\ y.due = x.due  BY <2>2 DEF Passes
  <2>4. DOMAIN notes' = DOMAIN notes  BY <2>1 DEF Attached
  <2>. HIDE DEF y
  <2>5. NewsSound(sent, lapsed, DOMAIN notes', y)  BY <2>2, <2>3 DEF NewsSound, LogsSent, DueLapsed, Recorded
  <2>. QED  BY <1>0, <2>1, <2>4, <2>5, NewsMoves
<1>2. CASE ~reconcileNotificationProfileLinks(r)
  <2>1. /\ PassSound(x) /\ x.pc \in SendPcs /\ UNCHANGED <<blocks, sent>> /\ DOMAIN notes \subseteq DOMAIN notes'
        /\ (x.pc = "insert" => Sending(r) \in DOMAIN notes')
    BY <1>2, Notifies DEF Notify
  <2>2. PICK y : run' = [run EXCEPT ![r] = y] /\ Notified(x, y)  BY <1>2, Notifies DEF Notify
  <2>3. NewsSound(sent, lapsed, DOMAIN notes, x)  BY <2>1 DEF NewsInv, SendPcs, Idle
  <2>4. NotifyFields(x, y)  BY <2>1, <2>2, NotifiedIs
  <2>5. LogsSent(sent, y)
    <3>1. CASE y.logs = x.logs  BY <2>3, <3>1 DEF NewsSound, LogsSent
    <3>2. CASE y.logs = Tail(x.logs) /\ x.due = <<>>
      <4>1. x.logs # <<>>  BY <2>1, <3>2 DEF PassSound, InLogs, SendPcs
      <4>2. y.logs \in {x.logs, Tail(x.logs)} /\ LogsSent(sent, x)  BY <2>3, <3>2 DEF NewsSound
      <4>. QED  BY <2>1, <4>1, <4>2, LogsStay
    <3>. QED  BY <2>4, <3>1, <3>2 DEF NotifyFields
  <2>6. Recorded(DOMAIN notes', y)
    <3>1. ASSUME y.pc \in {"mail", "mark"}  PROVE Head(y.sends) \in DOMAIN notes'
      <4>1. /\ y.sends = x.sends /\ x.pc \in {"send", "insert", "mail"} /\ y.pc = NextSend[x.pc]
        BY <2>1, <2>4, <3>1 DEF NotifyFields, SendPcs
      <4>2. x.pc \in {"insert", "mail"}  BY <3>1, <4>1 DEF NextSend
      <4>. QED  BY <2>1, <2>3, <4>1, <4>2 DEF NewsSound, Recorded, Sending
    <3>. QED  BY <3>1 DEF Recorded
  <2>7. NewsSound(sent, lapsed, DOMAIN notes', y)
    BY <2>3, <2>4, <2>5, <2>6 DEF NewsSound, DueLapsed, NotifyFields
  <2>. QED  BY <1>0, <2>1, <2>2, <2>7, NewsMoves
<1>. QED  BY <1>1, <1>2

LEMMA DeadlineNews ==
  ASSUME RoundIsNoPosition, PassInv, NewsInv, NEW r \in Runs, Deadlines(r)
  PROVE  NewsInv'
<1>. DEFINE x == run[r]
<1>1. PICK y : run' = [run EXCEPT ![r] = y] /\ DueStep(r, y)  BY DeadlinesBecome
<1>2. /\ UNCHANGED <<blocks, sent, lapsed, notes>> /\ x.pc \in {"deadlines", "due", "resolve"} /\ PassSound(x)
      /\ (ResolveDue(r) \/ UNCHANGED watches)
  BY DeadlinesBecome DEF noteVars
<1>3. NewsSound(sent, lapsed, DOMAIN notes, x)  BY <1>2 DEF NewsInv, Idle
<1>4. CASE y = Idle /\ UNCHANGED watches  BY <1>1, <1>2, <1>4, NewsMoves
<1>5. y = Idle \/ NewsSound(sent, lapsed, DOMAIN notes', y)
  <2>. SUFFICES ASSUME y # Idle  PROVE NewsSound(sent, lapsed, DOMAIN notes', y)  OBVIOUS
  <2>1. LogsSent(sent, y) /\ Recorded(DOMAIN notes', y)
    BY <1>1, <1>3 DEF DueStep, NewsSound, LogsSent, Recorded
  <2>2. CASE y.due = SetToSeq(due) /\ IsFiniteSet(due)
    <3>1. SetToSeq(due) \in Seq(due)  BY <2>2, SeqOfSet
    <3>2. \A i \in DOMAIN SetToSeq(due) : SetToSeq(due)[i] \in due  BY <3>1
    <3>3. \A w \in due : w[1] \in lapsed  BY DEF due, Unresolved
    <3>. QED  BY <2>1, <2>2, <3>2, <3>3 DEF NewsSound, DueLapsed
  <2>3. CASE y.due = x.due  BY <1>3, <2>1, <2>3 DEF NewsSound, DueLapsed
  <2>4. CASE y.due = Tail(x.due) /\ ResolveDue(r)
    <3>1. x.due \in Seq(Watches) /\ x.due # <<>>  BY <2>4, DueIs DEF ResolveDue
    <3>2. DOMAIN Tail(x.due) = 1..(Len(x.due) - 1)  BY <3>1, TailOf
    <3>3. \A i \in 1..(Len(x.due) - 1) : Tail(x.due)[i] = x.due[i + 1] /\ i + 1 \in DOMAIN x.due
      BY <3>1, TailOf
    <3>. QED  BY <1>3, <2>1, <2>4, <3>2, <3>3 DEF NewsSound, DueLapsed
  <2>. QED  BY <1>1, <2>2, <2>3, <2>4 DEF DueStep
<1>6. ASSUME "round" \notin lapsed, NEW w \in Bidders, watches'[<<"round", w>>] = "resolved"
      PROVE  watches[<<"round", w>>] = "resolved"
  <2>1. watches \in [Watches -> {"none", "open", "resolved"}] /\ <<"round", w>> \in Watches  BY DEF PassInv, Watches
  <2>2. CASE ResolveDue(r)
    <3>1. watches' = [watches EXCEPT ![Due(r)] = "resolved"] /\ x.pc = "resolve"  BY <2>2 DEF ResolveDue
    <3>2. Due(r) = x.due[1] /\ 1 \in DOMAIN x.due
      <4>1. x.due # <<>> /\ x.due \in Seq(Watches) /\ Due(r) = x.due[1]  BY <3>1, DueIs
      <4>. QED  BY <4>1, TailOf
    <3>3. Due(r)[1] \in lapsed  BY <1>3, <3>2 DEF NewsSound, DueLapsed
    <3>4. Due(r) # <<"round", w>>  BY <1>6, <3>3
    <3>. QED  BY <1>6, <2>1, <3>1, <3>4
  <2>. QED  BY <1>2, <1>6, <2>2
<1>. QED  BY <1>1, <1>2, <1>5, <1>6, NewsMoves

LEMMA FailsNews ==
  ASSUME PassInv, NewsInv, NEW r \in Runs, Fails(r)
  PROVE  NewsInv'
<1>. DEFINE x == run[r]
<1>1. UNCHANGED <<blocks, sent, lapsed, notes, watches>>  BY DEF Fails, Outage, Throws, Die, noteVars
<1>2. CASE Outage(r) \/ Die(r)
  <2>1. run' = [run EXCEPT ![r] = Idle]  BY <1>2 DEF Outage, Die
  <2>. QED  BY <1>1, <2>1, NewsMoves
<1>3. CASE Throws(r)
  <2>. DEFINE none == <<>>
              y == [x EXCEPT !.pc = "scan", !.sends = none, !.logs = none]
  <2>1. x.pc = "insert" /\ x.due = <<>> /\ run' = [run EXCEPT ![r] = [x EXCEPT !.pc = "scan", !.sends = <<>>, !.logs = <<>>]]
    BY <1>3 DEF Throws, PassInv
  <2>2. x \in Passes  BY <2>1, Bigger DEF PassSound
  <2>3. run' = [run EXCEPT ![r] = y]  BY <2>1
  <2>. HIDE DEF none
  <2>4. y.pc = "scan" /\ y.due = x.due /\ y.logs = none  BY <2>2 DEF Passes
  <2>. HIDE DEF y
  <2>5. DOMAIN y.logs = {} /\ DOMAIN y.due = {}  BY <2>1, <2>4 DEF none
  <2>6. NewsSound(sent, lapsed, DOMAIN notes', y)  BY <2>4, <2>5 DEF NewsSound, LogsSent, DueLapsed, Recorded
  <2>. QED  BY <1>1, <2>3, <2>6, NewsMoves
<1>. QED  BY <1>2, <1>3 DEF Fails

LEMMA NewsGrows ==
  ASSUME PassInv, NewsInv, UNCHANGED run, sent \subseteq sent', lapsed \subseteq lapsed',
         DOMAIN notes \subseteq DOMAIN notes', None \notin sent', ChainSent', RoundSound'
  PROVE  NewsInv'
<1>1. ASSUME NEW r \in Runs  PROVE run'[r] = Idle \/ NewsSound(sent', lapsed', DOMAIN notes', run'[r])
  BY DEF NewsInv, NewsSound, LogsSent, DueLapsed, Recorded
<1>. QED  BY <1>1 DEF NewsInv

LEMMA NewsStep ==
  ASSUME ReplayIsNat, RoundIsNoPosition, NoneIsNoEvent, PassInv, NewsInv, [Next]_sweepVars
  PROVE  NewsInv'
<1>1. ASSUME UNCHANGED <<blocks, sent, run, watches>>, lapsed \subseteq lapsed', DOMAIN notes \subseteq DOMAIN notes'
      PROVE  NewsInv'
  <2>1. None \notin sent' /\ ChainSent' /\ RoundSound'
    BY <1>1 DEF NewsInv, ChainSent, RoundSound, AuctionClosings, Settled
  <2>. QED  BY <1>1, <2>1, NewsGrows
<1>2. CASE UNCHANGED sweepVars  BY <1>1, <1>2 DEF sweepVars, scanVars, noteVars
<1>3. ASSUME NEW r \in Runs, SweepStep(r) \/ Fails(r)  PROVE NewsInv'
  BY <1>3, ScanNews, HandleNews, NotifyNews, DeadlineNews, FailsNews DEF SweepStep
<1>4. CASE ChainGrows
  <2>1. PICK e \in AllEvents \cup {None} : e \in Events /\ NewBlock(e) /\ blocks' = Append(blocks, e)  BY <1>4, NewEvents
  <2>2. /\ UNCHANGED <<cursor, run, watches, lapsed, notes>> /\ Len(blocks) \in Nat
        /\ DOMAIN blocks' = 1..(Len(blocks) + 1) /\ DOMAIN blocks = 1..Len(blocks)
        /\ \A b \in DOMAIN blocks : blocks'[b] = blocks[b]
    BY <1>4, NewEvents DEF noteVars
  <2>3. sent' = (sent \cup {e}) \ {None}  BY <2>1 DEF NewBlock
  <2>4. sent \subseteq sent' /\ None \notin sent' /\ (e # None => e \in sent')  BY <2>3 DEF NewsInv
  <2>5. ChainSent'
    <3>. SUFFICES ASSUME NEW b \in DOMAIN blocks', blocks'[b] # None  PROVE blocks'[b] \in sent'  BY DEF ChainSent
    <3>1. CASE b \in DOMAIN blocks  BY <2>2, <2>4, <3>1 DEF NewsInv, ChainSent
    <3>2. CASE b \notin DOMAIN blocks
      <4>1. b = Len(blocks) + 1  BY <2>2, <3>2
      <4>2. blocks'[b] = e
        <5>1. blocks \in Seq(AllEvents \cup {None})  BY DEF PassInv, ChainTyped
        <5>. QED  BY <2>1, <4>1, <5>1
      <4>. QED  BY <2>4, <4>2
    <3>. QED  BY <3>1, <3>2
  <2>6. RoundSound'
    <3>. SUFFICES ASSUME "round" \notin lapsed  PROVE AuctionClosings \cap sent' = {}
      BY <2>2 DEF RoundSound, NewsInv, AuctionClosings, Settled
    <3>1. e \notin AuctionClosings
      <4>. SUFFICES ASSUME e \in AuctionClosings  PROVE FALSE  OBVIOUS
      <4>1. e.type \in {"AuctionSettled", "AuctionSettlementRefunded"}  BY DEF AuctionClosings, Settled
      <4>2. e # None  BY NoneApart DEF AllEvents
      <4>3. \A q \in Positions : e # Opened(q) /\ e \notin Closings(q)  BY <4>1 DEF Opened, Closings
      <4>4. \A w \in Bidders, m \in 1..MaxBids : e # Bid(w, m)  BY <4>1 DEF Bid
      <4>. QED  BY <2>1, <4>2, <4>3, <4>4 DEF Events
    <3>. QED  BY <2>3, <3>1 DEF NewsInv, RoundSound
  <2>. QED  BY <2>2, <2>4, <2>5, <2>6, NewsGrows
<1>5. CASE ChainReorganises
  <2>1. /\ UNCHANGED <<sent, cursor, run, watches, lapsed, notes>> /\ DOMAIN blocks' = 1..Len(blocks')
        /\ Len(blocks) \in Nat /\ Len(blocks') \in Nat /\ Len(blocks') < Len(blocks) /\ DOMAIN blocks = 1..Len(blocks)
        /\ \A b \in DOMAIN blocks' : blocks'[b] = blocks[b]
    BY <1>5, LessChain DEF noteVars
  <2>2. DOMAIN blocks' \subseteq DOMAIN blocks  BY <2>1
  <2>3. ChainSent' /\ None \notin sent' /\ RoundSound'
    BY <2>1, <2>2 DEF ChainSent, NewsInv, RoundSound, AuctionClosings, Settled
  <2>. QED  BY <2>1, <2>3, NewsGrows
<1>6. CASE \E e \in Entities : Lapses(e)  BY <1>1, <1>6 DEF Lapses, scanVars, noteVars
<1>7. ASSUME NEW w \in Wallets, LinkWallet(w), UNCHANGED <<watches, lapsed>>  PROVE NewsInv'
  <2>1. DOMAIN notes' = DOMAIN notes  BY <1>7 DEF LinkWallet, Attached
  <2>. QED  BY <1>1, <1>7, <2>1 DEF LinkWallet, scanVars
<1>. QED  BY <1>2, <1>3, <1>4, <1>5, <1>6, <1>7 DEF Next

-----------------------------------------------------------------------------
(* LapsedIsWarned: a watch ends with its position or with a warning. *)

EndedIn(N, S, p) == Warnings(p) \cap N # {} \/ Closings(p) \cap S # {}
Ended(p) == EndedIn(DOMAIN notes, sent, p)
LapsedOpened == \A p \in Positions \cap lapsed : OnChain(Opened(p))
WarnSound(N, S, x) ==
  x.due # <<>> =>
    /\ x.pc \in SendPcs =>
         /\ Head(x.due)[1] \in Positions /\ Len(x.sends) = 1
         /\ Head(x.sends) \in Warnings(Head(x.due)[1])
    /\ x.pc = "resolve" /\ Head(x.due)[1] \in Positions => EndedIn(N, S, Head(x.due)[1])
WatchEnds == \A p \in Positions : WatchOf(p) = "resolved" => Ended(p)
WarnInv == LapsedOpened /\ WatchEnds /\ \A r \in Runs : run[r] = Idle \/ WarnSound(DOMAIN notes, sent, run[r])

LEMMA WarnFirst == Init => WarnInv
BY DEF Init, ScanInit, WarnInv, LapsedOpened, WatchEnds, WatchOf, Watches

LEMMA WarnSays == WatchEnds <=> LapsedIsWarned
BY DEF WatchEnds, WatchOf, Ended, EndedIn, LapsedIsWarned, Warned, Noted

LEMMA EndedStays ==
  ASSUME DOMAIN notes \subseteq DOMAIN notes', sent \subseteq sent', NEW p, Ended(p)
  PROVE  EndedIn(DOMAIN notes', sent', p)
BY DEF Ended, EndedIn

LEMMA WarnStays ==
  ASSUME DOMAIN notes \subseteq DOMAIN notes', sent \subseteq sent', NEW x, WarnSound(DOMAIN notes, sent, x)
  PROVE  WarnSound(DOMAIN notes', sent', x)
BY DEF WarnSound, EndedIn

LEMMA WarnMoves ==
  ASSUME PassInv, WarnInv, NEW r \in Runs, NEW y, run' = [run EXCEPT ![r] = y], UNCHANGED <<blocks, sent, lapsed>>,
         DOMAIN notes \subseteq DOMAIN notes', y = Idle \/ WarnSound(DOMAIN notes', sent, y),
         \A p \in Positions : WatchOf(p)' = "resolved" => WatchOf(p) = "resolved" \/ Ended(p)
  PROVE  WarnInv'
<1>1. LapsedOpened'  BY DEF WarnInv, LapsedOpened, OnChain, Opened
<1>2. ASSUME NEW p \in Positions, WatchOf(p)' = "resolved"  PROVE EndedIn(DOMAIN notes', sent', p)
  BY <1>2, EndedStays DEF WarnInv, WatchEnds
<1>3. WatchEnds'  BY <1>2 DEF WatchEnds, Ended
<1>4. ASSUME NEW q \in Runs  PROVE run'[q] = Idle \/ WarnSound(DOMAIN notes', sent', run'[q])
  <2>1. run'[q] = IF q = r THEN y ELSE run[q]  BY DEF PassInv
  <2>2. CASE q = r  BY <2>1, <2>2
  <2>3. CASE q # r
    <3>1. run'[q] = run[q] /\ (run[q] = Idle \/ WarnSound(DOMAIN notes, sent, run[q]))
      BY <2>1, <2>3 DEF WarnInv
    <3>. QED  BY <3>1, WarnStays
  <2>. QED  BY <2>2, <2>3
<1>. QED  BY <1>1, <1>3, <1>4 DEF WarnInv

LEMMA ScanWarns ==
  ASSUME PassInv, WarnInv, NEW r \in Runs, Scan(r)
  PROVE  WarnInv'
<1>1. PICK y : run' = [run EXCEPT ![r] = y] /\ ScanStep(r, y)  BY ScanBecomes
<1>2. UNCHANGED <<blocks, sent, watches, lapsed, notes>>  BY ScanBecomes DEF noteVars
<1>3. WarnSound(DOMAIN notes', sent, y)  BY <1>1 DEF ScanStep, WarnSound
<1>4. \A p \in Positions : WatchOf(p)' = WatchOf(p)  BY <1>2 DEF WatchOf
<1>. QED  BY <1>1, <1>2, <1>3, <1>4, WarnMoves

LEMMA HandleWarns ==
  ASSUME RoundIsNoPosition, PassInv, NewsInv, WarnInv, NEW r \in Runs, Handle(r)
  PROVE  WarnInv'
<1>. DEFINE x == run[r]
            e == Event(r)
<1>1. PICK y : run' = [run EXCEPT ![r] = y] /\ Onward(x, y)  BY HandleBecomes
<1>2. /\ UNCHANGED <<blocks, sent, lapsed, notes>> /\ PassSound(x) /\ x.logs # <<>> /\ x.logs \in Seq(AllEvents)
      /\ e \in AllEvents /\ InLogs(x)
  BY HandleBecomes DEF noteVars
<1>3. e \in sent
  <2>1. e = x.logs[1] /\ 1 \in DOMAIN x.logs  BY <1>2, TailOf DEF Event
  <2>2. NewsSound(sent, lapsed, DOMAIN notes, x)  BY <1>2 DEF NewsInv, InLogs, SendPcs, Idle
  <2>. QED  BY <2>1, <2>2 DEF NewsSound, LogsSent
<1>4. WarnSound(DOMAIN notes', sent, y)  BY <1>1 DEF Onward, WarnSound
<1>5. ASSUME NEW p \in Positions, WatchOf(p)' = "resolved"  PROVE WatchOf(p) = "resolved" \/ Ended(p)
  <2>1. watches \in [Watches -> {"none", "open", "resolved"}] /\ <<p, beneficiary>> \in Watches  BY DEF PassInv, Watches
  <2>2. CASE UNCHANGED watches  BY <1>5, <2>2 DEF WatchOf
  <2>3. ASSUME NEW entity, NEW wallet, watch(entity, wallet)  PROVE WatchOf(p) = "resolved"
    BY <1>5, <2>1, <2>3 DEF watch, WatchOf
  <2>4. ASSUME NEW entity, resolveWatch(entity), entity # p  PROVE WatchOf(p) = "resolved"
    BY <1>5, <2>1, <2>4 DEF resolveWatch, WatchOf
  <2>5. CASE HandleClosed(r)
    <3>1. e.type \in {"OfferClosed", "ListingAuctionRefunded"} /\ resolveWatch(e.id)  BY <2>5 DEF HandleClosed
    <3>2. CASE e.id = p
      <4>1. e \in Closings(p)  BY <1>2, <3>1, <3>2, EventIs
      <4>. QED  BY <1>3, <4>1 DEF Ended, EndedIn
    <3>3. CASE e.id # p  BY <2>4, <3>1, <3>3
    <3>. QED  BY <3>2, <3>3
  <2>6. CASE HandleSettled(r)
    <3>1. resolveWatch("round") \/ UNCHANGED watches  BY <2>6 DEF HandleSettled
    <3>. QED  BY <2>2, <2>4, <3>1 DEF RoundIsNoPosition
  <2>7. CASE HandleOpened(r) \/ WatchBidder(r)  BY <2>3, <2>7 DEF HandleOpened, WatchBidder
  <2>8. CASE OfferReceived(r) \/ HandleBid(r)  BY <2>2, <2>8 DEF OfferReceived, HandleBid
  <2>. QED  BY <2>5, <2>6, <2>7, <2>8 DEF Handle
<1>. HIDE DEF e
<1>. QED  BY <1>1, <1>2, <1>4, <1>5, WarnMoves

LEMMA NotifyWarns ==
  ASSUME PassInv, NewsInv, WarnInv, NEW r \in Runs, Notify(r)
  PROVE  WarnInv'
<1>. DEFINE x == run[r]
<1>0. UNCHANGED <<watches, lapsed>>  BY DEF Notify
<1>1. \A p \in Positions : WatchOf(p)' = WatchOf(p)  BY <1>0 DEF WatchOf
<1>2. CASE reconcileNotificationProfileLinks(r)
  <2>. DEFINE y == [x EXCEPT !.pc = "cursor"]
  <2>1. x.pc = "attach" /\ run' = [run EXCEPT ![r] = y] /\ UNCHANGED <<blocks, sent>> /\ notes' = Attached(linked)
    BY <1>2 DEF reconcileNotificationProfileLinks, Go, PassInv
  <2>2. x \in Passes /\ x.due = <<>>  BY <2>1, Bigger DEF PassSound
  <2>3. y.due = <<>>  BY <2>2 DEF Passes
  <2>4. DOMAIN notes' = DOMAIN notes  BY <2>1 DEF Attached
  <2>. HIDE DEF y
  <2>5. WarnSound(DOMAIN notes', sent, y)  BY <2>3 DEF WarnSound
  <2>. QED  BY <1>0, <1>1, <2>1, <2>4, <2>5, WarnMoves
<1>3. CASE ~reconcileNotificationProfileLinks(r)
  <2>1. /\ PassSound(x) /\ x.pc \in SendPcs /\ UNCHANGED <<blocks, sent>> /\ DOMAIN notes \subseteq DOMAIN notes'
        /\ (x.pc = "insert" => Sending(r) \in DOMAIN notes')
    BY <1>3, Notifies DEF Notify
  <2>2. PICK y : run' = [run EXCEPT ![r] = y] /\ Notified(x, y)  BY <1>3, Notifies DEF Notify
  <2>3. NewsSound(sent, lapsed, DOMAIN notes, x) /\ WarnSound(DOMAIN notes, sent, x)
    BY <2>1 DEF NewsInv, WarnInv, SendPcs, Idle
  <2>4. NotifyFields(x, y)  BY <2>1, <2>2, NotifiedIs
  <2>5. WarnSound(DOMAIN notes', sent, y)
    <3>. SUFFICES ASSUME y.due # <<>>  PROVE WarnSound(DOMAIN notes', sent, y)  BY DEF WarnSound
    <3>1. y.due = x.due  BY <2>4 DEF NotifyFields
    <3>2. /\ Head(x.due)[1] \in Positions /\ Len(x.sends) = 1 /\ Head(x.sends) \in Warnings(Head(x.due)[1])
      BY <2>1, <2>3, <3>1 DEF WarnSound
    <3>3. CASE y.pc \in SendPcs /\ y.sends = x.sends
      BY <3>1, <3>2, <3>3 DEF WarnSound, SendPcs
    <3>4. CASE y.pc = "resolve" /\ x.pc # "send"
      <4>1. Head(x.sends) \in DOMAIN notes'  BY <2>1, <2>3, <3>4 DEF NewsSound, Recorded, SendPcs, Sending
      <4>. QED  BY <3>1, <3>2, <3>4, <4>1 DEF WarnSound, EndedIn, SendPcs
    <3>5. ~(Len(x.sends) > 1)  BY <3>2
    <3>. QED  BY <2>4, <3>1, <3>3, <3>4, <3>5 DEF NotifyFields
  <2>. QED  BY <1>0, <1>1, <2>1, <2>2, <2>5, WarnMoves
<1>. QED  BY <1>2, <1>3

LEMMA DeadlineWarns ==
  ASSUME RoundIsNoPosition, NoneIsNoEvent, PassInv, NewsInv, WarnInv, ReadsAnswer, NEW r \in Runs, Deadlines(r)
  PROVE  WarnInv'
<1>. DEFINE x == run[r]
<1>1. PICK y : run' = [run EXCEPT ![r] = y] /\ DueStep(r, y)  BY DeadlinesBecome
<1>2. /\ UNCHANGED <<blocks, sent, lapsed, notes>> /\ x.pc \in {"deadlines", "due", "resolve"} /\ PassSound(x)
      /\ (ResolveDue(r) \/ UNCHANGED watches)
  BY DeadlinesBecome DEF noteVars
<1>3. NewsSound(sent, lapsed, DOMAIN notes, x) /\ WarnSound(DOMAIN notes, sent, x)
  BY <1>2 DEF NewsInv, WarnInv, Idle
<1>4. run'[r] = y  BY <1>1 DEF PassInv
<1>5. ASSUME x.pc \in {"due", "resolve"}
      PROVE  x.due # <<>> /\ x.due \in Seq(Watches) /\ Due(r) \in Watches /\ Due(r) = Head(x.due) /\ Due(r)[1] \in lapsed
  <2>1. x.due # <<>> /\ x.due \in Seq(Watches) /\ Due(r) \in Watches /\ Due(r) = x.due[1]  BY <1>5, DueIs
  <2>2. 1 \in DOMAIN x.due  BY <2>1, TailOf
  <2>. QED  BY <1>3, <2>1, <2>2 DEF NewsSound, DueLapsed, Due
<1>6. ASSUME y # Idle  PROVE WarnSound(DOMAIN notes', sent, y)
  <2>1. CASE y.pc = "due"  BY <2>1 DEF WarnSound, SendPcs
  <2>2. CASE CheckDue(r) /\ y.pc = "resolve" /\ y.due = x.due
    <3>1. x.pc = "due"  BY <2>2 DEF CheckDue
    <3>2. ASSUME Due(r)[1] \in Positions  PROVE Ended(Due(r)[1])
      <4>1. ~StillOpen(Due(r)[1])  BY <1>4, <2>2, <3>2 DEF ReadsAnswer
      <4>2. OnChain(Opened(Due(r)[1]))  BY <1>5, <3>1, <3>2 DEF WarnInv, LapsedOpened
      <4>3. PICK e \in Closings(Due(r)[1]) : OnChain(e)  BY <4>1, <4>2 DEF StillOpen, Closed
      <4>4. e # None  BY <3>2 DEF NoneIsNoEvent
      <4>5. e \in sent  BY <4>3, <4>4 DEF OnChain, NewsInv, ChainSent
      <4>. QED  BY <4>5 DEF Ended, EndedIn
    <3>. QED  BY <1>2, <1>5, <2>2, <3>1, <3>2 DEF WarnSound, Ended, SendPcs
  <2>3. CASE /\ CheckDue(r) /\ y.pc = "send" /\ y.due = x.due /\ Due(r)[1] \in Positions
             /\ \E kind \in {"offer.refundable", "offer.settlement-ready"} : y.sends = <<Key(Due(r)[2], kind, Due(r)[1])>>
    <3>1. x.pc = "due"  BY <2>3 DEF CheckDue
    <3>2. PICK kind \in {"offer.refundable", "offer.settlement-ready"} : y.sends = <<Key(Due(r)[2], kind, Due(r)[1])>>
      BY <2>3
    <3>3. Due(r)[2] = beneficiary  BY <1>5, <2>3, <3>1, WarnsWatch
    <3>4. Head(y.sends) \in Warnings(Due(r)[1]) /\ Len(y.sends) = 1  BY <3>2, <3>3 DEF Warnings
    <3>. QED  BY <1>5, <2>3, <3>1, <3>4 DEF WarnSound, SendPcs
  <2>. QED  BY <1>1, <1>6, <2>1, <2>2, <2>3 DEF DueStep
<1>7. ASSUME NEW p \in Positions, WatchOf(p)' = "resolved"  PROVE WatchOf(p) = "resolved" \/ Ended(p)
  <2>1. watches \in [Watches -> {"none", "open", "resolved"}] /\ <<p, beneficiary>> \in Watches  BY DEF PassInv, Watches
  <2>2. CASE ResolveDue(r)
    <3>1. watches' = [watches EXCEPT ![Due(r)] = "resolved"] /\ x.pc = "resolve"  BY <2>2 DEF ResolveDue
    <3>2. CASE Due(r) = <<p, beneficiary>>
      <4>1. Due(r)[1] = p  BY <3>2
      <4>. QED  BY <1>3, <1>5, <3>1, <4>1 DEF WarnSound, Ended
    <3>3. CASE Due(r) # <<p, beneficiary>>  BY <1>7, <2>1, <3>1, <3>3 DEF WatchOf
    <3>. QED  BY <3>2, <3>3
  <2>. QED  BY <1>2, <1>7, <2>2 DEF WatchOf
<1>. QED  BY <1>1, <1>2, <1>6, <1>7, WarnMoves

LEMMA FailsWarn ==
  ASSUME PassInv, WarnInv, NEW r \in Runs, Fails(r)
  PROVE  WarnInv'
<1>. DEFINE x == run[r]
<1>1. UNCHANGED <<blocks, sent, lapsed, notes, watches>>  BY DEF Fails, Outage, Throws, Die, noteVars
<1>2. \A p \in Positions : WatchOf(p)' = WatchOf(p)  BY <1>1 DEF WatchOf
<1>3. CASE Outage(r) \/ Die(r)
  <2>1. run' = [run EXCEPT ![r] = Idle]  BY <1>3 DEF Outage, Die
  <2>. QED  BY <1>1, <1>2, <2>1, WarnMoves
<1>4. CASE Throws(r)
  <2>. DEFINE y == [x EXCEPT !.pc = "scan", !.sends = <<>>, !.logs = <<>>]
  <2>1. x.pc = "insert" /\ x.due = <<>> /\ run' = [run EXCEPT ![r] = y]
    BY <1>4 DEF Throws, PassInv
  <2>2. x \in Passes  BY <2>1, Bigger DEF PassSound
  <2>3. y.due = <<>>  BY <2>1, <2>2 DEF Passes
  <2>. HIDE DEF y
  <2>4. WarnSound(DOMAIN notes', sent, y)  BY <2>3 DEF WarnSound
  <2>. QED  BY <1>1, <1>2, <2>1, <2>4, WarnMoves
<1>. QED  BY <1>3, <1>4 DEF Fails

LEMMA WarnGrows ==
  ASSUME PassInv, WarnInv, UNCHANGED <<run, watches>>, sent \subseteq sent', DOMAIN notes \subseteq DOMAIN notes',
         LapsedOpened'
  PROVE  WarnInv'
<1>1. \A r \in Runs : run'[r] = Idle \/ WarnSound(DOMAIN notes', sent', run'[r])  BY WarnStays DEF WarnInv
<1>2. WatchEnds'
  <2>1. ASSUME NEW p \in Positions, WatchOf(p)' = "resolved"  PROVE EndedIn(DOMAIN notes', sent', p)
    BY <2>1, EndedStays DEF WarnInv, WatchEnds, WatchOf
  <2>. QED  BY <2>1 DEF WatchEnds, Ended
<1>. QED  BY <1>1, <1>2 DEF WarnInv

LEMMA WarnStep ==
  ASSUME ReplayIsNat, RoundIsNoPosition, NoneIsNoEvent, PassInv, NewsInv, WarnInv,
         [Next /\ Finality /\ ReadsAnswer]_sweepVars
  PROVE  WarnInv'
<1>1. CASE UNCHANGED sweepVars
  <2>1. LapsedOpened'  BY <1>1 DEF sweepVars, scanVars, WarnInv, LapsedOpened, OnChain, Opened
  <2>. QED  BY <1>1, <2>1, WarnGrows DEF sweepVars, scanVars, noteVars
<1>2. ASSUME NEW r \in Runs, SweepStep(r) \/ Fails(r), ReadsAnswer  PROVE WarnInv'
  BY <1>2, ScanWarns, HandleWarns, NotifyWarns, DeadlineWarns, FailsWarn DEF SweepStep
<1>3. CASE ChainGrows
  <2>1. PICK e \in AllEvents \cup {None} : NewBlock(e)  BY <1>3, NewEvents
  <2>2. sent \subseteq sent'  BY <2>1 DEF NewBlock, NewsInv
  <2>3. UNCHANGED <<run, watches, lapsed, notes>> /\ DOMAIN blocks \subseteq DOMAIN blocks'
        /\ \A b \in DOMAIN blocks : blocks'[b] = blocks[b]
    BY <1>3, NewEvents DEF noteVars
  <2>4. LapsedOpened'  BY <2>3 DEF WarnInv, LapsedOpened, OnChain, Opened
  <2>. QED  BY <2>2, <2>3, <2>4, WarnGrows
<1>4. CASE ChainReorganises /\ Finality
  <2>1. UNCHANGED <<sent, run, watches, lapsed, notes>>  BY <1>4, LessChain DEF noteVars
  <2>2. LapsedOpened'  BY <1>4, <2>1 DEF Finality, LapsedOpened, OnChain, Opened
  <2>. QED  BY <2>1, <2>2, WarnGrows
<1>5. ASSUME NEW entity \in Entities, Lapses(entity)  PROVE WarnInv'
  <2>1. UNCHANGED <<blocks, sent, run, watches, notes>> /\ lapsed' = lapsed \cup {entity}
        /\ (entity \in Positions => Opened(entity) \in Through(Len(blocks) - REORG_REPLAY))
    BY <1>5 DEF Lapses, scanVars, noteVars
  <2>2. entity \in Positions => OnChain(Opened(entity))  BY <2>1 DEF Through, OnChain
  <2>3. LapsedOpened'  BY <2>1, <2>2 DEF WarnInv, LapsedOpened, OnChain, Opened
  <2>. QED  BY <2>1, <2>3, WarnGrows
<1>6. ASSUME NEW w \in Wallets, LinkWallet(w), UNCHANGED <<watches, lapsed>>  PROVE WarnInv'
  <2>1. DOMAIN notes' = DOMAIN notes /\ UNCHANGED <<blocks, sent, run>>  BY <1>6 DEF LinkWallet, Attached, scanVars
  <2>2. LapsedOpened'  BY <1>6, <2>1 DEF WarnInv, LapsedOpened, OnChain, Opened
  <2>. QED  BY <1>6, <2>1, <2>2, WarnGrows
<1>. QED  BY <1>1, <1>2, <1>3, <1>4, <1>5, <1>6 DEF Next

\* A position's watch ends only when an event closed the position, or with a
\* warning to its beneficiary on record: a run that fails, dies or meets another
\* never ends it.
THEOREM LapsedAreWarned == AnsweredSpec => []LapsedIsWarned
<1>1. Init => PassInv /\ NewsInv /\ WarnInv  BY NotesFirst, NewsFirst, WarnFirst
<1>2. PassInv /\ NewsInv /\ WarnInv /\ [Next /\ Finality /\ ReadsAnswer]_sweepVars => (PassInv /\ NewsInv /\ WarnInv)'
  BY ReplayIsNat, RoundIsNoPosition, NoneIsNoEvent, PassStep, NewsStep, WarnStep
<1>3. WarnInv => LapsedIsWarned  BY WarnSays DEF WarnInv
<1>. QED  BY <1>1, <1>2, <1>3, PTL DEF AnsweredSpec

-----------------------------------------------------------------------------
(* OutbidIsTold: the log pass tells the bidders in the chain's order. *)

IsBid(B, b) == B[b] \in BidEvents
Outbid(B, b) == Key(B[b].wallet, "auction.outbid", "round")
Bidding(W, w) == W[<<"round", w>>] # "none"
\* Whom the bid of block b outbid is told; and the bidder of block b is watched.
Tells(B, N, b) ==
  \A a \in DOMAIN B : IsBid(B, a) /\ a < b /\ B[a].wallet # B[b].wallet => Outbid(B, a) \in N
BidDone(B, W, N, b) == Bidding(W, B[b].wallet) /\ Tells(B, N, b)
DoneBefore(B, W, N, n) == \A b \in DOMAIN B : IsBid(B, b) /\ b < n => BidDone(B, W, N, b)

\* The logs come from the blocks at, in the chain's order; the bids before them are done.
InOrder(B, W, N, logs, upto, at) ==
  /\ \A i \in DOMAIN logs : logs[i] = B[at[i]] /\ at[i] <= upto
  /\ \A i, j \in DOMAIN logs : i < j => at[i] < at[j]
  /\ \A b \in DOMAIN B : IsBid(B, b) /\ b <= upto =>
       (\E i \in DOMAIN logs : at[i] = b) \/ (BidDone(B, W, N, b) /\ \A i \in DOMAIN logs : b < at[i])
\* The bid that is being handled: whom it outbid is told, or among those told next.
SendsOf(x) == {x.sends[i] : i \in DOMAIN x.sends}
InHand(B, W, N, x, c) ==
  x.pc \in {"bid"} \cup SendPcs /\ IsBid(B, c) =>
    /\ x.pc # "bid" => Bidding(W, B[c].wallet)
    /\ Tells(B, N \cup SendsOf(x), c)
TellSound(B, W, N, x) ==
  /\ x.head <= Len(B)
  /\ x.pc = "scan" \/ InLogs(x) => x.position <= Len(B) + 1 /\ DoneBefore(B, W, N, x.position)
  /\ InLogs(x) => /\ x.upto <= Len(B)
                  /\ \E at \in [DOMAIN x.logs -> DOMAIN B] :
                       InOrder(B, W, N, x.logs, x.upto, at) /\ InHand(B, W, N, x, at[1])
CursorTold ==
  cursor # None => cursor <= Len(blocks) /\ DoneBefore(blocks, watches, DOMAIN notes, cursor + 1)
TellBody ==
  CursorTold /\ \A r \in Runs : run[r] = Idle \/ TellSound(blocks, watches, DOMAIN notes, run[r])
TellInv == "round" \notin lapsed => TellBody

LEMMA TellFirst == Init => TellInv
BY DEF Init, ScanInit, TellInv, TellBody, CursorTold

\* The chain grows, the watches go on and the notes are kept.
Grows ==
  /\ WatchStep /\ DOMAIN notes \subseteq DOMAIN notes' /\ Len(blocks) \in Nat /\ DOMAIN blocks = 1..Len(blocks)
  /\ Len(blocks') \in Nat /\ DOMAIN blocks' = 1..Len(blocks') /\ Len(blocks) <= Len(blocks')
  /\ \A b \in DOMAIN blocks : blocks'[b] = blocks[b]

LEMMA BidsStay ==
  ASSUME Grows
  PROVE  /\ \A b \in DOMAIN blocks : b \in DOMAIN blocks' /\ b \in Int /\ (IsBid(blocks, b) <=> IsBid(blocks', b))
         /\ \A b \in DOMAIN blocks : \A N, M : N \subseteq M /\ Tells(blocks, N, b) => Tells(blocks', M, b)
         /\ \A b \in DOMAIN blocks : IsBid(blocks, b) /\ Bidding(watches, blocks[b].wallet) => Bidding(watches', blocks'[b].wallet)
         /\ \A b \in DOMAIN blocks :
              IsBid(blocks, b) /\ BidDone(blocks, watches, DOMAIN notes, b) => BidDone(blocks', watches', DOMAIN notes', b)
<1>1. \A b \in DOMAIN blocks : b \in DOMAIN blocks' /\ b \in Int /\ blocks'[b] = blocks[b]  BY DEF Grows
<1>2. \A b \in DOMAIN blocks : b \in DOMAIN blocks' /\ b \in Int /\ (IsBid(blocks, b) <=> IsBid(blocks', b))
  BY <1>1 DEF IsBid
<1>3. ASSUME NEW b \in DOMAIN blocks, NEW N, NEW M, N \subseteq M, Tells(blocks, N, b)  PROVE Tells(blocks', M, b)
  <2>1. \A a \in DOMAIN blocks' : a < b => a \in DOMAIN blocks  BY <1>3 DEF Grows
  <2>. QED  BY <1>1, <1>3, <2>1 DEF Tells, IsBid, Outbid
<1>4. ASSUME NEW b \in DOMAIN blocks, IsBid(blocks, b), Bidding(watches, blocks[b].wallet)
      PROVE  Bidding(watches', blocks'[b].wallet)
  <2>1. blocks[b].wallet \in Bidders  BY <1>4 DEF IsBid, BidEvents, Bid
  <2>2. <<"round", blocks[b].wallet>> \in Watches  BY <2>1 DEF Watches
  <2>. QED  BY <1>1, <1>4, <2>2 DEF Bidding, Grows, WatchStep
<1>5. DOMAIN notes \subseteq DOMAIN notes'  BY DEF Grows
<1>6. \A b \in DOMAIN blocks :
        IsBid(blocks, b) /\ BidDone(blocks, watches, DOMAIN notes, b) => BidDone(blocks', watches', DOMAIN notes', b)
  BY <1>3, <1>4, <1>5 DEF BidDone
<1>. QED  BY <1>2, <1>3, <1>4, <1>6

LEMMA DoneStays ==
  ASSUME Grows, NEW n \in Int, n <= Len(blocks) + 1, DoneBefore(blocks, watches, DOMAIN notes, n)
  PROVE  DoneBefore(blocks', watches', DOMAIN notes', n)
<1>1. \A b \in DOMAIN blocks' : b < n => b \in DOMAIN blocks  BY DEF Grows
<1>. QED  BY <1>1, BidsStay DEF DoneBefore

LEMMA OrderStays ==
  ASSUME Grows, NEW logs, NEW upto \in Int, upto <= Len(blocks), NEW at \in [DOMAIN logs -> DOMAIN blocks],
         InOrder(blocks, watches, DOMAIN notes, logs, upto, at)
  PROVE  /\ at \in [DOMAIN logs -> DOMAIN blocks']
         /\ InOrder(blocks', watches', DOMAIN notes', logs, upto, at)
<1>1. DOMAIN blocks \subseteq DOMAIN blocks'  BY DEF Grows
<1>2. \A b \in DOMAIN blocks' : b <= upto => b \in DOMAIN blocks  BY DEF Grows
<1>3. \A i \in DOMAIN logs : logs[i] = blocks'[at[i]] /\ at[i] <= upto  BY DEF InOrder, Grows
<1>4. \A i, j \in DOMAIN logs : i < j => at[i] < at[j]  BY DEF InOrder
<1>5. \A b \in DOMAIN blocks' : IsBid(blocks', b) /\ b <= upto =>
        (\E i \in DOMAIN logs : at[i] = b)
        \/ (BidDone(blocks', watches', DOMAIN notes', b) /\ \A i \in DOMAIN logs : b < at[i])
  BY <1>2, BidsStay DEF InOrder
<1>. QED  BY <1>1, <1>3, <1>4, <1>5 DEF InOrder

\* An invocation that stays as it is, while others move.
LEMMA TellStays ==
  ASSUME Grows, NEW x, PassSound(x), TellSound(blocks, watches, DOMAIN notes, x)
  PROVE  TellSound(blocks', watches', DOMAIN notes', x)
<1>1. x \in Passes /\ x.head \in Int /\ x.position \in Int /\ x.upto \in Int  BY DEF PassSound, Passes
<1>2. x.head <= Len(blocks')  BY <1>1 DEF TellSound, Grows
<1>3. x.pc = "scan" \/ InLogs(x) => x.position <= Len(blocks') + 1 /\ DoneBefore(blocks', watches', DOMAIN notes', x.position)
  BY <1>1, DoneStays DEF TellSound, Grows
<1>4. ASSUME InLogs(x)
      PROVE  /\ x.upto <= Len(blocks')
             /\ \E at \in [DOMAIN x.logs -> DOMAIN blocks'] :
                  /\ InOrder(blocks', watches', DOMAIN notes', x.logs, x.upto, at)
                  /\ InHand(blocks', watches', DOMAIN notes', x, at[1])
  <2>1. PICK at \in [DOMAIN x.logs -> DOMAIN blocks] :
          /\ InOrder(blocks, watches, DOMAIN notes, x.logs, x.upto, at)
          /\ InHand(blocks, watches, DOMAIN notes, x, at[1])
    BY <1>4 DEF TellSound
  <2>2. x.upto <= Len(blocks) /\ x.upto <= Len(blocks')  BY <1>1, <1>4 DEF TellSound, Grows
  <2>3. /\ at \in [DOMAIN x.logs -> DOMAIN blocks']
        /\ InOrder(blocks', watches', DOMAIN notes', x.logs, x.upto, at)
    BY <1>1, <2>1, <2>2, OrderStays
  <2>4. InHand(blocks', watches', DOMAIN notes', x, at[1])
    <3>1. CASE x.pc \in {"bid"} \cup SendPcs
      <4>1. x.logs # <<>> /\ x.logs \in Seq(AllEvents)  BY <1>4, <3>1 DEF PassSound, Passes, SendPcs
      <4>2. at[1] \in DOMAIN blocks  BY <4>1, TailOf
      <4>3. DOMAIN notes \cup SendsOf(x) \subseteq DOMAIN notes' \cup SendsOf(x)  BY DEF Grows
      <4>. QED  BY <2>1, <4>2, <4>3, BidsStay DEF InHand
    <3>. QED  BY <3>1 DEF InHand
  <2>. QED  BY <2>2, <2>3, <2>4
<1>. QED  BY <1>2, <1>3, <1>4 DEF TellSound

LEMMA ToldStays == ASSUME PassInv, TellBody, Grows, cursor' = cursor  PROVE CursorTold'
<1>. SUFFICES ASSUME cursor # None  PROVE CursorTold'  BY DEF CursorTold
<1>. DEFINE n == cursor + 1
<1>1. cursor \in Int /\ cursor <= Len(blocks) /\ DoneBefore(blocks, watches, DOMAIN notes, n)
  BY DEF PassInv, TellBody, CursorTold
<1>2. n \in Int /\ n <= Len(blocks) + 1 /\ cursor <= Len(blocks')  BY <1>1 DEF Grows
<1>. HIDE DEF n
<1>3. DoneBefore(blocks', watches', DOMAIN notes', n)  BY <1>1, <1>2, DoneStays
<1>. QED  BY <1>2, <1>3 DEF CursorTold, n

LEMMA TellMoves ==
  ASSUME PassInv, TellBody, NEW r \in Runs, NEW y, run' = [run EXCEPT ![r] = y], Grows,
         y = Idle \/ TellSound(blocks', watches', DOMAIN notes', y), cursor' = cursor \/ CursorTold'
  PROVE  TellBody'
<1>1. CursorTold'  BY ToldStays
<1>2. ASSUME NEW q \in Runs  PROVE run'[q] = Idle \/ TellSound(blocks', watches', DOMAIN notes', run'[q])
  <2>1. run'[q] = IF q = r THEN y ELSE run[q]  BY DEF PassInv
  <2>2. CASE q = r  BY <2>1, <2>2
  <2>3. CASE q # r
    <3>1. run'[q] = run[q] /\ (run[q] = Idle \/ (PassSound(run[q]) /\ TellSound(blocks, watches, DOMAIN notes, run[q])))
      BY <2>1, <2>3 DEF TellBody, PassInv
    <3>. QED  BY <3>1, TellStays
  <2>. QED  BY <2>2, <2>3
<1>. QED  BY <1>1, <1>2 DEF TellBody

LEMMA Steady ==
  ASSUME PassInv, WatchStep, blocks' = blocks, DOMAIN notes \subseteq DOMAIN notes'
  PROVE  Grows
BY DEF PassInv, ChainTyped, Grows

\* The first of the logs is done with.
LEMMA NextLog ==
  ASSUME NEW B, NEW W, NEW N, NEW logs \in Seq(AllEvents), logs # <<>>, NEW upto, DOMAIN B \subseteq Int,
         NEW at \in [DOMAIN logs -> DOMAIN B], InOrder(B, W, N, logs, upto, at),
         IsBid(B, at[1]) => BidDone(B, W, N, at[1])
  PROVE  \E to \in [DOMAIN Tail(logs) -> DOMAIN B] : InOrder(B, W, N, Tail(logs), upto, to)
<1>. DEFINE t == Tail(logs)
            n == Len(logs)
<1>1. n \in Nat \ {0} /\ DOMAIN logs = 1..n /\ DOMAIN t = 1..(n - 1) /\ \A i \in 1..(n - 1) : t[i] = logs[i + 1]
  BY TailOf
<1>. HIDE DEF t, n
<1>2. PICK to : to = [i \in DOMAIN t |-> at[i + 1]]  BY Zenon
<1>3. \A i \in DOMAIN t : i + 1 \in DOMAIN logs /\ to[i] = at[i + 1] /\ t[i] = logs[i + 1] /\ 1 < i + 1 /\ i \in Int
  BY <1>1, <1>2
<1>4. to \in [DOMAIN t -> DOMAIN B]  BY <1>2, <1>3
<1>5. \A i \in DOMAIN t : t[i] = B[to[i]] /\ to[i] <= upto  BY <1>3 DEF InOrder
<1>6. \A i, j \in DOMAIN t : i < j => to[i] < to[j]
  <2>. SUFFICES ASSUME NEW i \in DOMAIN t, NEW j \in DOMAIN t, i < j  PROVE to[i] < to[j]  OBVIOUS
  <2>1. i + 1 < j + 1  BY <1>3
  <2>. QED  BY <1>3, <2>1 DEF InOrder
<1>7. ASSUME NEW b \in DOMAIN B, IsBid(B, b), b <= upto
      PROVE  (\E i \in DOMAIN t : to[i] = b) \/ (BidDone(B, W, N, b) /\ \A i \in DOMAIN t : b < to[i])
  <2>1. CASE b = at[1]
    <3>1. 1 \in DOMAIN logs  BY <1>1
    <3>2. \A i \in DOMAIN t : b < to[i]  BY <1>3, <2>1, <3>1 DEF InOrder
    <3>. QED  BY <1>7, <2>1, <3>2
  <2>2. ASSUME NEW i \in DOMAIN logs, at[i] = b, i # 1  PROVE \E k \in DOMAIN t : to[k] = b
    <3>1. i - 1 \in DOMAIN t /\ (i - 1) + 1 = i  BY <1>1, <2>2
    <3>2. to[i - 1] = at[(i - 1) + 1]  BY <1>3, <3>1
    <3>. QED  BY <2>2, <3>1, <3>2
  <2>3. CASE BidDone(B, W, N, b) /\ \A i \in DOMAIN logs : b < at[i]  BY <1>3, <2>3
  <2>4. (\E i \in DOMAIN logs : at[i] = b) \/ (BidDone(B, W, N, b) /\ \A i \in DOMAIN logs : b < at[i])
    BY <1>7 DEF InOrder
  <2>. QED  BY <2>1, <2>2, <2>3, <2>4
<1>. QED  BY <1>4, <1>5, <1>6, <1>7 DEF InOrder, t

\* What a scanning invocation reads, and what it leaves behind.
LEMMA GetTells ==
  ASSUME NoneIsNoEvent, PassInv, NEW N, NEW first \in Int, NEW last \in Int, DoneBefore(blocks, watches, N, first)
  PROVE  \E at \in [DOMAIN LogsOf(first, last) -> DOMAIN blocks] :
           InOrder(blocks, watches, N, LogsOf(first, last), last, at)
<1>. DEFINE L == LogsOf(first, last)
            S == EventBlocks(first, last)
<1>1. PICK at \in [DOMAIN L -> S] :
        /\ \A i \in DOMAIN L : L[i] = blocks[at[i]]
        /\ \A i, j \in DOMAIN L : i < j => at[i] < at[j]
        /\ \A b \in S : \E i \in DOMAIN L : at[i] = b
  BY LogsAt DEF PassInv
<1>2. S \subseteq DOMAIN blocks /\ \A b \in S : first <= b /\ b <= last  BY DEF EventBlocks
<1>3. DOMAIN blocks \subseteq Int  BY DEF PassInv, ChainTyped
<1>4. ASSUME NEW b \in DOMAIN blocks, IsBid(blocks, b), b <= last
      PROVE  (\E i \in DOMAIN L : at[i] = b) \/ (BidDone(blocks, watches, N, b) /\ \A i \in DOMAIN L : b < at[i])
  <2>1. b \in Int /\ blocks[b] # None  BY <1>3, <1>4, NoneApart DEF IsBid, AllEvents
  <2>2. CASE first <= b
    <3>1. b \in S  BY <1>4, <2>1, <2>2 DEF EventBlocks
    <3>. QED  BY <1>1, <3>1
  <2>3. CASE b < first
    <3>1. BidDone(blocks, watches, N, b)  BY <1>4, <2>3 DEF DoneBefore
    <3>2. \A i \in DOMAIN L : at[i] \in Int /\ first <= at[i]  BY <1>1, <1>2, <1>3
    <3>3. \A i \in DOMAIN L : b < at[i]  BY <2>1, <2>3, <3>2
    <3>. QED  BY <3>1, <3>3
  <2>. QED  BY <2>1, <2>2, <2>3
<1>. HIDE DEF L, S
<1>5. at \in [DOMAIN L -> DOMAIN blocks]  BY <1>2
<1>6. InOrder(blocks, watches, N, L, last, at)  BY <1>1, <1>2, <1>4 DEF InOrder
<1>. QED  BY <1>5, <1>6 DEF L

LEMMA ScanTells ==
  ASSUME ReplayIsNat, NoneIsNoEvent, PassInv, TellBody, NEW r \in Runs, Scan(r)
  PROVE  TellBody'
<1>. DEFINE x == run[r]
            N == DOMAIN notes
<1>1. PICK y : run' = [run EXCEPT ![r] = y] /\ ScanStep(r, y)  BY ScanBecomes
<1>2. UNCHANGED <<blocks, watches, notes>>  BY ScanBecomes DEF noteVars
<1>3. Grows
  <2>1. WatchStep  BY <1>2, WatchesMove
  <2>. QED  BY <1>2, <2>1, Steady
<1>4. Len(blocks) \in Nat /\ DOMAIN blocks = 1..Len(blocks) /\ cursor \in Int \cup {None} /\ REORG_REPLAY \in Nat
  BY DEF PassInv, ChainTyped, ReplayIsNat
<1>5. ASSUME x.pc \in {"cursor", "scan", "event"}
      PROVE  x.head \in Nat /\ x.position \in Int /\ x.upto \in Int /\ TellSound(blocks, watches, N, x) /\ x.head <= Len(blocks)
  <2>1. x # Idle /\ x \in Passes  BY <1>5, Bigger DEF PassSound, Idle
  <2>2. TellSound(blocks, watches, N, x)  BY <2>1 DEF TellBody
  <2>. QED  BY <2>1, <2>2 DEF Passes, TellSound
<1>6. ASSUME TellSound(blocks, watches, N, y), cursor' = cursor \/ CursorTold'  PROVE TellBody'
  BY <1>1, <1>2, <1>3, <1>6, TellMoves
<1>7. ASSUME NEW n \in Int, n <= Len(blocks) + 1, DoneBefore(blocks, watches, N, n), cursor' = n - 1  PROVE CursorTold'
  <2>1. (n - 1) + 1 = n /\ n - 1 <= Len(blocks)  BY <1>4, <1>7
  <2>. QED  BY <1>2, <1>7, <2>1 DEF CursorTold
<1>8. CASE ReadHead(r) /\ y.pc = "attach" /\ y.head = Len(blocks)
  <2>1. TellSound(blocks, watches, N, y)  BY <1>4, <1>8 DEF TellSound, InLogs, SendPcs
  <2>2. cursor' = cursor  BY <1>8 DEF ReadHead
  <2>. QED  BY <1>6, <2>1, <2>2
<1>9. CASE /\ x.pc = "cursor" /\ y.pc \in {"deadlines", "scan"} /\ y.head = x.head
           /\ y.position = cursorFor /\ (y.pc = "scan" => ~(cursorFor > y.head)) /\ cursor' = cursor
  <2>1. cursorFor \in Int  BY <1>4 DEF cursorFor
  <2>2. DoneBefore(blocks, watches, N, cursorFor)
    <3>1. ASSUME NEW b \in DOMAIN blocks, IsBid(blocks, b), b < cursorFor  PROVE BidDone(blocks, watches, N, b)
      <4>1. b \in Nat /\ b >= 1  BY <1>4
      <4>2. cursor # None /\ cursor \in Int /\ b < cursor + 1  BY <1>4, <3>1, <4>1 DEF cursorFor
      <4>. QED  BY <3>1, <4>2 DEF TellBody, CursorTold, DoneBefore
    <3>. QED  BY <3>1 DEF DoneBefore
  <2>3. x.head \in Nat /\ x.head <= Len(blocks)  BY <1>5, <1>9
  <2>4. y.pc = "scan" => cursorFor <= Len(blocks) + 1  BY <1>4, <1>9, <2>1, <2>3
  <2>5. TellSound(blocks, watches, N, y)  BY <1>9, <2>2, <2>3, <2>4 DEF TellSound, InLogs, SendPcs
  <2>. QED  BY <1>6, <1>9, <2>5
<1>10. CASE /\ x.pc = "scan" /\ y.pc = "event" /\ y.upto \in x.position..y.head /\ y.head = x.head
            /\ y.logs = LogsOf(x.position, y.upto) /\ y.position = x.position /\ cursor' = cursor
  <2>1. x.position \in Int /\ x.head \in Nat /\ y.upto \in Int /\ y.upto <= Len(blocks) /\ x.head <= Len(blocks)
    BY <1>4, <1>5, <1>10
  <2>2. x.position <= Len(blocks) + 1 /\ DoneBefore(blocks, watches, N, x.position)  BY <1>5, <1>10 DEF TellSound
  <2>3. \E at \in [DOMAIN y.logs -> DOMAIN blocks] : InOrder(blocks, watches, N, y.logs, y.upto, at)
    BY <1>10, <2>1, <2>2, GetTells
  <2>4. \A c : InHand(blocks, watches, N, y, c)  BY <1>10 DEF InHand, SendPcs
  <2>5. TellSound(blocks, watches, N, y)  BY <1>10, <2>1, <2>2, <2>3, <2>4 DEF TellSound
  <2>. QED  BY <1>6, <1>10, <2>5
<1>11. CASE /\ x.pc = "event" /\ x.logs = <<>> /\ y.pc = "scan" /\ y.head = x.head
            /\ y.position = x.upto + 1 /\ cursor' \in {cursor, x.upto}
  <2>. DEFINE n == x.upto + 1
  <2>1. TellSound(blocks, watches, N, x) /\ InLogs(x) /\ x.upto \in Int /\ DOMAIN x.logs = {}
    BY <1>5, <1>11 DEF InLogs
  <2>2. x.upto <= Len(blocks) /\ \E at : InOrder(blocks, watches, N, x.logs, x.upto, at)  BY <2>1 DEF TellSound
  <2>3. DoneBefore(blocks, watches, N, n)
    <3>1. \A b \in DOMAIN blocks : b < n => b <= x.upto  BY <1>4, <2>1
    <3>. QED  BY <2>1, <2>2, <3>1 DEF InOrder, DoneBefore
  <2>4. n \in Int /\ n <= Len(blocks) + 1 /\ n - 1 = x.upto  BY <1>4, <2>1, <2>2
  <2>. HIDE DEF n
  <2>5. y.position = n  BY <1>11 DEF n
  <2>6. TellSound(blocks, watches, N, y)  BY <1>5, <1>11, <2>3, <2>4, <2>5 DEF TellSound, InLogs, SendPcs
  <2>. QED  BY <1>6, <1>7, <1>11, <2>3, <2>4, <2>6
<1>12. CASE x.pc = "scan" /\ y.pc = "deadlines" /\ y.head = x.head /\ cursor' = x.position - 1
  <2>1. x.position <= Len(blocks) + 1 /\ DoneBefore(blocks, watches, N, x.position) /\ x.position \in Int
    BY <1>5, <1>12 DEF TellSound
  <2>2. TellSound(blocks, watches, N, y)  BY <1>5, <1>12 DEF TellSound, InLogs, SendPcs
  <2>. QED  BY <1>6, <1>7, <1>12, <2>1, <2>2
<1>. HIDE DEF x
<1>. QED  BY <1>1, <1>8, <1>9, <1>10, <1>11, <1>12 DEF ScanStep, x

\* An event is handled, if it is a bid, by telling whom it outbid.
LEMMA HandledTells ==
  ASSUME PassInv, TellBody, NEW r \in Runs, Handle(r), NEW y, run' = [run EXCEPT ![r] = y], Onward(run[r], y),
         \A c \in DOMAIN blocks :
           /\ blocks[c] = Event(r) /\ IsBid(blocks, c) /\ DoneBefore(blocks, watches, DOMAIN notes, c)
           /\ InHand(blocks, watches, DOMAIN notes, run[r], c)
           => IF y.pc = "event" THEN BidDone(blocks, watches', DOMAIN notes, c)
              ELSE InHand(blocks, watches', DOMAIN notes, y, c)
  PROVE  TellBody'
<1>. DEFINE x == run[r]
            N == DOMAIN notes
<1>1. /\ WatchStep /\ UNCHANGED <<blocks, cursor, notes>> /\ PassSound(x) /\ x \in Passes /\ InLogs(x)
      /\ x.logs # <<>> /\ x.logs \in Seq(AllEvents)
  BY HandleBecomes DEF noteVars
<1>2. Grows  BY <1>1, Steady
<1>3. DOMAIN blocks \subseteq Int /\ blocks' = blocks /\ DOMAIN notes' = N  BY <1>1 DEF PassInv, ChainTyped
<1>4. TellSound(blocks, watches, N, x) /\ x.upto \in Int /\ x.position \in Int
  <2>1. x # Idle  BY <1>1 DEF InLogs, SendPcs, Idle
  <2>. QED  BY <1>1, <2>1 DEF TellBody, Passes
<1>5. PICK at \in [DOMAIN x.logs -> DOMAIN blocks] :
        InOrder(blocks, watches, N, x.logs, x.upto, at) /\ InHand(blocks, watches, N, x, at[1])
  BY <1>1, <1>4 DEF TellSound
<1>6. 1 \in DOMAIN x.logs /\ at[1] \in DOMAIN blocks /\ blocks[at[1]] = Event(r) /\ at[1] <= x.upto
  <2>1. 1 \in DOMAIN x.logs /\ Head(x.logs) = x.logs[1]  BY <1>1, TailOf
  <2>. QED  BY <1>5, <2>1 DEF InOrder, Event
<1>7. DoneBefore(blocks, watches, N, at[1])
  <2>1. ASSUME NEW b \in DOMAIN blocks, IsBid(blocks, b), b < at[1]  PROVE BidDone(blocks, watches, N, b)
    <3>1. b \in Int /\ at[1] \in Int /\ b <= x.upto  BY <1>3, <1>4, <1>6, <2>1
    <3>2. ASSUME NEW i \in DOMAIN x.logs, at[i] = b  PROVE FALSE
      <4>1. i \in Nat /\ i >= 1  BY <1>1
      <4>2. i = 1 \/ 1 < i  BY <4>1
      <4>3. 1 < i => at[1] < at[i]  BY <1>5, <1>6 DEF InOrder
      <4>. QED  BY <2>1, <3>1, <3>2, <4>2, <4>3
    <3>. QED  BY <1>5, <2>1, <3>1, <3>2 DEF InOrder
  <2>. QED  BY <2>1 DEF DoneBefore
<1>8. at \in [DOMAIN x.logs -> DOMAIN blocks] /\ InOrder(blocks, watches', N, x.logs, x.upto, at)
  <2>1. x.upto <= Len(blocks)  BY <1>1, <1>4 DEF TellSound
  <2>2. InOrder(blocks', watches', DOMAIN notes', x.logs, x.upto, at)  BY <1>2, <1>4, <1>5, <2>1, OrderStays
  <2>. QED  BY <1>3, <2>2
<1>9. IsBid(blocks, at[1]) => IF y.pc = "event" THEN BidDone(blocks, watches', N, at[1])
                              ELSE InHand(blocks, watches', N, y, at[1])
  BY <1>5, <1>6, <1>7
<1>10. \E to \in [DOMAIN y.logs -> DOMAIN blocks] :
         InOrder(blocks, watches', N, y.logs, x.upto, to) /\ InHand(blocks, watches', N, y, to[1])
  <2>1. CASE y.pc = "event"
    <3>1. y.logs = Tail(x.logs)  BY <2>1 DEF Onward
    <3>2. \A c : InHand(blocks, watches', N, y, c)  BY <2>1 DEF InHand, SendPcs
    <3>3. \E to \in [DOMAIN Tail(x.logs) -> DOMAIN blocks] : InOrder(blocks, watches', N, Tail(x.logs), x.upto, to)
      BY <1>1, <1>3, <1>8, <1>9, <2>1, NextLog
    <3>. QED  BY <3>1, <3>2, <3>3
  <2>2. CASE y.pc # "event"
    <3>1. y.logs = x.logs  BY <2>2 DEF Onward
    <3>2. InHand(blocks, watches', N, y, at[1])  BY <1>9, <2>2 DEF InHand
    <3>. QED  BY <1>8, <3>1, <3>2
  <2>. QED  BY <2>1, <2>2
<1>11. TellSound(blocks, watches', N, y)
  <2>1. y.head = x.head /\ y.position = x.position /\ y.upto = x.upto /\ InLogs(y)  BY DEF Onward
  <2>2. /\ x.head <= Len(blocks) /\ x.position <= Len(blocks) + 1 /\ x.upto <= Len(blocks)
        /\ DoneBefore(blocks, watches, N, x.position)
    BY <1>1, <1>4 DEF TellSound
  <2>3. DoneBefore(blocks', watches', DOMAIN notes', x.position)  BY <1>2, <1>4, <2>2, DoneStays
  <2>. QED  BY <1>3, <1>10, <2>1, <2>2, <2>3 DEF TellSound
<1>. QED  BY <1>1, <1>2, <1>3, <1>11, TellMoves

LEMMA BidTells ==
  ASSUME NoneIsNoEvent, PassInv, NewsInv, TellBody, "round" \notin lapsed, BidsAreRead, NEW r \in Runs, HandleBid(r)
  PROVE  TellBody'
<1>. DEFINE x == run[r]
            e == Event(r)
            keys == {Key(w, "auction.outbid", "round") : w \in priorBidders(e.wallet)}
<1>1. Handle(r) /\ watches' = watches  BY DEF Handle, HandleBid
<1>2. PICK y : run' = [run EXCEPT ![r] = y] /\ Onward(x, y)  BY <1>1, HandleBecomes
<1>3. run'[r] = y /\ x \in Passes  BY <1>1, <1>2, HandleBecomes DEF PassInv
<1>4. ~AuctionOver
  <2>1. ASSUME NEW c \in AuctionClosings, OnChain(c)  PROVE FALSE
    <3>1. c # None  BY NoneApart DEF AllEvents
    <3>2. c \in sent  BY <2>1, <3>1 DEF OnChain, NewsInv, ChainSent
    <3>. QED  BY <3>2 DEF NewsInv, RoundSound
  <2>. QED  BY <2>1 DEF AuctionOver
<1>5. y.pc = "bid"  BY <1>3, <1>4 DEF BidsAreRead
<1>6. y.sends = SetToSeq(keys)
  <2>. DEFINE s == SetToSeq(keys)
  <2>1. CASE Sends(r, {})
    <3>1. y = [x EXCEPT !.pc = "event", !.logs = Tail(@)]  BY <1>2, <2>1, <1>3 DEF Sends, PassInv
    <3>2. y.pc = "event"  BY <1>3, <3>1 DEF Passes
    <3>. QED  BY <1>5, <3>2
  <2>2. CASE ~Sends(r, {})
    <3>1. run' = [run EXCEPT ![r].pc = "bid", ![r].sends = s]  BY <2>2 DEF HandleBid
    <3>. HIDE DEF s
    <3>2. y = [x EXCEPT !.pc = "bid", !.sends = s]  BY <1>3, <3>1 DEF PassInv
    <3>3. y.sends = s  BY <1>3, <3>2 DEF Passes
    <3>. QED  BY <3>3 DEF s
  <2>. QED  BY <2>1, <2>2
<1>7. keys \subseteq SendsOf(y)
  <2>1. IsFiniteSet(keys)  BY PriorKeys
  <2>. HIDE DEF keys
  <2>2. \A k \in keys : \E i \in DOMAIN y.sends : y.sends[i] = k  BY <1>6, <2>1, SeqOfSet
  <2>. QED  BY <2>2 DEF SendsOf
<1>8. ASSUME NEW c \in DOMAIN blocks, blocks[c] = e, DoneBefore(blocks, watches, DOMAIN notes, c)
      PROVE  InHand(blocks, watches', DOMAIN notes, y, c)
  <2>1. ASSUME NEW a \in DOMAIN blocks, IsBid(blocks, a), a < c, blocks[a].wallet # e.wallet
        PROVE  Outbid(blocks, a) \in keys
    <3>1. blocks[a].wallet \in Bidders  BY <2>1 DEF IsBid, BidEvents, Bid
    <3>2. Bidding(watches, blocks[a].wallet)  BY <1>8, <2>1 DEF DoneBefore, BidDone
    <3>3. watches[<<"round", blocks[a].wallet>>] \in {"none", "open", "resolved"}  BY <3>1 DEF PassInv, Watches
    <3>4. blocks[a].wallet \in priorBidders(e.wallet)
      BY <2>1, <3>1, <3>2, <3>3 DEF Bidding, NewsInv, RoundSound, priorBidders
    <3>. QED  BY <3>4 DEF Outbid
  <2>. HIDE DEF keys
  <2>2. Tells(blocks, DOMAIN notes \cup SendsOf(y), c)  BY <1>7, <1>8, <2>1 DEF Tells
  <2>. QED  BY <1>5, <2>2 DEF InHand
<1>. HIDE DEF x, e, keys
<1>9. \A c \in DOMAIN blocks :
        blocks[c] = e /\ DoneBefore(blocks, watches, DOMAIN notes, c) => InHand(blocks, watches', DOMAIN notes, y, c)
  BY <1>8
<1>. QED  BY <1>1, <1>2, <1>5, <1>9, HandledTells DEF x, e

LEMMA WatchTells ==
  ASSUME PassInv, TellBody, NEW r \in Runs, WatchBidder(r)
  PROVE  TellBody'
<1>. DEFINE x == run[r]
            e == Event(r)
            keys == SendsOf(x)
            N == DOMAIN notes
<1>1. Handle(r) /\ x.pc = "bid" /\ watch("round", e.wallet) /\ Sends(r, keys)
  BY DEF Handle, WatchBidder, SendsOf
<1>2. PassSound(x) /\ x \in Passes /\ InLogs(x) /\ x.logs # <<>> /\ x.due = <<>>  BY <1>1, HandleBecomes
<1>3. keys \subseteq Keys /\ IsFiniteSet(keys)
  <2>1. x.sends \in Seq(Keys)  BY <1>2 DEF Passes
  <2>. QED  BY <2>1, SeqIsFinite DEF SendsOf
<1>4. PICK y : run' = [run EXCEPT ![r] = y] /\ Onward(x, y)  BY <1>1, HandleBecomes
<1>. HIDE DEF keys
<1>5. \/ keys = {} /\ y = [x EXCEPT !.pc = "event", !.logs = Tail(@)]
      \/ keys # {} /\ y = [x EXCEPT !.pc = "send", !.sends = SetToSeq(keys)]
  <2>0. InLogs(run[r]) /\ run[r].logs # <<>> /\ run[r].due = <<>> /\ Sends(r, keys)  BY <1>1, <1>2
  <2>1. PICK z : /\ PassSound(z) /\ run' = [run EXCEPT ![r] = z]
                 /\ \/ keys = {} /\ z = [run[r] EXCEPT !.pc = "event", !.logs = Tail(@)]
                    \/ keys # {} /\ z = [run[r] EXCEPT !.pc = "send", !.sends = SetToSeq(keys)]
    BY <1>3, <2>0, SendsMove, Zenon
  <2>2. run'[r] = z /\ run'[r] = y  BY <1>4, <2>1 DEF PassInv
  <2>. QED  BY <2>1, <2>2
<1>6. ASSUME NEW c \in DOMAIN blocks, blocks[c] = e, IsBid(blocks, c), InHand(blocks, watches, N, x, c)
      PROVE  IF y.pc = "event" THEN BidDone(blocks, watches', N, c) ELSE InHand(blocks, watches', N, y, c)
  <2>1. Tells(blocks, N \cup keys, c)  BY <1>1, <1>6 DEF InHand, keys
  <2>2. Bidding(watches', e.wallet)
    <3>1. e.wallet \in Bidders  BY <1>6 DEF IsBid, BidEvents, Bid
    <3>2. <<"round", e.wallet>> \in Watches  BY <3>1 DEF Watches
    <3>. QED  BY <1>1, <3>2 DEF watch, Bidding, PassInv
  <2>3. CASE keys = {}
    <3>. DEFINE t == Tail(x.logs)
    <3>1. y = [x EXCEPT !.pc = "event", !.logs = t]  BY <1>5, <2>3
    <3>. HIDE DEF t
    <3>2. y.pc = "event"  BY <1>2, <3>1 DEF Passes
    <3>3. N \cup keys = N  BY <2>3
    <3>. QED  BY <1>6, <2>1, <2>2, <3>2, <3>3 DEF BidDone
  <2>4. CASE keys # {}
    <3>. DEFINE s == SetToSeq(keys)
    <3>1. y = [x EXCEPT !.pc = "send", !.sends = s]  BY <1>5, <2>4
    <3>2. s \in Seq(keys) /\ \A k \in keys : \E i \in DOMAIN s : s[i] = k  BY <1>3, SeqOfSet
    <3>. HIDE DEF s
    <3>3. y.pc = "send" /\ y.sends = s  BY <1>2, <3>1 DEF Passes
    <3>4. SendsOf(y) = keys  BY <3>2, <3>3 DEF SendsOf
    <3>. QED  BY <1>6, <2>1, <2>2, <3>3, <3>4 DEF InHand
  <2>. QED  BY <2>3, <2>4
<1>. HIDE DEF x, e, N
<1>. QED  BY <1>1, <1>4, <1>6, HandledTells DEF x, e, N

LEMMA HandleTells ==
  ASSUME NoneIsNoEvent, PassInv, NewsInv, TellBody, "round" \notin lapsed, BidsAreRead, NEW r \in Runs, Handle(r)
  PROVE  TellBody'
<1>. DEFINE e == Event(r)
<1>1. CASE HandleBid(r)  BY <1>1, BidTells
<1>2. CASE WatchBidder(r)  BY <1>2, WatchTells
<1>3. CASE ~HandleBid(r) /\ ~WatchBidder(r)
  <2>1. PICK y : run' = [run EXCEPT ![r] = y] /\ Onward(run[r], y)  BY HandleBecomes
  <2>2. \A c \in BidEvents : c.type = "BidPlaced"  BY DEF BidEvents, Bid
  <2>3. CASE OfferReceived(r)
    <3>1. PassSound(run[r]) /\ run[r].pc = "holder"  BY <2>3, HandleBecomes DEF OfferReceived
    <3>2. e \in Openings  BY <3>1 DEF PassSound, Event
    <3>3. e.type = "OfferCreated"  BY <3>2 DEF Openings, Opened
    <3>. HIDE DEF e
    <3>4. e \notin BidEvents  BY <2>2, <3>3
    <3>. QED  BY <2>1, <3>4, HandledTells DEF IsBid, e
  <2>4. CASE HandleOpened(r) \/ HandleClosed(r) \/ HandleSettled(r)
    <3>1. e.type # "BidPlaced"  BY <2>4 DEF HandleOpened, HandleClosed, HandleSettled
    <3>. HIDE DEF e
    <3>2. e \notin BidEvents  BY <2>2, <3>1
    <3>. QED  BY <2>1, <3>2, HandledTells DEF IsBid, e
  <2>. QED  BY <1>3, <2>3, <2>4 DEF Handle
<1>. QED  BY <1>1, <1>2, <1>3

LEMMA NotifyTells ==
  ASSUME PassInv, NewsInv, TellBody, NEW r \in Runs, Notify(r)
  PROVE  TellBody'
<1>. DEFINE x == run[r]
            M == DOMAIN notes'
<1>0. UNCHANGED <<watches, lapsed>> /\ WatchStep  BY WatchesMove DEF Notify
<1>1. CASE reconcileNotificationProfileLinks(r)
  <2>. DEFINE y == [x EXCEPT !.pc = "cursor"]
  <2>1. x.pc = "attach" /\ run' = [run EXCEPT ![r] = y] /\ UNCHANGED <<blocks, cursor>> /\ notes' = Attached(linked)
    BY <1>1 DEF reconcileNotificationProfileLinks, Go, PassInv
  <2>2. x \in Passes /\ x # Idle  BY <2>1, Bigger DEF PassSound, Idle
  <2>3. y.pc = "cursor" /\ y.head = x.head  BY <2>2 DEF Passes
  <2>4. DOMAIN notes' = DOMAIN notes  BY <2>1 DEF Attached
  <2>. HIDE DEF y
  <2>5. x.head <= Len(blocks)  BY <2>2 DEF TellBody, TellSound
  <2>6. TellSound(blocks', watches', M, y)  BY <2>1, <2>3, <2>5 DEF TellSound, InLogs, SendPcs
  <2>7. Grows  BY <1>0, <2>1, <2>4, Steady
  <2>. QED  BY <2>1, <2>6, <2>7, TellMoves
<1>2. CASE ~reconcileNotificationProfileLinks(r)
  <2>1. /\ PassSound(x) /\ x \in Passes /\ x.pc \in SendPcs /\ UNCHANGED <<blocks, cursor>> /\ DOMAIN notes \subseteq M
        /\ (x.pc = "insert" => Sending(r) \in M)
    BY <1>2, Notifies DEF Notify, PassSound
  <2>2. PICK y : run' = [run EXCEPT ![r] = y] /\ Notified(x, y)  BY <1>2, Notifies DEF Notify
  <2>3. NotifyFields(x, y)  BY <2>1, <2>2, NotifiedIs
  <2>4. Grows  BY <1>0, <2>1, Steady
  <2>5. TellSound(blocks, watches, DOMAIN notes, x) /\ NewsSound(sent, lapsed, DOMAIN notes, x)
    BY <2>1 DEF TellBody, NewsInv, Idle, SendPcs
  <2>6. TellSound(blocks', watches', M, x)  BY <2>1, <2>4, <2>5, TellStays
  <2>7. CASE x.due # <<>>
    <3>1. ~InLogs(y) /\ y.pc # "scan" /\ y.head = x.head  BY <2>3, <2>7 DEF NotifyFields, InLogs, SendPcs
    <3>2. TellSound(blocks', watches', M, y)  BY <2>6, <3>1 DEF TellSound
    <3>. QED  BY <2>1, <2>2, <2>4, <3>2, TellMoves
  <2>8. CASE x.due = <<>>
    <3>1. InLogs(x) /\ x.logs # <<>> /\ x.logs \in Seq(AllEvents) /\ x.sends \in Seq(Keys) /\ x.sends # <<>>
      BY <2>1, <2>8 DEF InLogs, PassSound, Passes, SendPcs
    <3>2. PICK at \in [DOMAIN x.logs -> DOMAIN blocks'] :
            InOrder(blocks', watches', M, x.logs, x.upto, at) /\ InHand(blocks', watches', M, x, at[1])
      BY <2>6, <3>1 DEF TellSound
    <3>3. IsBid(blocks', at[1]) => Bidding(watches', blocks'[at[1]].wallet) /\ Tells(blocks', M \cup SendsOf(x), at[1])
      BY <2>1, <3>2 DEF InHand, SendPcs
    <3>4. x.pc # "send" => Head(x.sends) \in M
      BY <2>1, <2>5 DEF NewsSound, Recorded, Sending, SendPcs
    <3>. DEFINE n == Len(x.sends)
                t == Tail(x.sends)
    <3>5. /\ n \in Nat \ {0} /\ DOMAIN x.sends = 1..n /\ Head(x.sends) = x.sends[1]
          /\ DOMAIN t = 1..(n - 1) /\ \A i \in 1..(n - 1) : t[i] = x.sends[i + 1]
      BY <3>1, TailOf
    <3>. HIDE DEF n, t
    <3>6. ASSUME x.pc # "send"  PROVE \A k \in SendsOf(x) : k \in M \/ (n > 1 /\ \E i \in DOMAIN t : t[i] = k)
      <4>. SUFFICES ASSUME NEW i \in 1..n, x.sends[i] \notin M
                    PROVE  n > 1 /\ \E j \in DOMAIN t : t[j] = x.sends[i]
        BY <3>5 DEF SendsOf
      <4>1. i # 1  BY <3>4, <3>5, <3>6
      <4>2. i - 1 \in 1..(n - 1) /\ (i - 1) + 1 = i /\ n > 1  BY <3>5, <4>1
      <4>3. t[i - 1] = x.sends[(i - 1) + 1]  BY <3>5, <4>2
      <4>. QED  BY <3>5, <4>2, <4>3
    <3>7. \E to \in [DOMAIN y.logs -> DOMAIN blocks'] :
            InOrder(blocks', watches', M, y.logs, x.upto, to) /\ InHand(blocks', watches', M, y, to[1])
      <4>1. CASE y.pc \in SendPcs /\ y.logs = x.logs /\ SendsOf(x) \subseteq M \cup SendsOf(y)
        <5>1. y.pc # "bid"  BY <4>1 DEF SendPcs
        <5>2. ASSUME IsBid(blocks', at[1])  PROVE Tells(blocks', M \cup SendsOf(y), at[1])
          BY <3>3, <4>1, <5>2 DEF Tells
        <5>3. InHand(blocks', watches', M, y, at[1])  BY <3>3, <5>1, <5>2 DEF InHand
        <5>. QED  BY <3>2, <4>1, <5>3
      <4>2. CASE y.pc = "event" /\ y.logs = Tail(x.logs) /\ SendsOf(x) \subseteq M
        <5>1. M \cup SendsOf(x) = M  BY <4>2
        <5>2. IsBid(blocks', at[1]) => BidDone(blocks', watches', M, at[1])  BY <3>3, <5>1 DEF BidDone
        <5>3. DOMAIN blocks' \subseteq Int  BY <2>4 DEF Grows
        <5>4. \E to \in [DOMAIN Tail(x.logs) -> DOMAIN blocks'] : InOrder(blocks', watches', M, Tail(x.logs), x.upto, to)
          BY <3>1, <3>2, <5>2, <5>3, NextLog
        <5>5. \A c : InHand(blocks', watches', M, y, c)  BY <4>2 DEF InHand, SendPcs
        <5>. QED  BY <4>2, <5>4, <5>5
      <4>3. CASE y.pc \in SendPcs /\ y.logs = x.logs /\ y.sends = x.sends
        <5>1. SendsOf(y) = SendsOf(x)  BY <4>3 DEF SendsOf
        <5>. QED  BY <4>1, <4>3, <5>1
      <4>4. CASE x.pc # "send" /\ y.pc = "send" /\ y.logs = x.logs /\ y.sends = t
        <5>1. SendsOf(x) \subseteq M \cup SendsOf(y)  BY <3>6, <4>4 DEF SendsOf
        <5>. QED  BY <4>1, <4>4, <5>1 DEF SendPcs
      <4>5. CASE x.pc # "send" /\ ~(n > 1) /\ y.pc = "event" /\ y.logs = Tail(x.logs)
        <5>1. SendsOf(x) \subseteq M  BY <3>6, <4>5
        <5>. QED  BY <4>2, <4>5, <5>1
      <4>. QED  BY <2>3, <2>8, <4>3, <4>4, <4>5 DEF NotifyFields, n, t
    <3>8. TellSound(blocks', watches', M, y)
      <4>1. y.head = x.head /\ y.position = x.position /\ y.upto = x.upto  BY <2>3 DEF NotifyFields
      <4>. QED  BY <2>6, <3>1, <3>7, <4>1 DEF TellSound
    <3>. HIDE DEF x
    <3>. QED  BY <2>1, <2>2, <2>4, <3>8, TellMoves DEF x
  <2>. QED  BY <2>7, <2>8
<1>. QED  BY <1>1, <1>2

LEMMA DeadlinesTell ==
  ASSUME PassInv, TellBody, NEW r \in Runs, Deadlines(r)
  PROVE  TellBody'
<1>. DEFINE x == run[r]
<1>1. PICK y : run' = [run EXCEPT ![r] = y] /\ DueStep(r, y)  BY DeadlinesBecome
<1>2. UNCHANGED <<blocks, cursor, notes>> /\ WatchStep /\ x.pc \in {"deadlines", "due", "resolve"}
  BY DeadlinesBecome DEF noteVars
<1>3. Grows  BY <1>2, Steady
<1>4. x.head <= Len(blocks)  BY <1>2 DEF TellBody, TellSound, Idle
<1>5. y = Idle \/ TellSound(blocks', watches', DOMAIN notes', y)
  <2>1. y = Idle \/ (y.head = x.head /\ y.due # <<>> /\ y.pc \in {"due", "resolve", "send"})  BY <1>1 DEF DueStep
  <2>. QED  BY <1>2, <1>4, <2>1 DEF TellSound, InLogs, SendPcs
<1>. QED  BY <1>1, <1>2, <1>3, <1>5, TellMoves

LEMMA FailsTell ==
  ASSUME PassInv, TellBody, NEW r \in Runs, Fails(r)
  PROVE  TellBody'
<1>. DEFINE x == run[r]
<1>1. UNCHANGED <<blocks, notes, watches>> /\ WatchStep
  BY WatchesMove DEF Fails, Outage, Throws, Die, noteVars
<1>2. Grows  BY <1>1, Steady
<1>3. CASE Die(r)  BY <1>2, <1>3, TellMoves DEF Die
<1>4. CASE Outage(r)
  <2>1. x.pc = "scan" /\ run' = [run EXCEPT ![r] = Idle] /\ cursor' \in {cursor, x.position - 1}
    BY <1>4 DEF Outage
  <2>2. x \in Passes /\ x # Idle  BY <2>1, Bigger DEF PassSound, Idle
  <2>3. /\ x.position \in Int /\ x.position <= Len(blocks) + 1 /\ Len(blocks) \in Nat
        /\ DoneBefore(blocks, watches, DOMAIN notes, x.position)
    BY <2>1, <2>2 DEF TellBody, TellSound, Passes, PassInv, ChainTyped
  <2>4. (x.position - 1) + 1 = x.position /\ x.position - 1 <= Len(blocks)  BY <2>3
  <2>5. cursor' = x.position - 1 => CursorTold'  BY <1>1, <2>3, <2>4 DEF CursorTold
  <2>. QED  BY <1>2, <2>1, <2>5, TellMoves
<1>5. CASE Throws(r)
  <2>. DEFINE none == <<>>
              y == [x EXCEPT !.pc = "scan", !.sends = none, !.logs = none]
  <2>1. x.pc = "insert" /\ x.due = <<>> /\ cursor' = cursor /\ run' = [run EXCEPT ![r] = [x EXCEPT !.pc = "scan", !.sends = <<>>, !.logs = <<>>]]
    BY <1>5 DEF Throws, PassInv
  <2>2. x \in Passes /\ InLogs(x) /\ x # Idle  BY <2>1, Bigger DEF PassSound, InLogs, SendPcs, Idle
  <2>3. run' = [run EXCEPT ![r] = y]  BY <2>1
  <2>. HIDE DEF none
  <2>4. y.pc = "scan" /\ y.head = x.head /\ y.position = x.position  BY <2>2 DEF Passes
  <2>. HIDE DEF y
  <2>5. TellSound(blocks, watches, DOMAIN notes, x)  BY <2>2 DEF TellBody
  <2>6. TellSound(blocks, watches, DOMAIN notes, y)  BY <2>2, <2>4, <2>5 DEF TellSound, InLogs, SendPcs
  <2>. QED  BY <1>1, <1>2, <2>1, <2>3, <2>6, TellMoves
<1>. QED  BY <1>3, <1>4, <1>5 DEF Fails

LEMMA TellGrows ==
  ASSUME PassInv, TellBody, UNCHANGED <<run, cursor>>, Grows
  PROVE  TellBody'
<1>1. CursorTold'  BY ToldStays
<1>2. \A r \in Runs : run'[r] = Idle \/ TellSound(blocks', watches', DOMAIN notes', run'[r])
  BY TellStays DEF TellBody, PassInv
<1>. QED  BY <1>1, <1>2 DEF TellBody

LEMMA TellStep ==
  ASSUME ReplayIsNat, NoneIsNoEvent, PassInv, NewsInv, TellInv,
         [Next /\ ~ChainReorganises /\ BidsAreRead]_sweepVars
  PROVE  TellInv'
<1>. SUFFICES ASSUME "round" \notin lapsed'  PROVE TellBody'  BY DEF TellInv
<1>1. ASSUME UNCHANGED <<blocks, run, cursor, watches>>, DOMAIN notes \subseteq DOMAIN notes', lapsed \subseteq lapsed'
      PROVE  TellBody'
  <2>1. WatchStep  BY <1>1, WatchesMove
  <2>2. Grows  BY <1>1, <2>1, Steady
  <2>. QED  BY <1>1, <2>2, TellGrows DEF TellInv
<1>2. CASE UNCHANGED sweepVars  BY <1>1, <1>2 DEF sweepVars, scanVars, noteVars
<1>3. ASSUME NEW r \in Runs, SweepStep(r) \/ Fails(r), BidsAreRead  PROVE TellBody'
  <2>1. UNCHANGED lapsed
    BY <1>3, HandleBecomes, DeadlinesBecome DEF SweepStep, Fails, Scan, Notify
  <2>. QED  BY <1>3, <2>1, ScanTells, HandleTells, NotifyTells, DeadlinesTell, FailsTell DEF SweepStep, TellInv
<1>4. CASE ChainGrows
  <2>1. /\ UNCHANGED <<cursor, run, watches, lapsed, notes>> /\ Len(blocks) \in Nat /\ DOMAIN blocks = 1..Len(blocks)
        /\ Len(blocks') = Len(blocks) + 1 /\ DOMAIN blocks' = 1..(Len(blocks) + 1)
        /\ \A b \in DOMAIN blocks : blocks'[b] = blocks[b]
    BY <1>4, NewEvents DEF noteVars
  <2>2. WatchStep  BY <2>1, WatchesMove
  <2>3. Grows  BY <2>1, <2>2 DEF Grows
  <2>. QED  BY <2>1, <2>3, TellGrows DEF TellInv
<1>5. CASE \E e \in Entities : Lapses(e)  BY <1>1, <1>5 DEF Lapses, scanVars, noteVars
<1>6. ASSUME NEW w \in Wallets, LinkWallet(w), UNCHANGED <<watches, lapsed>>  PROVE TellBody'
  <2>1. DOMAIN notes' = DOMAIN notes  BY <1>6 DEF LinkWallet, Attached
  <2>. QED  BY <1>1, <1>6, <2>1 DEF LinkWallet, scanVars
<1>. QED  BY <1>2, <1>3, <1>4, <1>5, <1>6 DEF Next

LEMMA TellSays == ASSUME PassInv, TellInv  PROVE OutbidIsTold
<1>. SUFFICES ASSUME cursor # None, "round" \notin lapsed, NEW i \in DOMAIN blocks, NEW j \in DOMAIN blocks,
                     j <= cursor, blocks[i] # None, blocks[i].type = "BidPlaced",
                     blocks[j] # None, blocks[j].type = "BidPlaced",
                     i < j, blocks[i].wallet # blocks[j].wallet
              PROVE  Outbid(blocks, i) \in DOMAIN notes
  BY DEF OutbidIsTold, Noted, Outbid
<1>1. blocks[i] \in AllEvents /\ blocks[j] \in AllEvents  BY DEF PassInv, ChainTyped
<1>2. IsBid(blocks, i) /\ IsBid(blocks, j)  BY <1>1, EventIs DEF IsBid
<1>3. j \in Int /\ cursor \in Int  BY DEF PassInv, ChainTyped
<1>4. j < cursor + 1  BY <1>3
<1>5. BidDone(blocks, watches, DOMAIN notes, j)  BY <1>2, <1>4 DEF TellInv, TellBody, CursorTold, DoneBefore
<1>. QED  BY <1>2, <1>5 DEF BidDone, Tells

\* However the invocations of the sweep overlap, fail and die, whoever was
\* outbid in a round that is still open has been told once the cursor has
\* passed the bid that outbid them.
THEOREM OutbidAreTold == BidsReadSpec => []OutbidIsTold
<1>1. Init => PassInv /\ NewsInv /\ TellInv  BY NotesFirst, NewsFirst, TellFirst
<1>2. PassInv /\ NewsInv /\ TellInv /\ [Next /\ ~ChainReorganises /\ BidsAreRead]_sweepVars => (PassInv /\ NewsInv /\ TellInv)'
  BY ReplayIsNat, RoundIsNoPosition, NoneIsNoEvent, PassStep, NewsStep, TellStep
<1>3. PassInv /\ TellInv => OutbidIsTold  BY TellSays
<1>. QED  BY <1>1, <1>2, <1>3, PTL DEF BidsReadSpec
=============================================================================
