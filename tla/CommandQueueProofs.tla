------------------------- MODULE CommandQueueProofs -------------------------
(***************************************************************************)
(* Proofs about CommandQueue, for any number of clients, slots and         *)
(* operations.                                                             *)
(***************************************************************************)
EXTENDS CommandQueue, SeqOpsProofs, SequenceTheorems

State == {"ready", "acquiring", "granted", "failed", "gone"}
Waiter == [client : Client, need : Nat, got : Nat]

QueueTyped ==
    /\ queue \in Seq(Client \X Nat) /\ permits \in Nat /\ waiters \in Seq(Waiter)
    /\ closed \in BOOLEAN
    /\ state \in [Client -> State] /\ op \in [Client -> {"none", "send", "wait", "waited"}]
    /\ count \in [Client -> Nat]
    /\ actor \in {"idle", "busy", "stopped", "panicked"}
    /\ sent \in Seq(Client \X Nat) /\ handled \in Nat /\ target \in [Client -> Nat]

(* Each of the acquisitions ws belongs to a client of its own, which waits *)
(* for it when st is what the clients do.                                  *)
InLine(ws, st) ==
    /\ \A i \in 1..Len(ws) :
          ws[i].need = Need(ws[i].client) /\ st[ws[i].client] = "acquiring"
    /\ \A i, j \in 1..Len(ws) : ws[i].client = ws[j].client => i = j

(* All the permits that are not with a message. *)
Outside(p, ws, st) == p + Total(SetAside(ws)) + SumOver(Held(st), Client)

(* The acquisitions are in line, a closed channel has none, and permits    *)
(* are conserved.                                                          *)
PermitsInv ==
    /\ QueueTyped
    /\ InLine(waiters, state)
    /\ closed => waiters = <<>>
    /\ actor = "panicked" => closed
    /\ ~closed => Outside(permits, waiters, state) + Len(queue) = Capacity

InHand == IF actor = "busy" THEN 1 ELSE 0

(* How many commands a wait may leave unhandled. *)
Lag == IF actor = "busy" \/ closed THEN 1 ELSE 0

(* A client whose wait has all the slots, or had them. *)
Through(c) == op[c] = "waited" \/ (op[c] = "wait" /\ state[c] = "granted")

(* Every command that was sent is handled, in the actor's hands or in the  *)
(* channel; a wait knows no command that was not sent.                     *)
Accounted ==
    /\ ~closed => Len(sent) = handled + InHand + Len(queue)
    /\ \A c \in Client : target[c] <= Len(sent)

(* Whoever is granted all slots leaves no more than the actor's command    *)
(* unhandled, already before it gives them back.                           *)
WaitInv == Accounted /\ \A c \in Client : Through(c) => handled >= target[c] - Lag

-----------------------------------------------------------------------------
(***************************************************************************)
(* Permits that come back.                                                 *)
(***************************************************************************)
Needs(ws) == [i \in DOMAIN ws |-> ws[i].need]

(* What the clients do when the first m of ws get their permits. *)
Granting(ws, m, st) ==
    [c \in Client |-> IF \E i \in 1..m : ws[i].client = c THEN "granted" ELSE st[c]]

(* The three sequences of numbers about ws. *)
LEMMA WaiterNumbers ==
    ASSUME NEW ws \in Seq(Waiter)
    PROVE  /\ Needs(ws) \in Seq(Int) /\ SetAside(ws) \in Seq(Nat) /\ SetAside(ws) \in Seq(Int)
           /\ Lacking(ws) \in Seq(Int)
           /\ Len(Needs(ws)) = Len(ws) /\ Len(SetAside(ws)) = Len(ws)
           /\ Len(Lacking(ws)) = Len(ws)
           /\ \A i \in 1..Len(ws) : /\ Needs(ws)[i] = ws[i].need
                                    /\ SetAside(ws)[i] = ws[i].got
                                    /\ Lacking(ws)[i] = ws[i].need - ws[i].got
<1>1. PICK n \in Nat : n = Len(ws) /\ DOMAIN ws = 1..n
  OBVIOUS
<1>2. \A i \in 1..n : ws[i] \in Waiter
  BY <1>1
<1>3. \A i \in 1..n : ws[i].need \in Nat /\ ws[i].got \in Nat
  BY <1>2 DEF Waiter
<1>4. \A i \in 1..n : ws[i].need - ws[i].got \in Int
  BY <1>3
<1>5. Needs(ws) = [i \in 1..n |-> ws[i].need]
  BY <1>1 DEF Needs
<1>6. SetAside(ws) = [i \in 1..n |-> ws[i].got]
  BY <1>1 DEF SetAside
<1>7. Lacking(ws) = [i \in 1..n |-> ws[i].need - ws[i].got]
  BY <1>1 DEF Lacking
<1>8. Needs(ws) \in Seq(Int) /\ Len(Needs(ws)) = n
  BY <1>3, <1>5
<1>9. SetAside(ws) \in Seq(Nat) /\ SetAside(ws) \in Seq(Int) /\ Len(SetAside(ws)) = n
  BY <1>3, <1>6
<1>10. Lacking(ws) \in Seq(Int) /\ Len(Lacking(ws)) = n
  BY <1>4, <1>7
<1>11. \A i \in 1..n : /\ Needs(ws)[i] = ws[i].need
                      /\ SetAside(ws)[i] = ws[i].got
                      /\ Lacking(ws)[i] = ws[i].need - ws[i].got
  BY <1>5, <1>6, <1>7
<1> QED  BY <1>1, <1>8, <1>9, <1>10, <1>11

(* What is needed is what is lacking and what is set aside. *)
LEMMA NeedsSplit ==
    ASSUME NEW ws \in Seq(Waiter)
    PROVE  \A i \in 0..Len(ws) :
              Sums(Needs(ws))[i] = Sums(Lacking(ws))[i] + Sums(SetAside(ws))[i]
<1>1. \A i \in 1..Len(Needs(ws)) : Needs(ws)[i] = Lacking(ws)[i] + SetAside(ws)[i]
  <2> SUFFICES ASSUME NEW i \in 1..Len(ws)
               PROVE  Needs(ws)[i] = Lacking(ws)[i] + SetAside(ws)[i]
    BY WaiterNumbers
  <2>1. ws[i] \in Waiter
    OBVIOUS
  <2>2. PICK a \in Nat, b \in Nat : a = ws[i].need /\ b = ws[i].got
    BY <2>1 DEF Waiter
  <2>3. a = (a - b) + b
    BY <2>2
  <2> QED  BY <2>2, <2>3, WaiterNumbers
<1>2. PICK a \in Seq(Int), b \in Seq(Int), c \in Seq(Int) :
        a = Needs(ws) /\ b = Lacking(ws) /\ c = SetAside(ws)
  BY WaiterNumbers
<1>3. /\ Len(a) = Len(ws) /\ Len(b) = Len(a) /\ Len(c) = Len(a)
      /\ \A i \in 1..Len(a) : a[i] = b[i] + c[i]
  BY <1>1, <1>2, WaiterNumbers, Zenon
<1>4. \A i \in 0..Len(a) : Sums(a)[i] = Sums(b)[i] + Sums(c)[i]
  BY <1>3, SumsAdd
<1> QED  BY <1>2, <1>3, <1>4

(* An operation needs one slot or all of them. *)
LEMMA NeedType ==
    ASSUME NEW c \in Client
    PROVE  Need(c) \in Nat
  BY CapacityAssumption DEF Need

LEMMA HeldType ==
    ASSUME NEW st
    PROVE  /\ Held(st) \in [Client -> Nat] /\ Held(st) \in [Client -> Int]
           /\ \A c \in Client : Held(st)[c] = IF st[c] = "granted" THEN Need(c) ELSE 0
<1>1. \A c \in Client : (IF st[c] = "granted" THEN Need(c) ELSE 0) \in Nat
  BY NeedType
<1> QED  BY <1>1 DEF Held

LEMMA HeldTotal ==
    ASSUME NEW st
    PROVE  SumOver(Held(st), Client) \in Nat
  BY ClientAssumption, HeldType, SumBounds

(* Granting the first m acquisitions hands out what they need. *)
LEMMA GrantingHolds ==
    ASSUME NEW ws \in Seq(Waiter), NEW st \in [Client -> State], InLine(ws, st)
    PROVE  \A m \in 0..Len(ws) :
              SumOver(Held(Granting(ws, m, st)), Client)
                = SumOver(Held(st), Client) + Sums(Needs(ws))[m]
<1> DEFINE bad == {m \in 0..Len(ws) : SumOver(Held(Granting(ws, m, st)), Client)
                                        # SumOver(Held(st), Client) + Sums(Needs(ws))[m]}
<1> SUFFICES ASSUME bad # {} PROVE FALSE
  OBVIOUS
<1>0. PICK total \in Int : total = SumOver(Held(st), Client)
  BY ClientAssumption, HeldType, SumBounds
<1>1. bad \subseteq Nat /\ Len(ws) \in Nat
  OBVIOUS
<1>2. PICK m \in bad : \A j \in bad : m <= j
  BY <1>1, LeastNat
<1>3. /\ m \in 0..Len(ws) /\ m \in Nat
      /\ SumOver(Held(Granting(ws, m, st)), Client) # total + Sums(Needs(ws))[m]
  BY <1>0, <1>2
<1>4. m # 0
  <2> SUFFICES ASSUME m = 0 PROVE FALSE
    OBVIOUS
  <2>1. ~\E i \in 1..m : TRUE
    OBVIOUS
  <2>2. Granting(ws, m, st) = [c \in Client |-> st[c]]
    BY <2>1 DEF Granting
  <2>3. Granting(ws, m, st) = st
    BY <2>2
  <2>4. Sums(Needs(ws))[m] = 0
    BY WaiterNumbers, SumsUnfold
  <2> QED  BY <1>0, <1>3, <2>3, <2>4
<1>5. PICK k \in 0..Len(ws) : m = k + 1 /\ k \notin bad
  <2>1. m - 1 \in 0..Len(ws) /\ m = (m - 1) + 1 /\ ~(m <= m - 1)
    BY <1>1, <1>3, <1>4
  <2> QED  BY <1>2, <2>1
<1>6. SumOver(Held(Granting(ws, k, st)), Client) = total + Sums(Needs(ws))[k]
  BY <1>0, <1>5
<1> HIDE DEF bad
<1>7. m \in 1..Len(ws) /\ m \in 1..m
  BY <1>1, <1>3, <1>4
<1>8. PICK a \in Client, n \in Nat : a = ws[m].client /\ n = ws[m].need
  <2>1. ws[m] \in Waiter
    BY <1>7
  <2> QED  BY <2>1 DEF Waiter
<1>9. n = Need(a) /\ st[a] # "granted"
  BY <1>7, <1>8 DEF InLine
<1>10. ~\E i \in 1..k : ws[i].client = a
  <2> SUFFICES ASSUME NEW i \in 1..k, ws[i].client = a PROVE FALSE
    OBVIOUS
  <2>1. i \in 1..Len(ws) /\ i # m
    BY <1>5, <1>1
  <2> QED  BY <1>7, <1>8, <2>1 DEF InLine
<1>11. \A c \in Client \ {a} :
         (\E i \in 1..m : ws[i].client = c) <=> (\E i \in 1..k : ws[i].client = c)
  <2>1. \A i \in 1..m : i = m \/ i \in 1..k
    BY <1>5
  <2>2. \A i \in 1..k : i \in 1..m
    BY <1>5
  <2> QED  BY <1>8, <2>1, <2>2
<1> DEFINE before == Granting(ws, k, st)
           after == Granting(ws, m, st)
<1>12. /\ before[a] # "granted" /\ after[a] = "granted"
       /\ \A c \in Client \ {a} : after[c] = before[c]
  <2>1. before[a] = st[a]
    BY <1>10 DEF Granting
  <2>2. after[a] = "granted"
    BY <1>7, <1>8 DEF Granting
  <2>3. \A c \in Client \ {a} : after[c] = before[c]
    BY <1>11 DEF Granting
  <2> QED  BY <1>9, <2>1, <2>2, <2>3
<1> HIDE DEF before, after
<1>13. PICK b \in [Client -> Int], d \in [Client -> Int] : b = Held(before) /\ d = Held(after)
  BY HeldType
<1>14. /\ b[a] = 0 /\ d[a] = n
       /\ \A c \in Client \ {a} : d[c] = b[c]
  BY <1>9, <1>12, <1>13, HeldType
<1>15. d[a] = b[a] + n /\ n \in Int
  BY <1>14
<1>16. SumOver(d, Client) = SumOver(b, Client) + n
  BY <1>14, <1>15, ClientAssumption, SumChanges, ZenonT(40)
<1>17. Sums(Needs(ws))[m] = Sums(Needs(ws))[k] + n /\ Sums(Needs(ws))[k] \in Int
  <2>1. PICK s \in Seq(Int) : s = Needs(ws) /\ Len(s) = Len(ws) /\ s[m] = n
    BY <1>7, <1>8, WaiterNumbers
  <2>2. Sums(s)[m] = Sums(s)[k] + s[m] /\ Sums(s)[k] \in Int
    BY <1>5, <1>7, <2>1, SumsStep
  <2> QED  BY <2>1, <2>2
<1>18. PICK x \in Int, y \in Int : x = Sums(Needs(ws))[k] /\ y = SumOver(d, Client)
  <2>1. SumOver(b, Client) \in Int
    BY <1>0, <1>6, <1>13, <1>17 DEF before
  <2> QED  BY <1>16, <1>17, <2>1
<1>19. y = (total + x) + n
  BY <1>6, <1>13, <1>16, <1>18 DEF before
<1>20. y # total + (x + n)
  BY <1>3, <1>13, <1>17, <1>18 DEF after
<1> QED  BY <1>19, <1>20

(* The permits that come back complete the first acquisitions, and some    *)
(* are left.                                                               *)
LEMMA ServedType ==
    ASSUME NEW ws \in Seq(Waiter), NEW k \in Nat
    PROVE  /\ Served(ws, k) \in 0..Len(ws)
           /\ Sums(Lacking(ws))[Served(ws, k)] \in Int
           /\ k - Sums(Lacking(ws))[Served(ws, k)] \in Nat
<1> DEFINE T == {i \in 0..Len(ws) : Sums(Lacking(ws))[i] <= k}
<1>1. /\ Sums(Lacking(ws))[0] = 0
      /\ \A i \in 0..Len(ws) : Sums(Lacking(ws))[i] \in Int
  BY WaiterNumbers, SumsUnfold
<1>2. Len(ws) \in Nat /\ T \subseteq 0..Len(ws) /\ 0 \in T
  BY <1>1
<1>3. Served(ws, k) = Max(T)
  BY DEF Served
<1>4. Max(T) \in T
  BY <1>2, MaxExists
<1>5. Served(ws, k) \in 0..Len(ws) /\ Sums(Lacking(ws))[Served(ws, k)] <= k
  BY <1>3, <1>4
<1>6. PICK x \in Int : x = Sums(Lacking(ws))[Served(ws, k)]
  BY <1>1, <1>5
<1>7. k - x \in Nat
  BY <1>5, <1>6
<1> QED  BY <1>5, <1>6, <1>7

Rest(ws, m) == SubSeq(ws, m + 1, Len(ws))
Topped(ws, left) == IF ws = <<>> THEN <<>> ELSE [ws EXCEPT ![1].got = @ + left]

(* w is ws without its first m, where the first one has more by left. *)
Follows(w, rest, ws, m, left) ==
    /\ rest \in Seq(Waiter) /\ m + Len(rest) = Len(ws)
    /\ \A i \in 1..Len(rest) : rest[i] = ws[m + i]
    /\ w \in Seq(Waiter) /\ Len(w) = Len(rest)
    /\ rest # <<>> => w[1].got = rest[1].got + left
    /\ \A i \in 2..Len(rest) : w[i] = rest[i]

(* Those who are not served stay in line, the first of them with more. *)
LEMMA RestInLine ==
    ASSUME NEW ws \in Seq(Waiter), NEW st \in [Client -> State], InLine(ws, st),
           NEW m \in 0..Len(ws), NEW left \in Nat,
           NEW rest, rest = Rest(ws, m),
           NEW w, w = Topped(rest, left)
    PROVE  Follows(w, rest, ws, m, left) /\ InLine(w, Granting(ws, m, st))
<1>1. Len(ws) \in Nat /\ m \in Nat /\ m <= Len(ws)
  OBVIOUS
<1>2. /\ rest \in Seq(Waiter) /\ Len(rest) = Len(ws) - m
      /\ \A i \in 1..Len(rest) : rest[i] = ws[m + i]
  <2>0. m + 1 \in Nat /\ Len(ws) \in Nat
    BY <1>1
  <2>1. PICK a \in Nat, n \in Nat : a = m + 1 /\ n = Len(ws)
    BY <2>0
  <2>2. \A i \in a..n : ws[i] \in Waiter
    BY <2>1
  <2>3. rest = [i \in 1..(n - m) |-> ws[m + i]]
    <3>1. rest = SubSeq(ws, a, n)
      BY <2>1 DEF Rest
    <3>2. \A i \in 1..(n - m) : a + i - 1 = m + i
      BY <1>1, <2>1
    <3>3. (n - a) + 1 = n - m
      BY <1>1, <2>1
    <3>4. SubSeq(ws, a, n) = [i \in 1..((n - a) + 1) |-> ws[(i + a) - 1]]
      BY <2>1
    <3>5. \A i \in 1..(n - m) : (i + a) - 1 = m + i
      BY <1>1, <2>1
    <3> QED  BY <3>1, <3>3, <3>4, <3>5
  <2>4. \A i \in 1..(n - m) : ws[m + i] \in Waiter
    <3>1. \A i \in 1..(n - m) : m + i \in a..n
      BY <1>1, <2>1
    <3> QED  BY <2>2, <3>1
  <2>5. n - m \in Nat
    BY <1>1, <2>1
  <2>6. rest \in Seq(Waiter) /\ Len(rest) = n - m
    BY <2>3, <2>4, <2>5
  <2> QED  BY <2>1, <2>3, <2>6
<1>3. /\ w \in Seq(Waiter) /\ Len(w) = Len(rest)
      /\ rest # <<>> => w[1].got = rest[1].got + left
      /\ \A i \in 2..Len(rest) : w[i] = rest[i]
      /\ \A i \in 1..Len(rest) : w[i].client = rest[i].client /\ w[i].need = rest[i].need
  <2>1. CASE rest = <<>>
    <3>1. w = <<>>
      BY <2>1 DEF Topped
    <3> QED  BY <1>2, <2>1, <3>1
  <2>2. CASE rest # <<>>
    <3>0. Len(rest) \in Nat /\ Len(rest) # 0 /\ DOMAIN rest = 1..Len(rest)
      <4>1. rest \in Seq(Waiter) /\ rest # <<>>
        BY <1>2, <2>2
      <4> QED  BY <4>1
    <3>a. PICK n \in Nat : n = Len(rest)
      BY <3>0
    <3>1. n = Len(rest) /\ 1 \in 1..n /\ DOMAIN rest = 1..n
      BY <3>0, <3>a
    <3>2. rest[1] \in Waiter
      BY <1>2, <3>1
    <3>3. PICK r \in Waiter : r = rest[1]
      BY <3>2
    <3>4. PICK q : q = [r EXCEPT !.got = @ + left]
      OBVIOUS
    <3>5. q \in Waiter /\ q.got = r.got + left /\ q.client = r.client /\ q.need = r.need
      <4>1. r.got \in Nat /\ r.client \in Client /\ r.need \in Nat
        BY DEF Waiter
      <4>2. r = [client |-> r.client, need |-> r.need, got |-> r.got]
        BY DEF Waiter
      <4>3. q = [client |-> r.client, need |-> r.need, got |-> r.got + left]
        BY <3>4, <4>2
      <4>4. r.got + left \in Nat
        BY <4>1
      <4>5. q.got = r.got + left /\ q.client = r.client /\ q.need = r.need
        BY <4>3
      <4>6. q \in Waiter
        BY <4>1, <4>3, <4>4 DEF Waiter
      <4> QED  BY <4>5, <4>6
    <3>6. w = [rest EXCEPT ![1] = q]
      BY <2>2, <3>3, <3>4 DEF Topped
    <3>7. /\ w \in Seq(Waiter) /\ Len(w) = n /\ w[1] = q
          /\ \A i \in 1..n : i # 1 => w[i] = rest[i]
      <4>1. w = [i \in 1..n |-> IF i = 1 THEN q ELSE rest[i]]
        BY <3>1, <3>6
      <4>2. \A i \in 1..n : rest[i] \in Waiter
        BY <1>2, <3>1
      <4>3. \A i \in 1..n : (IF i = 1 THEN q ELSE rest[i]) \in Waiter
        BY <3>5, <4>2
      <4>4. w \in Seq(Waiter) /\ Len(w) = n
        <5>1. w \in [1..n -> Waiter]
          BY <4>1, <4>3
        <5> QED  BY <3>1, <5>1
      <4> QED  BY <3>1, <4>1, <4>4
    <3>8. \A i \in 2..n : i \in 1..n /\ i # 1
      BY <3>1
    <3> QED  BY <3>1, <3>3, <3>5, <3>7, <3>8
  <2> QED  BY <2>1, <2>2
<1>4. \A i \in 1..Len(rest) : m + i \in 1..Len(ws) /\ m + i \in Nat
  <2>0. PICK n \in Nat : n = Len(ws)
    BY <1>1
  <2>1. PICK l \in Nat : l = Len(rest) /\ l = n - m
    <3>1. rest \in Seq(Waiter) /\ Len(rest) = n - m
      BY <1>2, <2>0
    <3>2. Len(rest) \in Nat
      BY <3>1
    <3> QED  BY <3>1, <3>2
  <2>2. \A i \in 1..l : m + i \in 1..n /\ m + i \in Nat
    BY <1>1, <2>1
  <2> QED  BY <2>0, <2>1, <2>2
<1>5. \A i \in 1..Len(w) : w[i].client = ws[m + i].client /\ w[i].need = ws[m + i].need
  <2> SUFFICES ASSUME NEW i \in 1..Len(rest)
               PROVE  w[i].client = ws[m + i].client /\ w[i].need = ws[m + i].need
    BY <1>3
  <2>1. rest[i] = ws[m + i] /\ w[i].client = rest[i].client /\ w[i].need = rest[i].need
    BY <1>2, <1>3
  <2> QED  BY <2>1
<1>6. ASSUME NEW i \in 1..Len(w)
      PROVE  /\ w[i].need = Need(w[i].client)
             /\ Granting(ws, m, st)[w[i].client] = "acquiring"
  <2>1. PICK j \in 1..Len(ws) : j = m + i
    BY <1>3, <1>4
  <2>2. w[i].client = ws[j].client /\ w[i].need = ws[j].need
    BY <1>5, <2>1
  <2>3. ws[j].need = Need(ws[j].client) /\ st[ws[j].client] = "acquiring"
    BY DEF InLine
  <2>4. ~\E h \in 1..m : ws[h].client = ws[j].client
    <3> SUFFICES ASSUME NEW h \in 1..m, ws[h].client = ws[j].client PROVE FALSE
      OBVIOUS
    <3>1. h \in 1..Len(ws) /\ h # j
      BY <1>1, <2>1
    <3> QED  BY <3>1 DEF InLine
  <2>5. ws[j].client \in Client
    <3>1. ws[j] \in Waiter
      OBVIOUS
    <3> QED  BY <3>1 DEF Waiter
  <2>6. Granting(ws, m, st)[ws[j].client] = st[ws[j].client]
    BY <2>4, <2>5 DEF Granting
  <2> QED  BY <2>2, <2>3, <2>6
<1>7. ASSUME NEW i \in 1..Len(w), NEW j \in 1..Len(w), w[i].client = w[j].client
      PROVE  i = j
  <2>1. PICK a \in 1..Len(ws), b \in 1..Len(ws) : a = m + i /\ b = m + j
    BY <1>3, <1>4
  <2>2. ws[a].client = ws[b].client
    BY <1>5, <1>7, <2>1
  <2>3. a = b
    BY <2>2 DEF InLine
  <2> QED  BY <1>1, <2>1, <2>3
<1>8. InLine(w, Granting(ws, m, st))
  BY <1>6, <1>7 DEF InLine
<1>9. m + Len(rest) = Len(ws)
  BY <1>1, <1>2
<1> QED  BY <1>2, <1>3, <1>8, <1>9 DEF Follows

(* No permit is lost or made when k of them come back. *)
LEMMA ReleaseConserves ==
    ASSUME QueueTyped, NEW ws \in Seq(Waiter), NEW k \in Nat,
           NEW st \in [Client -> State], InLine(ws, st), Release(ws, k, st)
    PROVE  /\ waiters' \in Seq(Waiter) /\ permits' \in Nat /\ state' \in [Client -> State]
           /\ InLine(waiters', state')
           /\ Outside(permits', waiters', state') = Outside(permits, ws, st) + k
           /\ \A c \in Client :
                 state'[c] # st[c] => state'[c] = "granted" /\ st[c] = "acquiring"
           /\ ws = <<>> => waiters' = <<>> /\ state' = st
<1>1. PICK m \in 0..Len(ws), left \in Nat, x \in Int :
        m = Served(ws, k) /\ x = Sums(Lacking(ws))[m] /\ left = k - x
  BY ServedType
<1>2. PICK rest : rest = Rest(ws, m)
  OBVIOUS
<1>3. /\ waiters' = Topped(rest, left)
      /\ permits' = IF rest = <<>> THEN permits + left ELSE permits
      /\ state' = Granting(ws, m, st)
  BY <1>1, <1>2, Zenon DEF Release, Granting, Topped, Rest
<1>4. PICK w : w = waiters'
  OBVIOUS
<1>5. /\ rest \in Seq(Waiter) /\ m + Len(rest) = Len(ws)
      /\ \A i \in 1..Len(rest) : rest[i] = ws[m + i]
      /\ w \in Seq(Waiter) /\ Len(w) = Len(rest)
      /\ rest # <<>> => w[1].got = rest[1].got + left
      /\ \A i \in 2..Len(rest) : w[i] = rest[i]
      /\ InLine(w, Granting(ws, m, st))
  <2>1. w = Topped(rest, left)
    BY <1>3, <1>4
  <2>2. Follows(w, rest, ws, m, left) /\ InLine(w, Granting(ws, m, st))
    BY <1>2, <2>1, RestInLine
  <2> QED  BY <2>2 DEF Follows
<1>6. permits \in Nat /\ permits' \in Nat
  BY <1>3 DEF QueueTyped
<1>7. state' \in [Client -> State]
  <2>1. \A c \in Client : (IF \E i \in 1..m : ws[i].client = c THEN "granted" ELSE st[c]) \in State
    BY DEF State
  <2> QED  BY <1>3, <2>1 DEF Granting
<1>8. PICK s \in Seq(Int), r \in Seq(Int), t \in Seq(Int) :
        s = SetAside(ws) /\ r = SetAside(rest) /\ t = SetAside(w)
  BY <1>5, WaiterNumbers
<1>9. Total(s) = Sums(s)[m] + Total(r) /\ Sums(s)[m] \in Int /\ Total(r) \in Int
  <2>1. Len(s) = Len(ws) /\ Len(r) = Len(rest) /\ m + Len(r) = Len(s) /\ m \in 0..Len(s)
    BY <1>5, <1>8, WaiterNumbers
  <2>2. \A i \in 1..Len(r) : s[m + i] = r[i]
    <3> SUFFICES ASSUME NEW i \in 1..Len(rest) PROVE s[m + i] = r[i]
      BY <2>1
    <3>1. m + i \in 1..Len(ws) /\ rest[i] = ws[m + i]
      BY <1>5
    <3>2. s[m + i] = ws[m + i].got /\ r[i] = rest[i].got
      BY <1>5, <1>8, <3>1, WaiterNumbers
    <3> QED  BY <3>1, <3>2
  <2>3. Total(s) = Sums(s)[m] + Total(r)
    BY <2>1, <2>2, TotalSplit
  <2> QED  BY <2>1, <2>3, SumsUnfold
<1>10. permits' + Total(t) = permits + Total(r) + left
  <2>1. Len(t) = Len(r) /\ Len(r) = Len(rest)
    BY <1>5, <1>8, WaiterNumbers
  <2>2. CASE rest = <<>>
    <3>1. Len(t) = 0 /\ Len(r) = 0
      BY <2>1, <2>2
    <3>2. Total(t) = 0 /\ Total(r) = 0
      BY <3>1, SumsUnfold
    <3> QED  BY <1>3, <1>6, <2>2, <3>2
  <2>3. CASE rest # <<>>
    <3>1. r # <<>> /\ 1 \in 1..Len(rest)
      <4>1. Len(rest) # 0 /\ Len(rest) \in Nat
        BY <1>5, <2>3
      <4> QED  BY <2>1, <4>1
    <3>2. t[1] = r[1] + left
      BY <1>5, <1>8, <2>3, <3>1, WaiterNumbers
    <3>3. \A i \in 2..Len(r) : t[i] = r[i]
      <4> SUFFICES ASSUME NEW i \in 2..Len(rest) PROVE t[i] = r[i]
        BY <2>1
      <4>1. i \in 1..Len(rest) /\ w[i] = rest[i]
        BY <1>5
      <4>2. t[i] = w[i].got /\ r[i] = rest[i].got
        BY <1>5, <1>8, <4>1, WaiterNumbers
      <4> QED  BY <4>1, <4>2
    <3>4. Total(t) = Total(r) + left
      BY <2>1, <3>1, <3>2, <3>3, TotalFirst
    <3> QED  BY <1>3, <1>6, <1>9, <2>3, <3>4
  <2> QED  BY <2>2, <2>3
<1>11. PICK g \in Int, h \in Int : /\ g = SumOver(Held(Granting(ws, m, st)), Client)
                                 /\ h = SumOver(Held(st), Client)
  BY HeldTotal, SMTT(30)
<1>12. g = h + (x + Sums(s)[m])
  <2>1. g = h + Sums(Needs(ws))[m]
    BY <1>11, GrantingHolds
  <2>2. Sums(Needs(ws))[m] = x + Sums(s)[m]
    BY <1>1, <1>8, NeedsSplit
  <2> QED  BY <2>1, <2>2
<1>13. Outside(permits', waiters', state') = Outside(permits, ws, st) + k
  <2>1. Outside(permits', waiters', state') = permits' + Total(t) + g
    BY <1>3, <1>4, <1>8, <1>11 DEF Outside
  <2>2. Outside(permits, ws, st) = permits + Total(s) + h
    BY <1>8, <1>11 DEF Outside
  <2>3. PICK y \in Int, z \in Int, v \in Int : y = Sums(s)[m] /\ z = Total(r) /\ v = Total(t)
    BY <1>8, <1>9, SumsUnfold
  <2>4. /\ permits' + v = permits + z + left /\ g = h + (x + y) /\ left = k - x
        /\ Total(s) = y + z
    BY <1>1, <1>9, <1>10, <1>12, <2>3
  <2>5. permits' + v + g = permits + (y + z) + h + k
    <3>1. PICK p \in Nat, q \in Nat : p = permits /\ q = permits'
      BY <1>6
    <3>2. q + v = p + z + left /\ g = h + (x + y) /\ left = k - x
      BY <2>4, <3>1
    <3>3. q + v + g = p + (y + z) + h + k
      BY <3>2
    <3> QED  BY <3>1, <3>3
  <2> QED  BY <2>1, <2>2, <2>3, <2>4, <2>5
<1>14. ASSUME NEW c \in Client, state'[c] # st[c]
       PROVE  state'[c] = "granted" /\ st[c] = "acquiring"
  <2>1. PICK i \in 1..m : ws[i].client = c
    BY <1>3, <1>14 DEF Granting
  <2>2. i \in 1..Len(ws)
    OBVIOUS
  <2> QED  BY <1>3, <2>1, <2>2 DEF Granting, InLine
<1>15. ws = <<>> => waiters' = <<>> /\ state' = st
  <2> SUFFICES ASSUME ws = <<>> PROVE waiters' = <<>> /\ state' = st
    OBVIOUS
  <2>1. m = 0 /\ Len(rest) = 0
    BY <1>5
  <2>2. rest = <<>>
    BY <1>5, <2>1
  <2>3. ~\E i \in 1..m : TRUE
    BY <2>1
  <2>4. Granting(ws, m, st) = [c \in Client |-> st[c]]
    BY <2>3 DEF Granting
  <2>5. Granting(ws, m, st) = st
    BY <2>4
  <2>6. waiters' = <<>>
    BY <1>3, <2>2, Zenon DEF Topped
  <2> QED  BY <1>3, <2>5, <2>6
<1> QED  BY <1>3, <1>4, <1>5, <1>6, <1>7, <1>13, <1>14, <1>15

-----------------------------------------------------------------------------
(***************************************************************************)
(* What one client does to the permits.                                    *)
(***************************************************************************)
(* A client that comes to hold nothing gives up what it held. *)
LEMMA HeldDropped ==
    ASSUME NEW st \in [Client -> State], NEW c \in Client, NEW x \in State, x # "granted"
    PROVE  /\ [st EXCEPT ![c] = x] \in [Client -> State]
           /\ SumOver(Held([st EXCEPT ![c] = x]), Client)
                = SumOver(Held(st), Client) - (IF st[c] = "granted" THEN Need(c) ELSE 0)
<1>1. PICK t \in [Client -> State] : t = [st EXCEPT ![c] = x]
  OBVIOUS
<1>2. PICK b \in [Client -> Int], d \in [Client -> Int] : b = Held(st) /\ d = Held(t)
  BY HeldType
<1>3. PICK n \in Int : n = 0 - b[c]
  OBVIOUS
<1>4. d[c] = 0 /\ \A y \in Client \ {c} : d[y] = b[y]
  <2>1. t[c] # "granted" /\ \A y \in Client \ {c} : t[y] = st[y]
    BY <1>1
  <2> QED  BY <1>2, <2>1, HeldType
<1>5. d[c] = b[c] + n
  BY <1>3, <1>4
<1>6. SumOver(b, Client) \in Int /\ SumOver(d, Client) = SumOver(b, Client) + n
  BY <1>4, <1>5, ClientAssumption, SumChanges
<1>7. b[c] = IF st[c] = "granted" THEN Need(c) ELSE 0
  BY <1>2, HeldType
<1>8. SumOver(d, Client) = SumOver(b, Client) - b[c]
  BY <1>3, <1>6
<1> QED  BY <1>1, <1>2, <1>7, <1>8

(* A client that does not wait in line may do anything. *)
LEMMA InLineOthers ==
    ASSUME NEW ws \in Seq(Waiter), NEW st \in [Client -> State], InLine(ws, st),
           NEW c \in Client, NEW x, \A i \in 1..Len(ws) : ws[i].client # c
    PROVE  InLine(ws, [st EXCEPT ![c] = x])
<1>1. ASSUME NEW i \in 1..Len(ws) PROVE [st EXCEPT ![c] = x][ws[i].client] = "acquiring"
  <2>1. ws[i] \in Waiter
    OBVIOUS
  <2>2. ws[i].client \in Client /\ ws[i].client # c
    BY <2>1 DEF Waiter
  <2>3. st[ws[i].client] = "acquiring"
    BY DEF InLine
  <2> QED  BY <2>2, <2>3
<1> QED  BY <1>1 DEF InLine

LEMMA NotInLine ==
    ASSUME NEW ws \in Seq(Waiter), NEW st, InLine(ws, st), NEW c \in Client, st[c] # "acquiring"
    PROVE  \A i \in 1..Len(ws) : ws[i].client # c
  BY DEF InLine

(* As long as nobody's need changes, needs may be taken before or after. *)
LEMMA NeedKept ==
    ASSUME waiters' \in Seq(Waiter), \A c \in Client : (Need(c))' = Need(c)
    PROVE  /\ InLine(waiters', state') => (InLine(waiters, state))'
           /\ (Outside(permits, waiters, state))' = Outside(permits', waiters', state')
<1>1. (Held(state))' = Held(state')
  <2>1. (Held(state))' = [c \in Client |-> IF state'[c] = "granted" THEN (Need(c))' ELSE 0]
    BY DEF Held
  <2>2. Held(state') = [c \in Client |-> IF state'[c] = "granted" THEN Need(c) ELSE 0]
    BY DEF Held
  <2> QED  BY <2>1, <2>2
<1>2. (Outside(permits, waiters, state))' = Outside(permits', waiters', state')
  BY <1>1 DEF Outside, SetAside
<1>3. ASSUME InLine(waiters', state') PROVE (InLine(waiters, state))'
  <2>1. \A i \in 1..Len(waiters') : waiters'[i].client \in Client
    <3>1. \A i \in 1..Len(waiters') : waiters'[i] \in Waiter
      OBVIOUS
    <3> QED  BY <3>1 DEF Waiter
  <2>2. \A i \in 1..Len(waiters') : /\ waiters'[i].need = Need(waiters'[i].client)
                                   /\ state'[waiters'[i].client] = "acquiring"
    BY <1>3 DEF InLine
  <2>3. \A i \in 1..Len(waiters') : waiters'[i].need = (Need(waiters[i].client))'
    <3> SUFFICES ASSUME NEW i \in 1..Len(waiters')
                 PROVE  waiters'[i].need = (Need(waiters[i].client))'
      OBVIOUS
    <3>1. PICK c \in Client : c = waiters'[i].client
      BY <2>1
    <3>2. waiters'[i].need = Need(c)
      BY <2>2, <3>1
    <3>3. (Need(waiters[i].client))' = (Need(c))'
      BY <3>1 DEF Need
    <3> QED  BY <3>2, <3>3
  <2>4. \A i, j \in 1..Len(waiters') : waiters'[i].client = waiters'[j].client => i = j
    BY <1>3 DEF InLine
  <2> QED  BY <2>2, <2>3, <2>4 DEF InLine
<1> QED  BY <1>2, <1>3

(* The number of permits outside the messages is a natural number. *)
LEMMA OutsideType ==
    ASSUME NEW p \in Nat, NEW ws \in Seq(Waiter), NEW st
    PROVE  Outside(p, ws, st) \in Nat
<1>1. Total(SetAside(ws)) \in Nat
  <2>1. PICK s \in Seq(Nat) : s = SetAside(ws)
    BY WaiterNumbers
  <2>2. Len(s) \in 0..Len(s)
    OBVIOUS
  <2>3. Sums(s)[Len(s)] \in Nat
    BY <2>2, SumsNat
  <2> QED  BY <2>1, <2>3 DEF Total
<1>2. PICK a \in Nat, b \in Nat : a = Total(SetAside(ws)) /\ b = SumOver(Held(st), Client)
  BY <1>1, HeldTotal
<1>3. p + a + b \in Nat
  OBVIOUS
<1> QED  BY <1>2, <1>3 DEF Outside

-----------------------------------------------------------------------------
(***************************************************************************)
(* Permits are conserved by every step.                                    *)
(***************************************************************************)
(* The types of all but the semaphore and the clients' states. *)
OthersTyped ==
    /\ queue \in Seq(Client \X Nat) /\ closed \in BOOLEAN
    /\ op \in [Client -> {"none", "send", "wait", "waited"}] /\ count \in [Client -> Nat]
    /\ actor \in {"idle", "busy", "stopped", "panicked"}
    /\ sent \in Seq(Client \X Nat) /\ handled \in Nat /\ target \in [Client -> Nat]

LEMMA TypedParts ==
    /\ QueueTyped <=> /\ OthersTyped /\ permits \in Nat /\ waiters \in Seq(Waiter)
                      /\ state \in [Client -> State]
    /\ QueueTyped' <=> /\ OthersTyped' /\ permits' \in Nat /\ waiters' \in Seq(Waiter)
                       /\ state' \in [Client -> State]
  BY DEF QueueTyped, OthersTyped

(* A step that gives k permits back, after ws and st have been prepared. *)
LEMMA ReleaseKeeps ==
    ASSUME PermitsInv, NEW ws \in Seq(Waiter), NEW k \in Nat, NEW st \in [Client -> State],
           InLine(ws, st), closed => ws = <<>>, Release(ws, k, st),
           OthersTyped', closed' = closed, actor' = "panicked" => closed,
           \A c \in Client : (Need(c))' = Need(c),
           ~closed => Outside(permits, ws, st) + k + Len(queue') = Capacity
    PROVE  PermitsInv'
<1>1. /\ waiters' \in Seq(Waiter) /\ permits' \in Nat /\ state' \in [Client -> State]
      /\ InLine(waiters', state')
      /\ Outside(permits', waiters', state') = Outside(permits, ws, st) + k
      /\ ws = <<>> => waiters' = <<>>
  BY ReleaseConserves DEF PermitsInv
<1>2. QueueTyped'
  BY <1>1, TypedParts
<1>3. /\ (InLine(waiters, state))'
      /\ (Outside(permits, waiters, state))' = Outside(permits, ws, st) + k
  BY <1>1, NeedKept
<1>4. ~closed => (Outside(permits, waiters, state))' + Len(queue') = Capacity
  BY <1>3
<1>5. closed' => waiters' = <<>>
  BY <1>1
<1> QED  BY <1>2, <1>3, <1>4, <1>5 DEF PermitsInv

(* A step that only changes what one client does, from and to something    *)
(* without permits.                                                        *)
LEMMA ClientMoves ==
    ASSUME PermitsInv, NEW c \in Client, NEW x \in State, x # "granted",
           state[c] # "granted", state[c] # "acquiring",
           state' = [state EXCEPT ![c] = x],
           UNCHANGED <<permits, waiters, closed, queue, op, count, actor, hist>>
    PROVE  PermitsInv'
<1>1. /\ QueueTyped /\ InLine(waiters, state) /\ waiters \in Seq(Waiter)
      /\ state \in [Client -> State] /\ permits \in Nat
  BY DEF PermitsInv, QueueTyped
<1>2. /\ state' \in [Client -> State]
      /\ SumOver(Held(state'), Client) = SumOver(Held(state), Client) - 0
  BY <1>1, HeldDropped
<1>3. Outside(permits', waiters', state') = Outside(permits, waiters, state)
  <2>1. SumOver(Held(state'), Client) = SumOver(Held(state), Client)
    BY <1>2, HeldTotal
  <2> QED  BY <2>1 DEF Outside
<1>4. InLine(waiters, [state EXCEPT ![c] = x])
  <2>1. \A i \in 1..Len(waiters) : waiters[i].client # c
    BY <1>1, NotInLine
  <2> QED  BY <1>1, <2>1, InLineOthers
<1>5. \A d \in Client : (Need(d))' = Need(d)
  BY DEF Need
<1>6. /\ (InLine(waiters, state))'
      /\ (Outside(permits, waiters, state))' = Outside(permits, waiters, state)
  BY <1>1, <1>3, <1>4, <1>5, NeedKept
<1>7. QueueTyped'
  BY <1>1, <1>2 DEF QueueTyped, hist
<1> QED  BY <1>6, <1>7 DEF PermitsInv

(* What a client asks for when it begins an operation. *)
LEMMA BeginHolds ==
    ASSUME QueueTyped, InLine(waiters, state), NEW c \in Client, NEW o \in {"send", "wait"},
           state[c] = "ready", op' = [op EXCEPT ![c] = o],
           NEW x \in State, state' = [state EXCEPT ![c] = x]
    PROVE  /\ state' \in [Client -> State] /\ (Need(c))' \in Nat
           /\ (Need(c))' = IF o = "send" THEN 1 ELSE Capacity
           /\ (SumOver(Held(state), Client))'
                = SumOver(Held(state), Client) + (IF x = "granted" THEN (Need(c))' ELSE 0)
           /\ \A i \in 1..Len(waiters) :
                 /\ waiters[i].client # c
                 /\ waiters[i].need = IF op'[waiters[i].client] = "send" THEN 1 ELSE Capacity
                 /\ state'[waiters[i].client] = "acquiring"
<1>1. /\ state \in [Client -> State] /\ op \in [Client -> {"none", "send", "wait", "waited"}]
      /\ waiters \in Seq(Waiter)
  BY DEF QueueTyped
<1>2. /\ (Need(c))' = IF o = "send" THEN 1 ELSE Capacity
      /\ \A d \in Client \ {c} : (Need(d))' = Need(d)
  BY <1>1 DEF Need
<1>3. (Need(c))' \in Nat
  BY <1>2, CapacityAssumption
<1>4. PICK b \in [Client -> Int] : b = Held(state)
  BY HeldType
<1>5. \A d \in Client : (Need(d))' \in Int
  BY <1>2, <1>3, NeedType
<1>6. (Held(state))' = [d \in Client |-> IF state'[d] = "granted" THEN (Need(d))' ELSE 0]
  BY DEF Held
<1>7. \A d \in Client : (IF state'[d] = "granted" THEN (Need(d))' ELSE 0) \in Int
  BY <1>5
<1>8. PICK e \in [Client -> Int] : e = (Held(state))'
  BY <1>6, <1>7
<1>9. PICK n \in Int : n = IF x = "granted" THEN (Need(c))' ELSE 0
  BY <1>5
<1>10. b[c] = 0 /\ e[c] = n
  <2>1. b[c] = 0
    BY <1>4, HeldType
  <2>2. state'[c] = x
    BY <1>1
  <2> QED  BY <1>6, <1>8, <1>9, <2>1, <2>2
<1>11. \A d \in Client \ {c} : e[d] = b[d]
  BY <1>1, <1>2, <1>4, <1>6, <1>8, HeldType
<1>12. e[c] = b[c] + n
  BY <1>10
<1>13. SumOver(e, Client) = SumOver(b, Client) + n
  BY <1>11, <1>12, ClientAssumption, SumChanges
<1>14. (SumOver(Held(state), Client))' = SumOver(e, Client)
  BY <1>8
<1>15. ASSUME NEW i \in 1..Len(waiters)
       PROVE  /\ waiters[i].client # c
              /\ waiters[i].need = IF op'[waiters[i].client] = "send" THEN 1 ELSE Capacity
              /\ state'[waiters[i].client] = "acquiring"
  <2>1. waiters[i] \in Waiter
    BY <1>1
  <2>2. PICK d \in Client : d = waiters[i].client
    BY <2>1 DEF Waiter
  <2>3. waiters[i].need = Need(d) /\ state[d] = "acquiring"
    BY <2>2 DEF InLine
  <2>4. d # c
    BY <2>3
  <2>5. op'[d] = op[d] /\ state'[d] = state[d]
    BY <1>1, <2>4
  <2> QED  BY <2>2, <2>3, <2>4, <2>5 DEF Need
<1>16. state' \in [Client -> State]
  BY <1>1
<1> QED  BY <1>2, <1>3, <1>4, <1>9, <1>13, <1>14, <1>15, <1>16

LEMMA SetAsideAppend ==
    ASSUME NEW ws \in Seq(Waiter), NEW e \in Waiter
    PROVE  /\ Append(ws, e) \in Seq(Waiter)
           /\ Total(SetAside(Append(ws, e))) = Total(SetAside(ws)) + e.got
<1>0. Append(ws, e) \in Seq(Waiter)
  OBVIOUS
<1>1. PICK v \in Seq(Waiter) : v = Append(ws, e)
  BY <1>0
<1>2. /\ Len(v) = Len(ws) + 1 /\ Len(ws) \in Nat /\ v[Len(ws) + 1] = e
      /\ \A i \in 1..Len(ws) : v[i] = ws[i]
  BY <1>1
<1>3. PICK s \in Seq(Int), t \in Seq(Int) : s = SetAside(ws) /\ t = SetAside(v)
  BY WaiterNumbers
<1>4. PICK g \in Int : g = e.got
  BY DEF Waiter
<1>5. Len(s) = Len(ws) /\ Len(t) = Len(ws) + 1
  BY <1>2, <1>3, WaiterNumbers
<1>6. \A i \in 1..Len(ws) : t[i] = s[i]
  <2> SUFFICES ASSUME NEW i \in 1..Len(ws) PROVE t[i] = s[i]
    OBVIOUS
  <2>1. i \in 1..Len(v)
    BY <1>2
  <2> QED  BY <1>2, <1>3, <2>1, WaiterNumbers
<1>7. t[Len(ws) + 1] = g
  <2>1. Len(ws) + 1 \in 1..Len(v)
    BY <1>2
  <2> QED  BY <1>2, <1>3, <1>4, <2>1, WaiterNumbers
<1>8. PICK n \in Nat : n = Len(ws)
  BY <1>2
<1>9. t = Append(s, g)
  <2>1. /\ Append(s, g) \in Seq(Int) /\ Len(Append(s, g)) = n + 1
        /\ Append(s, g)[n + 1] = g /\ \A i \in 1..n : Append(s, g)[i] = s[i]
    BY <1>5, <1>8
  <2>2. \A i \in 1..(n + 1) : i \in 1..n \/ i = n + 1
    BY <1>8
  <2>3. \A i \in 1..(n + 1) : t[i] = Append(s, g)[i]
    BY <1>6, <1>7, <1>8, <2>1, <2>2
  <2>4. Len(t) = n + 1
    BY <1>5, <1>8
  <2> QED  BY <2>1, <2>3, <2>4, SeqEqual
<1>10. Total(t) = Total(s) + g
  BY <1>9, TotalAppend
<1> QED  BY <1>1, <1>3, <1>4, <1>10

(* A client begins an operation: it fails, is granted or waits in line. *)
LEMMA AcquireKeeps ==
    ASSUME PermitsInv, NEW c \in Client, NEW o \in {"send", "wait"}, NEW need,
           need = IF o = "send" THEN 1 ELSE Capacity, Begin(c, o), Acquire(c, need),
           OthersTyped', UNCHANGED <<queue, closed, actor>>
    PROVE  PermitsInv'
<1>1. /\ QueueTyped /\ InLine(waiters, state) /\ waiters \in Seq(Waiter) /\ permits \in Nat
      /\ state \in [Client -> State] /\ closed \in BOOLEAN /\ Len(queue) \in Nat
  BY DEF PermitsInv, QueueTyped
<1>2. state[c] = "ready" /\ op' = [op EXCEPT ![c] = o]
  BY DEF Begin
<1>3. need \in Nat
  BY CapacityAssumption
<1>4. PICK a \in Int, h \in Int : a = Total(SetAside(waiters)) /\ h = SumOver(Held(state), Client)
  <2>1. Total(SetAside(waiters)) \in Int
    BY <1>1, WaiterNumbers, SumsUnfold
  <2> QED  BY <2>1, HeldTotal
<1>5. ~closed => permits + a + h + Len(queue) = Capacity
  BY <1>4 DEF PermitsInv, Outside
<1>6. CASE closed /\ state' = [state EXCEPT ![c] = "failed"] /\ UNCHANGED <<permits, waiters>>
  <2>1. "failed" \in State
    BY DEF State
  <2>2. /\ state' \in [Client -> State]
        /\ \A i \in 1..Len(waiters) :
              /\ waiters[i].need = IF op'[waiters[i].client] = "send" THEN 1 ELSE Capacity
              /\ state'[waiters[i].client] = "acquiring"
    BY <1>1, <1>2, <1>6, <2>1, BeginHolds
  <2>3. (InLine(waiters, state))'
    BY <1>1, <1>6, <2>2 DEF InLine, Need
  <2>4. QueueTyped'
    BY <1>1, <1>6, <2>2, TypedParts
  <2> QED  BY <1>6, <2>3, <2>4 DEF PermitsInv
<1>7. CASE /\ ~closed /\ permits >= need
           /\ permits' = permits - need
           /\ state' = [state EXCEPT ![c] = "granted"]
           /\ UNCHANGED waiters
  <2>1. "granted" \in State
    BY DEF State
  <2>2. /\ state' \in [Client -> State] /\ (Need(c))' = need
        /\ (SumOver(Held(state), Client))' = h + (Need(c))'
        /\ \A i \in 1..Len(waiters) :
              /\ waiters[i].need = IF op'[waiters[i].client] = "send" THEN 1 ELSE Capacity
              /\ state'[waiters[i].client] = "acquiring"
    BY <1>1, <1>2, <1>4, <1>7, <2>1, BeginHolds
  <2>3. (InLine(waiters, state))'
    BY <1>1, <1>7, <2>2 DEF InLine, Need
  <2>4. QueueTyped'
    BY <1>1, <1>3, <1>7, <2>2, TypedParts
  <2>5. (Outside(permits, waiters, state))' = (permits - need) + a + (h + need)
    BY <1>4, <1>7, <2>2 DEF Outside, SetAside
  <2>6. PICK p \in Nat, l \in Nat : p = permits /\ l = Len(queue)
    BY <1>1
  <2>7. ((p - need) + a + (h + need)) + l = Capacity
    <3>1. p + a + h + l = Capacity /\ Capacity \in Int
      BY <1>5, <1>7, <2>6, CapacityAssumption
    <3> QED  BY <1>3, <3>1
  <2> QED  BY <1>7, <2>3, <2>4, <2>5, <2>6, <2>7 DEF PermitsInv
<1>8. CASE /\ ~closed /\ permits < need
           /\ waiters' = Append(waiters, [client |-> c, need |-> need, got |-> permits])
           /\ permits' = 0
           /\ state' = [state EXCEPT ![c] = "acquiring"]
  <2>1. "acquiring" \in State
    BY DEF State
  <2>2. /\ state' \in [Client -> State] /\ (Need(c))' = need
        /\ (SumOver(Held(state), Client))' = h + 0
        /\ \A i \in 1..Len(waiters) :
              /\ waiters[i].client # c
              /\ waiters[i].need = IF op'[waiters[i].client] = "send" THEN 1 ELSE Capacity
              /\ state'[waiters[i].client] = "acquiring"
    BY <1>1, <1>2, <1>4, <1>8, <2>1, BeginHolds
  <2>3. PICK e \in Waiter : /\ e = [client |-> c, need |-> need, got |-> permits]
                           /\ e.client = c /\ e.need = need /\ e.got = permits
    <3>1. [client |-> c, need |-> need, got |-> permits] \in Waiter
      BY <1>1, <1>3 DEF Waiter
    <3> QED  BY <3>1
  <2>4. waiters' = Append(waiters, e)
    BY <1>8, <2>3
  <2>5. waiters' \in Seq(Waiter) /\ Total(SetAside(waiters')) = a + permits
    BY <1>1, <1>4, <2>3, <2>4, SetAsideAppend
  <2>6. PICK n \in Nat : n = Len(waiters)
    BY <1>1
  <2>7. /\ Len(waiters') = n + 1 /\ waiters'[n + 1] = e
        /\ \A i \in 1..n : waiters'[i] = waiters[i]
    BY <1>1, <2>4, <2>6
  <2>8. \A i \in 1..(n + 1) : i \in 1..n \/ i = n + 1
    BY <2>6
  <2>9. op'[c] = o
    BY <1>1, <1>2 DEF QueueTyped
  <2>10. state'[c] = "acquiring"
    BY <1>1, <1>8
  <2>11. \A i \in 1..Len(waiters') :
           /\ waiters'[i].need = IF op'[waiters'[i].client] = "send" THEN 1 ELSE Capacity
           /\ state'[waiters'[i].client] = "acquiring"
    BY <2>2, <2>3, <2>6, <2>7, <2>8, <2>9, <2>10
  <2>12. \A i, j \in 1..Len(waiters') : waiters'[i].client = waiters'[j].client => i = j
    <3> SUFFICES ASSUME NEW i \in 1..(n + 1), NEW j \in 1..(n + 1),
                        waiters'[i].client = waiters'[j].client
                 PROVE  i = j
      BY <2>7
    <3>1. CASE i \in 1..n /\ j \in 1..n
      BY <1>1, <2>6, <2>7, <3>1 DEF InLine
    <3>2. CASE i \in 1..n /\ j = n + 1
      BY <2>2, <2>3, <2>6, <2>7, <3>2
    <3>3. CASE i = n + 1 /\ j \in 1..n
      BY <2>2, <2>3, <2>6, <2>7, <3>3
    <3> QED  BY <2>8, <3>1, <3>2, <3>3
  <2>13. (InLine(waiters, state))'
    BY <2>11, <2>12 DEF InLine, Need
  <2>14. QueueTyped'
    BY <1>8, <2>2, <2>5, TypedParts
  <2>15. (Outside(permits, waiters, state))' = 0 + (a + permits) + (h + 0)
    BY <1>8, <2>2, <2>5 DEF Outside, SetAside
  <2>16. PICK p \in Nat, l \in Nat : p = permits /\ l = Len(queue)
    BY <1>1
  <2>17. (0 + (a + p) + (h + 0)) + l = Capacity
    BY <1>5, <1>8, <2>16
  <2> QED  BY <1>8, <2>13, <2>14, <2>15, <2>16, <2>17 DEF PermitsInv
<1> QED  BY <1>6, <1>7, <1>8 DEF Acquire

(* One acquisition leaves the line. *)
LEMMA WithoutRemoves ==
    ASSUME NEW ws \in Seq(Waiter), NEW k \in 1..Len(ws)
    PROVE  Without(ws, k) \in Seq(Waiter) /\ Removed(ws, Without(ws, k), k)
<1>1. PICK n \in Nat, b \in Nat, j \in Nat : n = Len(ws) /\ b = k - 1 /\ j = k + 1
  <2>1. Len(ws) \in Nat /\ k - 1 \in Nat /\ k + 1 \in Nat
    OBVIOUS
  <2> QED  BY <2>1
<1>2. k \in Nat /\ k = b + 1 /\ j = b + 2 /\ b < n /\ b \in Int /\ 1 \in Int
  BY <1>1
<1>3. \A i \in 1..n : ws[i] \in Waiter
  BY <1>1
<1>4. \A i \in 1..b : i \in 1..n
  BY <1>2
<1>5. \A i \in j..n : i \in 1..n
  BY <1>2
<1>6. PICK u \in Seq(Waiter) : /\ u = SubSeq(ws, 1, b) /\ Len(u) = b
                              /\ \A i \in 1..b : u[i] = ws[i]
  <2>1. /\ SubSeq(ws, 1, b) \in Seq(Waiter)
        /\ Len(SubSeq(ws, 1, b)) = (IF 1 <= b THEN b - 1 + 1 ELSE 0)
        /\ \A i \in 1..(b - 1 + 1) : SubSeq(ws, 1, b)[i] = ws[1 + i - 1]
    BY <1>2, <1>3, <1>4, SubSeqProperties
  <2>2. b - 1 + 1 = b /\ (IF 1 <= b THEN b - 1 + 1 ELSE 0) = b
    BY <1>2
  <2>3. \A i \in 1..b : 1 + i - 1 = i
    BY <1>2
  <2> QED  BY <2>1, <2>2, <2>3, Zenon
<1>7. PICK l \in Nat : l = n - k
  <2>1. n - k \in Nat
    BY <1>1, <1>2
  <2> QED  BY <2>1
<1>8. PICK v \in Seq(Waiter) : /\ v = SubSeq(ws, j, n) /\ Len(v) = l
                              /\ \A i \in 1..l : v[i] = ws[k + i]
  <2>1. /\ SubSeq(ws, j, n) \in Seq(Waiter)
        /\ Len(SubSeq(ws, j, n)) = (IF j <= n THEN n - j + 1 ELSE 0)
        /\ \A i \in 1..(n - j + 1) : SubSeq(ws, j, n)[i] = ws[j + i - 1]
    BY <1>1, <1>3, <1>5, SubSeqProperties
  <2>2. n - j + 1 = l /\ (IF j <= n THEN n - j + 1 ELSE 0) = l
    BY <1>1, <1>2, <1>7
  <2>3. \A i \in 1..l : j + i - 1 = k + i
    BY <1>1, <1>2, <1>7
  <2>4. Len(SubSeq(ws, j, n)) = l
    BY <2>1, <2>2, Zenon
  <2>5. \A i \in 1..l : SubSeq(ws, j, n)[i] = ws[k + i]
    <3>1. \A i \in 1..l : SubSeq(ws, j, n)[i] = ws[j + i - 1]
      BY <2>1, <2>2, Zenon
    <3> QED  BY <2>3, <3>1, Zenon
  <2> QED  BY <2>1, <2>4, <2>5, Zenon
<1>9. Without(ws, k) = u \o v
  BY <1>1, <1>6, <1>8 DEF Without
<1>10. /\ u \o v \in Seq(Waiter) /\ Len(u \o v) = b + l
       /\ \A i \in 1..(b + l) : (u \o v)[i] = IF i <= b THEN u[i] ELSE v[i - b]
  BY <1>6, <1>8, ConcatProperties
<1>11. Len(ws) = (b + l) + 1 /\ k - 1 = b
  BY <1>1, <1>2, <1>7
<1>12. \A i \in 1..b : (u \o v)[i] = ws[i]
  <2>1. \A i \in 1..b : i \in 1..(b + l) /\ i <= b
    BY <1>2, <1>7
  <2> QED  BY <1>6, <1>10, <2>1
<1>13. \A i \in k..(b + l) : (u \o v)[i] = ws[i + 1]
  <2> SUFFICES ASSUME NEW i \in k..(b + l) PROVE (u \o v)[i] = ws[i + 1]
    OBVIOUS
  <2>1. i \in 1..(b + l) /\ ~(i <= b) /\ i - b \in 1..l /\ k + (i - b) = i + 1
    BY <1>2, <1>7
  <2> QED  BY <1>8, <1>10, <2>1
<1>14. Removed(ws, u \o v, k)
  BY <1>10, <1>11, <1>12, <1>13 DEF Removed
<1> QED  BY <1>9, <1>10, <1>14

(* ... with what was set aside for it, and the others stay. *)
LEMMA WithoutInLine ==
    ASSUME NEW ws \in Seq(Waiter), NEW st \in [Client -> State], InLine(ws, st),
           NEW k \in 1..Len(ws), NEW c \in Client, c = ws[k].client, NEW x \in State
    PROVE  /\ Without(ws, k) \in Seq(Waiter)
           /\ Total(SetAside(ws)) = Total(SetAside(Without(ws, k))) + ws[k].got
           /\ InLine(Without(ws, k), [st EXCEPT ![c] = x])
<1>1. PICK v \in Seq(Waiter) : v = Without(ws, k) /\ Removed(ws, v, k)
  BY WithoutRemoves
<1>2. PICK n \in Nat, l \in Nat : n = Len(ws) /\ l = Len(v) /\ n = l + 1
  <2>1. Len(v) \in Nat /\ Len(ws) \in Nat /\ Len(ws) = Len(v) + 1
    BY <1>1 DEF Removed
  <2> QED  BY <2>1
<1>3. k \in 1..n /\ k \in Nat
  BY <1>2
<1>4. \A i \in 1..(k - 1) : i \in 1..n /\ i \in 1..l /\ i # k
  BY <1>2, <1>3
<1>5. \A i \in k..l : i + 1 \in 1..n /\ i \in 1..l /\ i + 1 # k
  BY <1>2, <1>3
<1>6. \A i \in 1..l : i \in 1..(k - 1) \/ i \in k..l
  BY <1>2, <1>3
<1>7. /\ \A i \in 1..(k - 1) : v[i] = ws[i]
      /\ \A i \in k..l : v[i] = ws[i + 1]
  BY <1>1, <1>2 DEF Removed
<1>8. \A i \in 1..l : \E j \in 1..n : j # k /\ v[i] = ws[j]
  BY <1>4, <1>5, <1>6, <1>7
<1>9. \A i \in 1..n, j \in 1..n : ws[i].client = ws[j].client => i = j
  BY <1>2 DEF InLine
<1>10. \A i \in 1..l : v[i].client # c
  BY <1>3, <1>8, <1>9
<1>11. \A i \in 1..l : v[i].need = Need(v[i].client) /\ st[v[i].client] = "acquiring"
  BY <1>2, <1>8 DEF InLine
<1>12. \A i, j \in 1..l : v[i].client = v[j].client => i = j
  <2> DEFINE g(i) == IF i \in 1..(k - 1) THEN i ELSE i + 1
  <2>1. \A i \in 1..l : g(i) \in 1..n /\ v[i] = ws[g(i)]
    BY <1>4, <1>5, <1>6, <1>7
  <2>2. \A i, j \in 1..l : g(i) = g(j) => i = j
    BY <1>2, <1>3
  <2> HIDE DEF g
  <2> QED  BY <1>9, <2>1, <2>2, SMTT(30)
<1>13. InLine(v, st)
  BY <1>2, <1>11, <1>12 DEF InLine
<1>14. InLine(v, [st EXCEPT ![c] = x])
  BY <1>2, <1>10, <1>13, InLineOthers
<1>15. PICK s \in Seq(Int), r \in Seq(Int) : s = SetAside(ws) /\ r = SetAside(v)
  BY WaiterNumbers
<1>16. /\ Len(s) = n /\ Len(r) = l
       /\ \A i \in 1..n : s[i] = ws[i].got
       /\ \A i \in 1..l : r[i] = v[i].got
  BY <1>2, <1>15, WaiterNumbers
<1>17. Removed(s, r, k)
  <2>1. \A i \in 1..(k - 1) : r[i] = s[i]
    BY <1>4, <1>7, <1>16
  <2>2. \A i \in k..l : r[i] = s[i + 1]
    BY <1>5, <1>7, <1>16, ZenonT(40)
  <2> QED  BY <1>2, <1>16, <2>1, <2>2 DEF Removed
<1>18. k \in 1..Len(s)
  BY <1>3, <1>16
<1>19. Total(s) = Total(r) + s[k]
  BY <1>17, <1>18, TotalRemoved
<1> QED  BY <1>1, <1>3, <1>14, <1>15, <1>16, <1>19

(* Using a permit, or the end of a wait, hands it on. *)
LEMMA PushKeeps ==
    ASSUME PermitsInv, NEW c \in Client, Push(c)
    PROVE  PermitsInv'
<1>1. /\ QueueTyped /\ InLine(waiters, state) /\ waiters \in Seq(Waiter) /\ permits \in Nat
      /\ state \in [Client -> State] /\ closed \in BOOLEAN
      /\ queue \in Seq(Client \X Nat) /\ sent \in Seq(Client \X Nat)
  BY DEF PermitsInv, QueueTyped
<1>2. "ready" \in State /\ state[c] = "granted" /\ state' = [state EXCEPT ![c] = "ready"]
  BY DEF Push, State
<1>3. Need(c) = 1
  BY DEF Push, Need
<1>4. /\ state' \in [Client -> State]
      /\ SumOver(Held(state'), Client) = SumOver(Held(state), Client) - 1
  <2>1. PICK x \in State : x = "ready" /\ x # "granted"
    BY <1>2
  <2>2. /\ [state EXCEPT ![c] = x] \in [Client -> State]
        /\ SumOver(Held([state EXCEPT ![c] = x]), Client)
             = SumOver(Held(state), Client) - (IF state[c] = "granted" THEN Need(c) ELSE 0)
    BY <1>1, <2>1, HeldDropped
  <2> QED  BY <1>2, <1>3, <2>1, <2>2
<1>5. InLine(waiters, [state EXCEPT ![c] = "ready"])
  <2>1. \A i \in 1..Len(waiters) : waiters[i].client # c
    BY <1>1, <1>2, NotInLine
  <2> QED  BY <1>1, <2>1, InLineOthers
<1>6. \A d \in Client : (Need(d))' = Need(d)
  BY DEF Need, Push
<1>7. UNCHANGED <<permits, waiters, closed, actor>>
  BY DEF Push
<1>8. /\ (InLine(waiters, state))'
      /\ (Outside(permits, waiters, state))' = Outside(permits', waiters', state')
  <2>1. waiters' \in Seq(Waiter) /\ InLine(waiters', state')
    BY <1>1, <1>2, <1>5, <1>7
  <2> QED  BY <1>6, <2>1, NeedKept
<1>9. PICK m \in Client \X Nat : m = <<c, count[c]>>
  <2>1. count[c] \in Nat
    BY <1>1 DEF QueueTyped
  <2>2. <<c, count[c]>> \in Client \X Nat
    BY <2>1
  <2> QED  BY <2>2
<1>10. /\ closed => UNCHANGED <<queue, sent>>
       /\ ~closed => queue' = Append(queue, m) /\ sent' = Append(sent, m)
  BY <1>9 DEF Push
<1>11. OthersTyped'
  <2>1. queue' \in Seq(Client \X Nat) /\ sent' \in Seq(Client \X Nat)
    <3> DEFINE M == Client \X Nat
    <3>1. queue \in Seq(M) /\ sent \in Seq(M) /\ m \in M
      BY <1>1, <1>9
    <3> HIDE DEF M
    <3>2. Append(queue, m) \in Seq(M) /\ Append(sent, m) \in Seq(M)
      BY <3>1
    <3> QED  BY <1>1, <1>10, <3>2 DEF M
  <2> QED  BY <1>1, <2>1 DEF OthersTyped, QueueTyped, Push
<1>12. QueueTyped'
  BY <1>1, <1>4, <1>7, <1>11, TypedParts
<1>13. ~closed => (Outside(permits, waiters, state))' + Len(queue') = Capacity
  <2> SUFFICES ASSUME ~closed
               PROVE  (Outside(permits, waiters, state))' + Len(queue') = Capacity
    OBVIOUS
  <2>1. PICK a \in Int, h \in Int : /\ a = Total(SetAside(waiters))
                                    /\ h = SumOver(Held(state), Client)
    <3>1. Total(SetAside(waiters)) \in Int
      BY <1>1, WaiterNumbers, SumsUnfold
    <3> QED  BY <3>1, HeldTotal
  <2>a. permits \in Nat /\ Len(queue) \in Nat
    BY <1>1
  <2>2. PICK p \in Nat, l \in Nat : p = permits /\ l = Len(queue)
    BY <2>a
  <2>3. Len(queue') = l + 1
    BY <1>1, <1>9, <1>10, <2>2
  <2>4. p + a + h + l = Capacity
    BY <2>1, <2>2 DEF PermitsInv, Outside
  <2>5. (Outside(permits, waiters, state))' = p + a + (h - 1)
    BY <1>4, <1>7, <1>8, <2>1, <2>2 DEF Outside
  <2>6. Capacity \in Int
    BY CapacityAssumption
  <2>7. (p + a + (h - 1)) + (l + 1) = Capacity
    BY <2>4, <2>6
  <2> QED  BY <2>3, <2>5, <2>7
<1> QED  BY <1>7, <1>8, <1>12, <1>13 DEF PermitsInv

(* A client that holds permits leaves them to the others. *)
LEMMA GiveBackKeeps ==
    ASSUME PermitsInv, NEW c \in Client, state[c] = "granted", NEW x \in State, x # "granted",
           Release(waiters, Need(c), [state EXCEPT ![c] = x]),
           OthersTyped', UNCHANGED <<queue, closed, actor>>,
           \A d \in Client : (Need(d))' = Need(d)
    PROVE  PermitsInv'
<1>1. /\ QueueTyped /\ InLine(waiters, state) /\ waiters \in Seq(Waiter) /\ permits \in Nat
      /\ state \in [Client -> State] /\ queue \in Seq(Client \X Nat)
  BY DEF PermitsInv, QueueTyped
<1>2. PICK st \in [Client -> State] : st = [state EXCEPT ![c] = x]
  BY <1>1
<1>3. PICK n \in Nat : n = Need(c)
  BY NeedType
<1>4. SumOver(Held(st), Client) = SumOver(Held(state), Client) - n
  BY <1>1, <1>2, <1>3, HeldDropped
<1>5. InLine(waiters, st)
  <2>1. \A i \in 1..Len(waiters) : waiters[i].client # c
    BY <1>1, NotInLine
  <2> QED  BY <1>1, <1>2, <2>1, InLineOthers
<1>6. ~closed => Outside(permits, waiters, st) + n + Len(queue') = Capacity
  <2> SUFFICES ASSUME ~closed
               PROVE  Outside(permits, waiters, st) + n + Len(queue') = Capacity
    OBVIOUS
  <2>1. PICK a \in Int, h \in Int : /\ a = Total(SetAside(waiters))
                                    /\ h = SumOver(Held(state), Client)
    <3>1. Total(SetAside(waiters)) \in Int
      BY <1>1, WaiterNumbers, SumsUnfold
    <3> QED  BY <3>1, HeldTotal
  <2>2. PICK p \in Nat, l \in Nat : p = permits /\ l = Len(queue)
    BY <1>1
  <2>3. p + a + h + l = Capacity
    BY <2>1, <2>2 DEF PermitsInv, Outside
  <2>4. Outside(permits, waiters, st) = p + a + (h - n)
    BY <1>4, <2>1, <2>2 DEF Outside
  <2>5. Capacity \in Int
    BY CapacityAssumption
  <2>6. (p + a + (h - n)) + n + l = Capacity
    BY <2>3, <2>5
  <2> QED  BY <2>2, <2>4, <2>6
<1>7. /\ closed => waiters = <<>>
      /\ actor' = "panicked" => closed
  BY DEF PermitsInv
<1>8. Release(waiters, n, st)
  BY <1>2, <1>3
<1> QED  BY <1>1, <1>5, <1>6, <1>7, <1>8, ReleaseKeeps

LEMMA WaitDoneKeeps ==
    ASSUME PermitsInv, NEW c \in Client, WaitDone(c)
    PROVE  PermitsInv'
<1>1. QueueTyped /\ op \in [Client -> {"none", "send", "wait", "waited"}]
  BY DEF PermitsInv, QueueTyped
<1>2. OthersTyped'
  <2>1. op' \in [Client -> {"none", "send", "wait", "waited"}]
    BY <1>1 DEF WaitDone
  <2> QED  BY <1>1, <2>1 DEF QueueTyped, OthersTyped, WaitDone, hist
<1>3. \A d \in Client : (Need(d))' = Need(d)
  BY <1>1 DEF Need, WaitDone
<1>4. Need(c) = Capacity /\ "ready" \in State
  BY DEF WaitDone, Need, State
<1>5. /\ state[c] = "granted" /\ UNCHANGED <<queue, closed, actor>>
      /\ Release(waiters, Need(c), [state EXCEPT ![c] = "ready"])
  BY <1>4, Zenon DEF WaitDone
<1> QED  BY <1>2, <1>3, <1>4, <1>5, GiveBackKeeps

LEMMA CancelKeeps ==
    ASSUME PermitsInv, NEW c \in Client, Cancel(c)
    PROVE  PermitsInv'
<1>1. /\ QueueTyped /\ InLine(waiters, state) /\ waiters \in Seq(Waiter) /\ permits \in Nat
      /\ state \in [Client -> State] /\ queue \in Seq(Client \X Nat)
      /\ DOMAIN waiters = 1..Len(waiters)
  BY DEF PermitsInv, QueueTyped
<1>2. OthersTyped' /\ UNCHANGED <<queue, closed, actor, op>>
  BY <1>1 DEF QueueTyped, OthersTyped, Cancel, hist
<1>3. \A d \in Client : (Need(d))' = Need(d)
  BY <1>2 DEF Need
<1>4. "gone" \in State
  BY DEF State
<1>5. CASE /\ state[c] = "granted"
           /\ Release(waiters, Need(c), [state EXCEPT ![c] = "gone"])
  BY <1>2, <1>3, <1>4, <1>5, GiveBackKeeps
<1>6. CASE /\ state[c] = "acquiring"
           /\ \E i \in DOMAIN waiters :
                /\ waiters[i].client = c
                /\ Release(Without(waiters, i), waiters[i].got, [state EXCEPT ![c] = "gone"])
  <2>1. PICK i \in 1..Len(waiters) :
          /\ waiters[i].client = c
          /\ Release(Without(waiters, i), waiters[i].got, [state EXCEPT ![c] = "gone"])
    BY <1>1, <1>6
  <2>2. PICK n \in Nat : n = waiters[i].got
    <3>1. waiters[i] \in Waiter
      BY <1>1
    <3> QED  BY <3>1 DEF Waiter
  <2>3. PICK st \in [Client -> State] : st = [state EXCEPT ![c] = "gone"]
    BY <1>1, <1>4
  <2>4. /\ Without(waiters, i) \in Seq(Waiter)
        /\ Total(SetAside(waiters)) = Total(SetAside(Without(waiters, i))) + waiters[i].got
        /\ InLine(Without(waiters, i), [state EXCEPT ![c] = "gone"])
    BY <1>1, <1>4, <2>1, WithoutInLine
  <2>5. PICK ws \in Seq(Waiter) : ws = Without(waiters, i)
    BY <2>4
  <2>6. Total(SetAside(waiters)) = Total(SetAside(ws)) + n /\ InLine(ws, st)
    BY <2>2, <2>3, <2>4, <2>5
  <2>7. SumOver(Held(st), Client) = SumOver(Held(state), Client) - 0
    BY <1>1, <1>4, <1>6, <2>3, HeldDropped
  <2>8. ~closed => Outside(permits, ws, st) + n + Len(queue') = Capacity
    <3> SUFFICES ASSUME ~closed
                 PROVE  Outside(permits, ws, st) + n + Len(queue') = Capacity
      OBVIOUS
    <3>1. PICK a \in Int, h \in Int : /\ a = Total(SetAside(ws))
                                      /\ h = SumOver(Held(state), Client)
      <4>1. Total(SetAside(ws)) \in Int
        BY WaiterNumbers, SumsUnfold
      <4> QED  BY <4>1, HeldTotal
    <3>2. PICK p \in Nat, l \in Nat : p = permits /\ l = Len(queue)
      BY <1>1
    <3>3. p + (a + n) + h + l = Capacity
      BY <2>6, <3>1, <3>2 DEF PermitsInv, Outside
    <3>4. Outside(permits, ws, st) = p + a + (h - 0)
      BY <2>7, <3>1, <3>2 DEF Outside
    <3>5. Capacity \in Int
      BY CapacityAssumption
    <3>6. (p + a + (h - 0)) + n + l = Capacity
      BY <3>3, <3>5
    <3> QED  BY <1>2, <3>2, <3>4, <3>6
  <2>9. ~closed /\ (actor' = "panicked" => closed)
    <3>1. waiters # <<>>
      BY <1>1
    <3> QED  BY <1>2, <3>1 DEF PermitsInv
  <2>10. Release(ws, n, st)
    BY <2>1, <2>2, <2>3, <2>5
  <2> QED  BY <1>2, <1>3, <2>6, <2>8, <2>9, <2>10, ReleaseKeeps
<1> QED  BY <1>5, <1>6 DEF Cancel

(* The slot of a message that is received goes to those who wait. *)
LEMMA RecvKeeps ==
    ASSUME PermitsInv, Recv
    PROVE  PermitsInv'
<1>1. /\ QueueTyped /\ InLine(waiters, state) /\ waiters \in Seq(Waiter) /\ permits \in Nat
      /\ state \in [Client -> State] /\ queue \in Seq(Client \X Nat)
  BY DEF PermitsInv, QueueTyped
<1>2. queue' \in Seq(Client \X Nat) /\ Len(queue') = Len(queue) - 1 /\ Len(queue) \in Nat
  BY <1>1 DEF Recv
<1>3. OthersTyped'
  BY <1>1, <1>2 DEF QueueTyped, OthersTyped, Recv, hist
<1>4. \A d \in Client : (Need(d))' = Need(d)
  BY DEF Need, Recv
<1>5. ~closed => Outside(permits, waiters, state) + 1 + Len(queue') = Capacity
  <2>1. PICK n \in Nat : n = Outside(permits, waiters, state)
    BY <1>1, OutsideType
  <2>2. ~closed => n + Len(queue) = Capacity
    BY <2>1 DEF PermitsInv
  <2> QED  BY <1>2, <2>1, <2>2
<1>6. /\ closed => waiters = <<>>
      /\ actor' = "panicked" => closed
      /\ closed' = closed /\ Release(waiters, 1, state)
  BY Zenon DEF PermitsInv, Recv
<1>7. 1 \in Nat
  OBVIOUS
<1> QED  BY <1>1, <1>3, <1>4, <1>5, <1>6, <1>7, ReleaseKeeps

(* The end of the process. *)
LEMMA EndKeeps ==
    ASSUME PermitsInv, Panic \/ Unwind
    PROVE  PermitsInv'
<1>1. /\ QueueTyped /\ waiters \in Seq(Waiter) /\ permits \in Nat
      /\ state \in [Client -> State]
  BY DEF PermitsInv, QueueTyped
<1>2. waiters' = <<>> /\ closed' = TRUE
  BY <1>1 DEF Panic, Unwind, PermitsInv, channel, QueueTyped
<1>3. state' \in [Client -> State]
  <2>1. CASE Panic
    BY <1>1, <2>1 DEF Panic, State
  <2>2. CASE Unwind
    BY <2>2 DEF Unwind, State
  <2> QED  BY <2>1, <2>2
<1>4. OthersTyped'
  <2>1. CASE Panic
    BY <1>1, <2>1 DEF QueueTyped, OthersTyped, Panic, hist
  <2>2. CASE Unwind
    BY <1>1, <2>2 DEF QueueTyped, OthersTyped, Unwind, hist, channel
  <2> QED  BY <2>1, <2>2
<1>5. permits' = permits
  BY DEF Panic, Unwind, channel
<1>6. <<>> \in Seq(Waiter) /\ Len(<<>>) = 0
  OBVIOUS
<1>7. QueueTyped'
  BY <1>1, <1>2, <1>3, <1>4, <1>5, <1>6, TypedParts
<1>8. (InLine(waiters, state))'
  BY <1>2, <1>6 DEF InLine
<1> QED  BY <1>2, <1>7, <1>8 DEF PermitsInv

LEMMA PermitsInitially == Init => PermitsInv
<1> SUFFICES ASSUME Init PROVE PermitsInv
  OBVIOUS
<1>1. Capacity \in Nat
  BY CapacityAssumption
<1>2. state \in [Client -> State] /\ \A c \in Client : state[c] = "ready"
  BY DEF Init, State
<1>3. /\ queue = <<>> /\ waiters = <<>> /\ permits = Capacity /\ closed = FALSE
      /\ actor = "idle"
  BY DEF Init
<1>4. /\ <<>> \in Seq(Waiter) /\ <<>> \in Seq(Client \X Nat) /\ Len(<<>>) = 0
  OBVIOUS
<1>5. OthersTyped
  BY <1>4 DEF Init, OthersTyped
<1>6. QueueTyped
  BY <1>1, <1>2, <1>3, <1>4, <1>5, TypedParts
<1>7. InLine(waiters, state)
  BY <1>3, <1>4 DEF InLine
<1>8. Total(SetAside(waiters)) = 0
  <2>1. PICK s \in Seq(Int) : s = SetAside(waiters) /\ Len(s) = 0
    BY <1>3, <1>4, WaiterNumbers
  <2>2. Total(s) = 0
    BY <2>1, SumsUnfold
  <2> QED  BY <2>1, <2>2
<1>9. SumOver(Held(state), Client) = 0
  <2>1. /\ Held(state) \in [Client -> Int]
        /\ \A c \in Client : Held(state)[c] = 0
    BY <1>2, HeldType
  <2> QED  BY <2>1, ClientAssumption, SumZero
<1>10. Outside(permits, waiters, state) + Len(queue) = Capacity
  BY <1>1, <1>3, <1>4, <1>8, <1>9 DEF Outside
<1> QED  BY <1>3, <1>6, <1>7, <1>10 DEF PermitsInv

(* One step of the queue, sorted by what it does to the permits. *)
LEMMA PermitsStep == PermitsInv /\ [Next]_vars => PermitsInv'
<1> SUFFICES ASSUME PermitsInv, [Next]_vars PROVE PermitsInv'
  OBVIOUS
<1>1. QueueTyped
  BY DEF PermitsInv
<1>2. CASE UNCHANGED <<channel, clients, actor>> /\ OthersTyped'
  <2>1. UNCHANGED <<queue, permits, waiters, closed, state, op, actor>>
    BY <1>2 DEF channel, clients
  <2>2. QueueTyped'
    BY <1>1, <1>2, <2>1, TypedParts
  <2>3. (InLine(waiters, state))'
    BY <2>1 DEF PermitsInv, InLine, Need
  <2>4. (Outside(permits, waiters, state))' = Outside(permits, waiters, state)
    BY <2>1 DEF Outside, SetAside, Held, Need
  <2> QED  BY <2>1, <2>2, <2>3, <2>4 DEF PermitsInv
<1>3. CASE HandleCommand \/ Stop
  <2>1. OthersTyped'
    BY <1>1, <1>3 DEF HandleCommand, Stop, QueueTyped, OthersTyped, channel, clients, hist
  <2>2. UNCHANGED <<queue, permits, waiters, closed, state, op>> /\ actor' # "panicked"
    BY <1>3 DEF HandleCommand, Stop, channel, clients
  <2>3. QueueTyped'
    BY <1>1, <2>1, <2>2, TypedParts
  <2>4. (InLine(waiters, state))'
    BY <2>2 DEF PermitsInv, InLine, Need
  <2>5. (Outside(permits, waiters, state))' = Outside(permits, waiters, state)
    BY <2>2 DEF Outside, SetAside, Held, Need
  <2> QED  BY <2>2, <2>3, <2>4, <2>5 DEF PermitsInv
<1>4. CASE \E c \in Client : Fail(c) \/ Leave(c)
  <2>1. PICK c \in Client : Fail(c) \/ Leave(c)
    BY <1>4
  <2>2. PICK x \in State : /\ x # "granted" /\ state' = [state EXCEPT ![c] = x]
                          /\ state[c] # "granted" /\ state[c] # "acquiring"
                          /\ UNCHANGED <<permits, waiters, closed, queue, op, count, actor, hist>>
    <3>1. CASE Fail(c)
      BY <3>1 DEF Fail, State, channel
    <3>2. CASE Leave(c)
      BY <3>2 DEF Leave, State, channel
    <3> QED  BY <2>1, <3>1, <3>2
  <2> QED  BY <2>2, ClientMoves
<1>5. CASE \E c \in Client : Send(c) \/ WaitForPendingCommands(c)
  <2>1. PICK c \in Client : Send(c) \/ WaitForPendingCommands(c)
    BY <1>5
  <2>2. CASE Send(c)
    <3>1. Begin(c, "send") /\ Acquire(c, 1) /\ UNCHANGED <<queue, closed, actor>>
      BY <2>2 DEF Send
    <3>2. OthersTyped'
      BY <1>1, <2>2 DEF Send, Begin, QueueTyped, OthersTyped, hist
    <3>3. PICK o \in {"send", "wait"}, need \in Nat :
            o = "send" /\ need = 1 /\ need = IF o = "send" THEN 1 ELSE Capacity
      BY CapacityAssumption
    <3>4. Begin(c, o) /\ Acquire(c, need)
      BY <3>1, <3>3
    <3> QED  BY <3>1, <3>2, <3>3, <3>4, AcquireKeeps
  <2>3. CASE WaitForPendingCommands(c)
    <3>1. Begin(c, "wait") /\ Acquire(c, Capacity) /\ UNCHANGED <<queue, closed, actor>>
      BY <2>3 DEF WaitForPendingCommands
    <3>2. OthersTyped'
      <4>1. Len(sent) \in Nat
        BY <1>1 DEF QueueTyped
      <4> QED  BY <1>1, <2>3, <4>1 DEF WaitForPendingCommands, Begin, QueueTyped, OthersTyped
    <3>3. PICK o \in {"send", "wait"}, need \in Nat :
            o = "wait" /\ need = Capacity /\ need = IF o = "send" THEN 1 ELSE Capacity
      BY CapacityAssumption
    <3>4. Begin(c, o) /\ Acquire(c, need)
      BY <3>1, <3>3
    <3> QED  BY <3>1, <3>2, <3>3, <3>4, AcquireKeeps
  <2> QED  BY <2>1, <2>2, <2>3
<1>6. CASE \E c \in Client : Push(c) \/ WaitDone(c) \/ Cancel(c)
  BY <1>6, PushKeeps, WaitDoneKeeps, CancelKeeps
<1>7. CASE Recv
  BY <1>7, RecvKeeps
<1>8. CASE Panic \/ Unwind
  BY <1>8, EndKeeps
<1>9. CASE UNCHANGED vars
  <2>1. UNCHANGED <<channel, clients, actor>> /\ OthersTyped'
    BY <1>1, <1>9 DEF vars, channel, clients, hist, QueueTyped, OthersTyped
  <2> QED  BY <1>2, <2>1
<1> QED  BY <1>3, <1>4, <1>5, <1>6, <1>7, <1>8, <1>9, Zenon DEF Next, ClientStep, ActorStep

LEMMA PermitsAlways == Spec => []PermitsInv
<1>1. PermitsInv /\ [Next]_vars => PermitsInv'
  BY PermitsStep
<1> QED  BY PermitsInitially, <1>1, PTL DEF Spec

(* No slot of the channel is ever lost or made: what is free, set aside    *)
(* for a waiter, granted or in use by a message adds up to the capacity,   *)
(* for any number of clients that send, wait for all slots, give up while  *)
(* they wait or after they were granted, and leave.                        *)
THEOREM SlotsAreConserved == Spec => []PermitsConserved
<1>1. PermitsInv => PermitsConserved
  <2> SUFFICES ASSUME PermitsInv, ~closed
               PROVE  permits + Len(queue) + Total(SetAside(waiters))
                        + SumOver(Held(state), Client) = Capacity
    BY DEF PermitsConserved
  <2>1. waiters \in Seq(Waiter) /\ permits \in Nat /\ queue \in Seq(Client \X Nat)
    BY DEF PermitsInv, QueueTyped
  <2>2. Len(queue) \in Nat /\ Total(SetAside(waiters)) \in Int
    BY <2>1, WaiterNumbers, SumsUnfold
  <2>3. PICK p \in Nat, l \in Nat : p = permits /\ l = Len(queue)
    BY <2>1, <2>2
  <2>4. PICK a \in Int : a = Total(SetAside(waiters))
    BY <2>2
  <2>5. PICK h \in Nat : h = SumOver(Held(state), Client)
    BY HeldTotal
  <2>6. p + a + h + l = Capacity
    BY <2>3, <2>4, <2>5 DEF PermitsInv, Outside
  <2>7. p + l + a + h = Capacity
    BY <2>6
  <2> QED  BY <2>3, <2>4, <2>5, <2>7
<1> QED  BY <1>1, PermitsAlways, PTL

-----------------------------------------------------------------------------
(***************************************************************************)
(* Waiting for pending commands.                                           *)
(***************************************************************************)

(* Whoever holds all the slots knows that the channel is empty. *)
LEMMA AllSlots ==
    ASSUME PermitsInv, ~closed, NEW c \in Client, op[c] = "wait", state[c] = "granted"
    PROVE  Len(queue) = 0
<1>1. /\ waiters \in Seq(Waiter) /\ permits \in Nat /\ queue \in Seq(Client \X Nat)
  BY DEF PermitsInv, QueueTyped
<1>2. PICK p \in Nat, l \in Nat : p = permits /\ l = Len(queue)
  BY <1>1
<1>3. PICK a \in Nat : a = Total(SetAside(waiters))
  <2>1. PICK s \in Seq(Nat) : s = SetAside(waiters)
    BY <1>1, WaiterNumbers
  <2>2. Total(s) \in Nat
    <3>1. Len(s) \in 0..Len(s)
      OBVIOUS
    <3> QED  BY <3>1, SumsNat DEF Total
  <2> QED  BY <2>1, <2>2
<1>4. PICK h \in Nat : h = SumOver(Held(state), Client)
  BY HeldTotal
<1>5. p + a + h + l = Capacity
  BY <1>2, <1>3, <1>4 DEF PermitsInv, Outside
<1>6. Held(state)[c] = Capacity
  BY HeldType DEF Need
<1>7. Held(state)[c] <= SumOver(Held(state), Client)
  BY ClientAssumption, HeldType, SumBounds
<1>8. Capacity <= h
  BY <1>4, <1>6, <1>7
<1> QED  BY <1>2, <1>5, <1>8, CapacityAssumption

(* Commands move from the channel to the actor's hands and are handled;    *)
(* what a wait may leave behind shrinks only when one is handled.          *)
LEMMA CommandsMove ==
    ASSUME PermitsInv, Accounted, [Next]_vars
    PROVE  Accounted' /\ handled' + Lag' >= handled + Lag
<1>1. /\ QueueTyped /\ queue \in Seq(Client \X Nat) /\ sent \in Seq(Client \X Nat)
      /\ handled \in Nat /\ target \in [Client -> Nat] /\ count \in [Client -> Nat]
      /\ Len(queue) \in Nat /\ Len(sent) \in Nat
      /\ actor = "panicked" => closed
  BY DEF PermitsInv, QueueTyped
<1>2. CASE UNCHANGED <<queue, closed, actor, hist>>
  BY <1>1, <1>2 DEF Accounted, hist, InHand, Lag
<1>3. CASE \E c \in Client : WaitDone(c) \/ Fail(c) \/ Send(c) \/ Cancel(c) \/ Leave(c)
  <2>1. UNCHANGED <<queue, closed, actor, hist>>
    BY <1>3 DEF WaitDone, Fail, Send, Cancel, Leave, channel
  <2> QED  BY <1>2, <2>1
<1>4. CASE \E c \in Client : WaitForPendingCommands(c)
  <2>1. PICK c \in Client : WaitForPendingCommands(c)
    BY <1>4
  <2>2. /\ target' = [target EXCEPT ![c] = Len(sent)]
        /\ UNCHANGED <<queue, closed, actor, sent, handled>>
    BY <2>1 DEF WaitForPendingCommands
  <2> QED  BY <1>1, <2>2 DEF Accounted, InHand, Lag
<1>5. CASE \E c \in Client : Push(c)
  <2>1. PICK c \in Client : Push(c)
    BY <1>5
  <2>2. CASE closed
    <3>1. UNCHANGED <<queue, closed, actor, hist>>
      BY <2>1, <2>2 DEF Push, hist
    <3> QED  BY <1>2, <3>1
  <2>3. CASE ~closed
    <3>1. /\ queue' = Append(queue, <<c, count[c]>>) /\ sent' = Append(sent, <<c, count[c]>>)
          /\ UNCHANGED <<closed, actor, handled, target>>
      BY <2>1, <2>3 DEF Push
    <3>2. Len(queue') = Len(queue) + 1 /\ Len(sent') = Len(sent) + 1
      BY <1>1, <3>1
    <3>3. PICK q \in Nat, s \in Nat, n \in Nat : q = Len(queue) /\ s = Len(sent) /\ n = handled
      BY <1>1
    <3>4. Len(queue') = q + 1 /\ Len(sent') = s + 1 /\ handled' = n
      BY <3>1, <3>2, <3>3
    <3>5. InHand' = InHand /\ Lag' = Lag /\ InHand \in Nat /\ Lag \in Nat
      BY <3>1 DEF InHand, Lag
    <3>6. s = n + InHand + q /\ \A e \in Client : target[e] \in Nat /\ target[e] <= s
      BY <1>1, <2>3, <3>3 DEF Accounted
    <3>7. s + 1 = n + InHand + (q + 1) /\ \A e \in Client : target[e] <= s + 1
      BY <3>5, <3>6
    <3>8. Accounted'
      BY <3>1, <3>4, <3>5, <3>7 DEF Accounted
    <3> QED  BY <3>3, <3>4, <3>5, <3>8
  <2> QED  BY <2>2, <2>3
<1>6. CASE Recv
  <2>1. /\ actor = "idle" /\ actor' = "busy" /\ UNCHANGED <<closed, sent, handled, target>>
        /\ Len(queue') = Len(queue) - 1
    BY <1>1, <1>6 DEF Recv, hist
  <2>2. PICK q \in Nat, s \in Nat, n \in Nat : q = Len(queue) /\ s = Len(sent) /\ n = handled
    BY <1>1
  <2>3. InHand = 0 /\ InHand' = 1
    BY <2>1 DEF InHand
  <2>4. ~closed => s = n + 0 + q
    BY <2>2, <2>3 DEF Accounted
  <2>5. ~closed => s = n + 1 + (q - 1)
    BY <2>4
  <2>6. Accounted'
    BY <2>1, <2>2, <2>3, <2>5 DEF Accounted
  <2> QED  BY <1>1, <2>1, <2>6 DEF Lag
<1>7. CASE HandleCommand
  <2>1. /\ actor = "busy" /\ actor' = "idle" /\ handled' = handled + 1
        /\ UNCHANGED <<queue, closed, sent, target>>
    BY <1>7 DEF HandleCommand, channel
  <2> QED  BY <1>1, <2>1 DEF Accounted, InHand, Lag
<1>8. CASE Panic
  <2>1. actor = "busy" /\ closed' = TRUE /\ UNCHANGED <<sent, handled, target>>
    BY <1>8 DEF Panic, hist
  <2> QED  BY <1>1, <2>1 DEF Accounted, InHand, Lag
<1>9. CASE Unwind
  <2>1. UNCHANGED <<queue, closed, actor, hist>>
    BY <1>9 DEF Unwind, channel
  <2> QED  BY <1>2, <2>1
<1>10. CASE Stop
  <2>1. actor = "idle" /\ actor' = "stopped" /\ UNCHANGED <<queue, closed, hist>>
    BY <1>10 DEF Stop, channel
  <2> QED  BY <1>1, <2>1 DEF Accounted, hist, InHand, Lag
<1>11. CASE UNCHANGED vars
  <2>1. UNCHANGED <<queue, closed, actor, hist>>
    BY <1>11 DEF vars, channel
  <2> QED  BY <1>2, <2>1
<1> QED
  BY <1>3, <1>4, <1>5, <1>6, <1>7, <1>8, <1>9, <1>10, <1>11, Zenon
     DEF Next, ClientStep, ActorStep

(* Nobody is granted a slot of a closed channel. *)
LEMMA NothingGrantedWhenClosed ==
    ASSUME PermitsInv, closed, NEW k \in Nat, NEW c \in Client, NEW x \in State,
           Release(waiters, k, [state EXCEPT ![c] = x])
    PROVE  state' = [state EXCEPT ![c] = x]
<1>1. /\ QueueTyped /\ waiters \in Seq(Waiter) /\ waiters = <<>>
      /\ state \in [Client -> State]
  BY DEF PermitsInv, QueueTyped
<1>2. PICK st \in [Client -> State] : st = [state EXCEPT ![c] = x]
  BY <1>1
<1>3. InLine(waiters, st)
  BY <1>1 DEF InLine
<1>4. Release(waiters, k, st)
  BY <1>2
<1>5. state' = st
  BY <1>1, <1>3, <1>4, ReleaseConserves
<1> QED  BY <1>2, <1>5

(* A wait that has returned, or whose slots were granted before the        *)
(* channel closed, was through before the step.                            *)
LEMMA ThroughBefore ==
    ASSUME PermitsInv, [Next]_vars, NEW c \in Client, Through(c)',
           op'[c] = "waited" \/ closed'
    PROVE  Through(c) /\ target'[c] = target[c]
<1>1. /\ state \in [Client -> State] /\ op \in [Client -> {"none", "send", "wait", "waited"}]
      /\ target \in [Client -> Nat] /\ "ready" \in State /\ "gone" \in State
      /\ closed => waiters = <<>>
  BY DEF PermitsInv, QueueTyped, State
<1>2. CASE /\ op' = op /\ target' = target
           /\ state' = state \/ (closed' => (state'[c] = "granted" => state[c] = "granted"))
  BY <1>2 DEF Through
<1>3. CASE \E d \in Client : Send(d) \/ WaitForPendingCommands(d)
  <2>1. PICK d \in Client : Send(d) \/ WaitForPendingCommands(d)
    BY <1>3
  <2>2. PICK o \in {"send", "wait"} : op' = [op EXCEPT ![d] = o]
    BY <2>1 DEF Send, WaitForPendingCommands, Begin
  <2>3. /\ closed' = closed /\ \A e \in Client \ {d} : target'[e] = target[e]
    BY <1>1, <2>1 DEF Send, WaitForPendingCommands, hist
  <2>4. PICK need : Acquire(d, need)
    BY <2>1 DEF Send, WaitForPendingCommands
  <2>5. \A e \in Client \ {d} : state'[e] = state[e]
    BY <1>1, <2>4 DEF Acquire
  <2>6. closed => state'[d] = "failed"
    BY <1>1, <2>4 DEF Acquire
  <2>7. c # d
    BY <1>1, <2>2, <2>3, <2>6 DEF Through
  <2> QED  BY <1>1, <2>2, <2>3, <2>5, <2>7 DEF Through
<1>4. CASE \E d \in Client : Push(d) \/ Fail(d) \/ Leave(d)
  <2>1. PICK d \in Client, x \in {"ready", "gone"} :
          state' = [state EXCEPT ![d] = x] /\ op' = op /\ target' = target
    BY <1>4 DEF Push, Fail, Leave, hist
  <2>2. state'[c] = "granted" => state[c] = "granted"
    BY <1>1, <2>1
  <2> QED  BY <1>2, <2>1, <2>2
<1>5. CASE \E d \in Client : WaitDone(d)
  <2>1. PICK d \in Client : WaitDone(d)
    BY <1>5
  <2>2. /\ Release(waiters, Capacity, [state EXCEPT ![d] = "ready"])
        /\ state[d] = "granted" /\ op[d] = "wait"
        /\ op' = [op EXCEPT ![d] = "waited"] /\ closed' = closed /\ target' = target
    BY <2>1 DEF WaitDone, hist
  <2>3. CASE c = d
    BY <1>1, <2>2, <2>3 DEF Through
  <2>4. CASE c # d
    <3>1. closed => state' = [state EXCEPT ![d] = "ready"]
      BY <1>1, <2>2, CapacityAssumption, NothingGrantedWhenClosed
    <3>2. op'[c] = op[c] /\ (closed => state'[c] = state[c])
      BY <1>1, <2>2, <2>4, <3>1
    <3> QED  BY <2>2, <3>2 DEF Through
  <2> QED  BY <2>3, <2>4
<1>6. CASE \E d \in Client : Cancel(d)
  <2>1. PICK d \in Client : Cancel(d)
    BY <1>6
  <2>2. op' = op /\ target' = target /\ closed' = closed
    BY <2>1 DEF Cancel, hist
  <2>3. closed => state' = [state EXCEPT ![d] = "gone"]
    <3> SUFFICES ASSUME closed PROVE state' = [state EXCEPT ![d] = "gone"]
      OBVIOUS
    <3>1. DOMAIN waiters = {}
      BY <1>1
    <3>2. Release(waiters, Need(d), [state EXCEPT ![d] = "gone"])
      BY <2>1, <3>1, Zenon DEF Cancel
    <3> QED  BY <1>1, <3>2, NeedType, NothingGrantedWhenClosed
  <2>4. closed' => (state'[c] = "granted" => state[c] = "granted")
    BY <1>1, <2>2, <2>3
  <2> QED  BY <1>2, <2>2, <2>4
<1>7. CASE Recv
  <2>1. op' = op /\ target' = target /\ closed' = closed /\ Release(waiters, 1, state)
    BY <1>7 DEF Recv, hist
  <2>2. closed => state' = state
    <3> SUFFICES ASSUME closed PROVE state' = state
      OBVIOUS
    <3>1. QueueTyped /\ waiters \in Seq(Waiter) /\ InLine(waiters, state) /\ 1 \in Nat
      BY DEF PermitsInv, QueueTyped
    <3> QED  BY <1>1, <2>1, <3>1, ReleaseConserves, ZenonT(40)
  <2>3. closed' => (state'[c] = "granted" => state[c] = "granted")
    BY <2>1, <2>2
  <2> QED  BY <1>2, <2>1, <2>3
<1>8. CASE HandleCommand \/ Stop \/ UNCHANGED vars
  <2>1. op' = op /\ target' = target /\ state' = state
    BY <1>8 DEF HandleCommand, Stop, vars, clients, hist
  <2> QED  BY <1>2, <2>1
<1>9. CASE Panic \/ Unwind
  <2>1. op' = op /\ target' = target
    BY <1>9 DEF Panic, Unwind, hist
  <2>2. state'[c] = "granted" => state[c] = "granted"
    BY <1>1, <1>9 DEF Panic, Unwind
  <2> QED  BY <1>2, <2>1, <2>2
<1> QED
  BY <1>3, <1>4, <1>5, <1>6, <1>7, <1>8, <1>9, Zenon DEF Next, ClientStep, ActorStep

LEMMA WaitStep == PermitsInv /\ PermitsInv' /\ WaitInv /\ [Next]_vars => WaitInv'
<1> SUFFICES ASSUME PermitsInv, PermitsInv', WaitInv, [Next]_vars PROVE WaitInv'
  OBVIOUS
<1>1. Accounted' /\ handled' + Lag' >= handled + Lag
  BY CommandsMove DEF WaitInv
<1>2. /\ handled \in Nat /\ handled' \in Nat /\ Lag \in {0, 1} /\ Lag' \in {0, 1}
      /\ target \in [Client -> Nat] /\ target' \in [Client -> Nat]
      /\ sent' \in Seq(Client \X Nat) /\ op' \in [Client -> {"none", "send", "wait", "waited"}]
  BY DEF PermitsInv, QueueTyped, Lag
<1> SUFFICES ASSUME NEW c \in Client, Through(c)' PROVE handled' >= target'[c] - Lag'
  BY <1>1 DEF WaitInv
<1>3. CASE op'[c] = "waited" \/ closed'
  <2>1. Through(c) /\ target'[c] = target[c]
    BY <1>3, ThroughBefore
  <2>2. handled >= target[c] - Lag
    BY <2>1 DEF WaitInv
  <2>3. PICK t \in Nat : t = target[c]
    BY <1>2
  <2>4. PICK a \in Nat, b \in Nat : a = Lag /\ b = Lag'
    BY <1>2
  <2>5. PICK n \in Nat, m \in Nat : n = handled /\ m = handled'
    BY <1>2
  <2>6. n >= t - a /\ m + b >= n + a
    BY <1>1, <2>2, <2>3, <2>4, <2>5
  <2>7. m >= t - b
    BY <2>6
  <2> QED  BY <2>1, <2>3, <2>4, <2>5, <2>7
<1>4. CASE op'[c] # "waited" /\ ~closed'
  <2>1. op'[c] = "wait" /\ state'[c] = "granted"
    BY <1>4 DEF Through
  <2>2. (Len(queue) = 0)'
    <3>1. (PermitsInv /\ ~closed /\ c \in Client /\ op[c] = "wait" /\ state[c] = "granted"
             => Len(queue) = 0)'
      BY AllSlots, PTL
    <3> QED  BY <1>4, <2>1, <3>1
  <2>3. Len(sent') = handled' + InHand' + 0 /\ target'[c] <= Len(sent')
    BY <1>1, <1>4, <2>2 DEF Accounted
  <2>4. InHand' = Lag' /\ Lag' \in Nat
    BY <1>4 DEF InHand, Lag
  <2> QED  BY <1>2, <2>3, <2>4
<1> QED  BY <1>3, <1>4

LEMMA WaitInitially == Init => WaitInv
  BY DEF Init, WaitInv, Accounted, Through, InHand, Lag

(* wait_for_pending_commands keeps its promise for any number of clients   *)
(* and slots, whatever is sent, cancelled or refused meanwhile: when it    *)
(* returns, of the commands that were queued at the call at most the one   *)
(* in the actor's hands has not been handled.                              *)
THEOREM WaitsCoverCommands == Spec => []WaitLeavesAtMostOne
<1>1. PermitsInv /\ PermitsInv' /\ WaitInv /\ [Next]_vars => WaitInv'
  BY WaitStep
<1>2. WaitInv => WaitLeavesAtMostOne
  BY DEF WaitInv, WaitLeavesAtMostOne, Through, Lag
<1> QED  BY <1>1, <1>2, WaitInitially, PermitsAlways, PTL DEF Spec

-----------------------------------------------------------------------------
(***************************************************************************)
(* The queue as a mailbox.                                                 *)
(***************************************************************************)

(* An operation is counted when it begins, and only a panic closes the     *)
(* channel.                                                                *)
OpsCounted ==
    /\ \A c \in Client : /\ count[c] <= MaxOps
                         /\ op[c] # "none" => count[c] >= 1
    /\ closed => actor = "panicked"

LEMMA OpsCountedStep == PermitsInv /\ OpsCounted /\ [Next]_vars => OpsCounted'
<1> SUFFICES ASSUME PermitsInv, OpsCounted, [Next]_vars PROVE OpsCounted'
  OBVIOUS
<1>1. /\ op \in [Client -> {"none", "send", "wait", "waited"}] /\ count \in [Client -> Nat]
      /\ actor = "panicked" => closed
  BY DEF PermitsInv, QueueTyped
<1>2. CASE UNCHANGED <<op, count>> /\ (closed' => actor' = "panicked")
  BY <1>2 DEF OpsCounted
<1>3. CASE \E c \in Client : Send(c) \/ WaitForPendingCommands(c)
  <2>1. PICK c \in Client, o \in {"send", "wait"} : Begin(c, o) /\ UNCHANGED <<closed, actor>>
    BY <1>3 DEF Send, WaitForPendingCommands
  <2>2. /\ count[c] < MaxOps /\ op' = [op EXCEPT ![c] = o]
        /\ count' = [count EXCEPT ![c] = @ + 1]
    BY <2>1 DEF Begin
  <2>3. count[c] + 1 <= MaxOps /\ count[c] + 1 >= 1
    BY <1>1, <2>2, OpsAssumption
  <2> QED  BY <1>1, <2>1, <2>2, <2>3 DEF OpsCounted
<1>4. CASE \E c \in Client : Push(c) \/ Fail(c) \/ Cancel(c) \/ Leave(c)
  <2>1. UNCHANGED <<op, count, closed, actor>>
    BY <1>4 DEF Push, Fail, Cancel, Leave, channel
  <2> QED  BY <1>2, <2>1 DEF OpsCounted
<1>5. CASE \E c \in Client : WaitDone(c)
  <2>1. PICK c \in Client : /\ op[c] = "wait" /\ op' = [op EXCEPT ![c] = "waited"]
                            /\ UNCHANGED <<count, closed, actor>>
    BY <1>5 DEF WaitDone
  <2> QED  BY <1>1, <2>1 DEF OpsCounted
<1>6. CASE ActorStep
  <2>1. UNCHANGED <<op, count>>
    BY <1>6 DEF ActorStep, Recv, HandleCommand, Panic, Unwind, Stop, clients
  <2>2. closed' => actor' = "panicked"
    BY <1>6 DEF ActorStep, Recv, HandleCommand, Panic, Unwind, Stop, channel, OpsCounted
  <2> QED  BY <1>2, <2>1, <2>2
<1>7. CASE UNCHANGED vars
  BY <1>2, <1>7 DEF vars, channel, clients, OpsCounted
<1> QED  BY <1>3, <1>4, <1>5, <1>6, <1>7, Zenon DEF Next, ClientStep

(* A sender that was granted its slot finds one in the channel. *)
LEMMA GrantedFits ==
    ASSUME PermitsInv, ~closed, NEW c \in Client, op[c] = "send", state[c] = "granted"
    PROVE  Len(queue) < Capacity
<1>1. /\ waiters \in Seq(Waiter) /\ permits \in Nat /\ queue \in Seq(Client \X Nat)
  BY DEF PermitsInv, QueueTyped
<1>2. PICK p \in Nat, l \in Nat : p = permits /\ l = Len(queue)
  BY <1>1
<1>3. PICK a \in Nat : a = Total(SetAside(waiters))
  <2>1. PICK s \in Seq(Nat) : s = SetAside(waiters)
    BY <1>1, WaiterNumbers
  <2>2. Total(s) \in Nat
    <3>1. Len(s) \in 0..Len(s)
      OBVIOUS
    <3> QED  BY <3>1, SumsNat DEF Total
  <2> QED  BY <2>1, <2>2
<1>4. PICK h \in Nat : h = SumOver(Held(state), Client)
  BY HeldTotal
<1>5. p + a + h + l = Capacity
  BY <1>2, <1>3, <1>4 DEF PermitsInv, Outside
<1>6. Held(state)[c] = 1
  BY HeldType DEF Need
<1>7. Held(state)[c] <= SumOver(Held(state), Client)
  BY ClientAssumption, HeldType, SumBounds
<1>8. 1 <= h
  BY <1>4, <1>6, <1>7
<1> QED  BY <1>2, <1>5, <1>8, CapacityAssumption

(* Each step of the queue is a step of the mailbox, or none. *)
LEMMA QueueStepRefines ==
    ASSUME PermitsInv, OpsCounted, [Next]_vars
    PROVE  Box!Next \/ UNCHANGED Box!vars
<1>1. CASE UNCHANGED <<sent, queue, handled, closed>> /\ (actor' = "busy" <=> actor = "busy")
  BY <1>1, Zenon DEF Box!vars
<1>2. CASE \E c \in Client : \/ WaitDone(c) \/ Fail(c) \/ Send(c) \/ WaitForPendingCommands(c)
                             \/ Cancel(c) \/ Leave(c)
  <2>1. UNCHANGED <<sent, queue, handled, closed, actor>>
    BY <1>2 DEF WaitDone, Fail, Send, WaitForPendingCommands, Cancel, Leave, channel, hist
  <2> QED  BY <1>1, <2>1
<1>3. CASE \E c \in Client : Push(c)
  <2>1. PICK c \in Client : Push(c)
    BY <1>3
  <2>2. state[c] = "granted" /\ op[c] = "send" /\ UNCHANGED <<handled, closed, actor>>
    BY <2>1 DEF Push
  <2>3. CASE closed
    <3>1. UNCHANGED <<sent, queue>>
      BY <2>1, <2>3 DEF Push
    <3> QED  BY <1>1, <2>2, <3>1
  <2>4. CASE ~closed
    <3>1. PICK m : m = <<c, count[c]>>
      OBVIOUS
    <3>2. sent' = Append(sent, m) /\ queue' = Append(queue, m)
      BY <2>1, <2>4, <3>1 DEF Push
    <3>3. m \in Client \X (1..MaxOps)
      <4>1. count[c] \in Nat /\ count[c] <= MaxOps /\ count[c] >= 1
        BY <2>2 DEF PermitsInv, QueueTyped, OpsCounted
      <4>2. count[c] \in 1..MaxOps
        BY <4>1, OpsAssumption
      <4> QED  BY <3>1, <4>2
    <3>4. Len(queue) < Capacity
      BY <2>2, <2>4, GrantedFits
    <3>5. Box!Accept
      BY <2>2, <2>4, <3>2, <3>3, <3>4, Zenon DEF Box!Accept
    <3> QED  BY <3>5 DEF Box!Next
  <2> QED  BY <2>3, <2>4
<1>4. CASE Recv
  <2>1. /\ actor = "idle" /\ queue # <<>> /\ queue' = Tail(queue) /\ actor' = "busy"
        /\ UNCHANGED <<closed, sent, handled>>
    BY <1>4 DEF Recv, hist
  <2>2. ~closed
    BY <2>1 DEF OpsCounted
  <2>3. Box!Take
    BY <2>1, <2>2 DEF Box!Take
  <2> QED  BY <2>3 DEF Box!Next
<1>5. CASE HandleCommand
  <2>1. /\ actor = "busy" /\ actor' = "idle" /\ handled' = handled + 1
        /\ UNCHANGED <<closed, sent, queue>>
    BY <1>5 DEF HandleCommand, channel
  <2>2. ~closed
    BY <2>1 DEF OpsCounted
  <2>3. Box!Finish
    BY <2>1, <2>2 DEF Box!Finish
  <2> QED  BY <2>3 DEF Box!Next
<1>6. CASE Panic
  <2>1. /\ actor = "busy" /\ actor' = "panicked" /\ closed' = TRUE /\ queue' = <<>>
        /\ UNCHANGED <<sent, handled>>
    BY <1>6 DEF Panic, hist
  <2>2. ~closed
    BY <2>1 DEF OpsCounted
  <2>3. Box!Break
    BY <2>1, <2>2 DEF Box!Break
  <2> QED  BY <2>3 DEF Box!Next
<1>7. CASE Unwind \/ Stop \/ UNCHANGED vars
  <2>1. /\ UNCHANGED <<sent, queue, handled, closed>> /\ (actor' = "busy" <=> actor = "busy")
    BY <1>7 DEF Unwind, Stop, vars, channel, hist
  <2> QED  BY <1>1, <2>1
<1> QED
  BY <1>2, <1>3, <1>4, <1>5, <1>6, <1>7, Zenon DEF Next, ClientStep, ActorStep

(* The command queue implements the mailbox for any number of clients,     *)
(* slots and operations: whatever is sent, cancelled or waited for, the    *)
(* actor takes the accepted commands one at a time and in order, no more   *)
(* of them wait than there are slots, and only a panic drops any.          *)
THEOREM QueueImplementsMailbox == Spec => ImplementsMailbox
<1>1. Init => OpsCounted
  BY OpsAssumption DEF Init, OpsCounted
<1>2. PermitsInv /\ OpsCounted /\ [Next]_vars => OpsCounted'
  BY OpsCountedStep
<1>3. Spec => [](PermitsInv /\ OpsCounted)
  BY <1>1, <1>2, PermitsAlways, PTL DEF Spec
<1>4. Init => Box!Init
  BY DEF Init, Box!Init
<1>5. PermitsInv /\ OpsCounted /\ [Next]_vars => [Box!Next]_(Box!vars)
  BY QueueStepRefines
<1>6. Box!Init /\ [][Box!Next]_(Box!vars) => ImplementsMailbox
  BY DEF ImplementsMailbox, Box!Spec
<1> QED  BY <1>3, <1>4, <1>5, <1>6, PTL DEF Spec
=============================================================================
