----------------------- MODULE FreeDVReporter_proofs -----------------------
(***************************************************************************)
(* Proofs about FreeDVReporter, for any number of fields, connections and  *)
(* edits: type correctness, that the picture the server has of the station *)
(* only moves forward (StationView), and that it is the wanted one once    *)
(* everything on its way has arrived.                                      *)
(***************************************************************************)
EXTENDS FreeDVReporter, SequenceTheorems, TLAPS

Tasks == [op : Ops, msg : Messages]

-----------------------------------------------------------------------------
(* Sequences of tasks.                                                     *)

(* A function on 1..n is a sequence of n elements.                         *)
LEMMA FunctionSeq ==
    ASSUME NEW S, NEW n \in Nat, NEW f \in [1..n -> S]
    PROVE  f \in Seq(S) /\ Len(f) = n
<1>1. f \in Seq(S)
  BY SeqDef
<1>2. Len(f) \in Nat /\ DOMAIN f = 1..Len(f) /\ DOMAIN f = 1..n
  BY <1>1, LenProperties
<1> QED
  BY <1>1, <1>2

(* A sequence of one task.                                                 *)
LEMMA OneTask ==
    ASSUME NEW t \in Tasks
    PROVE  /\ <<t>> \in Seq(Tasks) /\ Len(<<t>>) = 1 /\ <<t>>[1] = t
           /\ \A q \in Seq(Tasks) : Append(q, t) = q \o <<t>>
<1>1. \A q \in Seq(Tasks) : Append(q, t) = q \o <<t>>
  BY AppendIsConcat
<1> QED
  BY <1>1

(* What is left of q, then s: each task of it is one of q, at its place,   *)
(* or one of s.                                                            *)
LEMMA ConcatParts ==
    ASSUME NEW q \in Seq(Tasks), NEW s \in Seq(Tasks)
    PROVE  /\ q \o s \in Seq(Tasks)
           /\ Len(q) \in Nat /\ Len(s) \in Nat /\ Len(q \o s) = Len(q) + Len(s)
           /\ \A i \in 1..Len(q) : i \in 1..Len(q \o s) /\ (q \o s)[i] = q[i]
           /\ \A i \in 1..Len(q \o s) :
                 \/ i \in 1..Len(q) /\ (q \o s)[i] = q[i]
                 \/ /\ i > Len(q) /\ i - Len(q) \in 1..Len(s)
                    /\ (q \o s)[i] = s[i - Len(q)]
<1> DEFINE r == q \o s
<1>1. Len(q) \in Nat /\ Len(s) \in Nat
  BY LenProperties
<1>2. /\ r \in Seq(Tasks) /\ Len(r) = Len(q) + Len(s)
      /\ \A i \in 1..(Len(q) + Len(s)) : r[i] = IF i <= Len(q) THEN q[i] ELSE s[i - Len(q)]
  BY ConcatProperties
<1> HIDE DEF r
<1>3. \A i \in 1..Len(q) : i \in 1..Len(r) /\ r[i] = q[i]
  BY <1>1, <1>2
<1>4. ASSUME NEW i \in 1..Len(r)
      PROVE  \/ i \in 1..Len(q) /\ r[i] = q[i]
             \/ i > Len(q) /\ i - Len(q) \in 1..Len(s) /\ r[i] = s[i - Len(q)]
  BY <1>1, <1>2
<1> QED
  BY <1>1, <1>2, <1>3, <1>4 DEF r

(* Tail: each task has moved up by one.                                    *)
LEMMA TailParts ==
    ASSUME NEW S, NEW q \in Seq(S), q # << >>
    PROVE  /\ Tail(q) \in Seq(S) /\ Head(q) = q[1] /\ Head(q) \in S
           /\ Len(q) \in Nat /\ 1 \in 1..Len(q) /\ Len(Tail(q)) = Len(q) - 1
           /\ \A i \in 1..Len(Tail(q)) : i + 1 \in 1..Len(q) /\ Tail(q)[i] = q[i + 1]
<1>1. /\ Tail(q) \in Seq(S) /\ Head(q) = q[1] /\ Head(q) \in S
      /\ Len(q) \in Nat /\ Len(q) # 0 /\ Len(Tail(q)) = Len(q) - 1
      /\ \A i \in 1..Len(Tail(q)) : Tail(q)[i] = q[i + 1]
  BY HeadTailProperties, LenProperties, EmptySeq
<1>2. \A i \in 1..Len(Tail(q)) : i + 1 \in 1..Len(q)
  BY <1>1
<1> QED
  BY <1>1, <1>2

-----------------------------------------------------------------------------
(* Tasks there is to be one of at most: the attempt to connect and the     *)
(* dropping of the connection.                                             *)

Has(q, op) == \E i \in 1..Len(q) : q[i].op = op
Once(q, op) == \A i, j \in 1..Len(q) : q[i].op = op /\ q[j].op = op => i = j

LEMMA TailOnce ==
    ASSUME NEW q \in Seq(Tasks), q # << >>, NEW op, Once(q, op)
    PROVE  /\ Once(Tail(q), op) /\ (Has(Tail(q), op) => Has(q, op))
           /\ Head(q).op = op => Has(q, op) /\ ~Has(Tail(q), op)
<1> DEFINE r == Tail(q)
<1>1. /\ Head(q) = q[1] /\ 1 \in 1..Len(q)
      /\ Len(q) \in Nat /\ Len(r) = Len(q) - 1
      /\ \A i \in 1..Len(r) : i + 1 \in 1..Len(q) /\ r[i] = q[i + 1]
  BY TailParts
<1> HIDE DEF r
<1>2. Once(r, op)
  <2> SUFFICES ASSUME NEW i \in 1..Len(r), NEW j \in 1..Len(r),
                      r[i].op = op, r[j].op = op
               PROVE  i = j
    BY DEF Once
  <2>1. i + 1 = j + 1
    BY <1>1 DEF Once
  <2> QED
    BY <2>1
<1>3. Has(r, op) => Has(q, op)
  BY <1>1 DEF Has
<1>4. ASSUME Head(q).op = op, NEW i \in 1..Len(r), r[i].op = op PROVE FALSE
  <2>1. i + 1 = 1
    BY <1>1, <1>4 DEF Once
  <2> QED
    BY <2>1
<1>5. Head(q).op = op => Has(q, op) /\ ~Has(r, op)
  BY <1>1, <1>4 DEF Has
<1> QED
  BY <1>2, <1>3, <1>5 DEF r

LEMMA ConcatOnce ==
    ASSUME NEW q \in Seq(Tasks), NEW s \in Seq(Tasks), NEW op, ~Has(s, op), Once(q, op)
    PROVE  Once(q \o s, op) /\ (Has(q \o s, op) => Has(q, op))
<1> DEFINE r == q \o s
<1>1. \A i \in 1..Len(r) : \/ i \in 1..Len(q) /\ r[i] = q[i]
                           \/ i - Len(q) \in 1..Len(s) /\ r[i] = s[i - Len(q)]
  BY ConcatParts
<1> HIDE DEF r
<1>2. \A i \in 1..Len(r) : r[i].op = op => i \in 1..Len(q) /\ q[i].op = op
  BY <1>1 DEF Has
<1> QED
  BY <1>2 DEF Once, Has, r

LEMMA AppendFirst ==
    ASSUME NEW q \in Seq(Tasks), NEW t \in Tasks, ~Has(q, t.op)
    PROVE  Once(Append(q, t), t.op)
<1> DEFINE r == Append(q, t)
<1>1. /\ Len(q) \in Nat /\ Len(r) = Len(q) + 1
      /\ \A i \in 1..Len(q) : r[i] = q[i]
  BY AppendProperties, LenProperties
<1> HIDE DEF r
<1>2. \A i \in 1..Len(r) : r[i].op = t.op => i = Len(q) + 1
  BY <1>1 DEF Has
<1> QED
  BY <1>2 DEF Once, r

-----------------------------------------------------------------------------
(* The order of reports.  What is to reach the server goes through three   *)
(* places: the tasks "emit" of the queue, its tasks "send", and what is in *)
(* transit.                                                                *)

Outbound == {"emit", "send"}

(* n, which is behind m, does not report an older version of a field.      *)
NotNewer(m, n) ==
    m.kind = "set" /\ n.kind = "set" /\ m.field = n.field => m.version <= n.version

(* Task a, at place i of the queue, reaches the server before b, at j.     *)
Ahead(a, i, b, j) == (a.op = b.op /\ i < j) \/ (a.op = "send" /\ b.op = "emit")

(* A report is no older than what the server has (sn), nor newer than what *)
(* the station has (sv).                                                   *)
Fits(m, sn, sv) ==
    m.kind = "set" => /\ m.field \in Fields
                      /\ sn[m.field] <= m.version /\ m.version <= sv[m.field]

(* Every report, in the queue q or in transit (ts), fits and is in order.  *)
Flow(q, ts, sn, sv) ==
    /\ \A i \in 1..Len(ts) : Fits(ts[i], sn, sv)
    /\ \A i \in 1..Len(q) : q[i].op \in Outbound => Fits(q[i].msg, sn, sv)
    /\ \A i, j \in 1..Len(ts) : i < j => NotNewer(ts[i], ts[j])
    /\ \A i \in 1..Len(ts), j \in 1..Len(q) :
          q[j].op \in Outbound => NotNewer(ts[i], q[j].msg)
    /\ \A i, j \in 1..Len(q) :
          {q[i].op, q[j].op} \subseteq Outbound /\ Ahead(q[i], i, q[j], j)
             => NotNewer(q[i].msg, q[j].msg)

(* The versions of a picture.                                              *)
Pictures == [Fields -> Versions \cup {0}]

(* A task taken from the front leaves the others in order.                 *)
LEMMA TailFlow ==
    ASSUME NEW q \in Seq(Tasks), q # << >>, NEW ts, NEW sn, NEW sv, Flow(q, ts, sn, sv)
    PROVE  Flow(Tail(q), ts, sn, sv)
<1> DEFINE r == Tail(q)
<1>1. \A i \in 1..Len(r) : i + 1 \in 1..Len(q) /\ r[i] = q[i + 1]
  BY TailParts
<1> HIDE DEF r
<1>2. ASSUME NEW i \in 1..Len(r), NEW j \in 1..Len(r),
             {r[i].op, r[j].op} \subseteq Outbound, Ahead(r[i], i, r[j], j)
      PROVE  NotNewer(r[i].msg, r[j].msg)
  <2>1. Ahead(q[i + 1], i + 1, q[j + 1], j + 1)
    BY <1>1, <1>2 DEF Ahead
  <2> QED
    BY <1>1, <1>2, <2>1 DEF Flow
<1> QED
  BY <1>1, <1>2 DEF Flow, r

(* Tasks are added at the end: nothing of the three places, no reports, or *)
(* emitted reports of what the station has.                                *)
Adds(s, sv) ==
    \A i \in 1..Len(s) :
        \/ s[i].op \notin Outbound
        \/ s[i].msg.kind # "set"
        \/ /\ s[i].op = "emit" /\ s[i].msg.field \in Fields
           /\ s[i].msg.version = sv[s[i].msg.field]

LEMMA ConcatFlow ==
    ASSUME NEW q \in Seq(Tasks), NEW s \in Seq(Tasks), NEW ts,
           NEW sn \in Pictures, NEW sv \in Pictures,
           \A f \in Fields : sn[f] <= sv[f],
           Flow(q, ts, sn, sv), Adds(s, sv)
    PROVE  Flow(q \o s, ts, sn, sv)
<1> DEFINE r == q \o s
<1>1. /\ Len(q) \in Nat
      /\ \A i \in 1..Len(r) :
           \/ i \in 1..Len(q) /\ r[i] = q[i]
           \/ i > Len(q) /\ i - Len(q) \in 1..Len(s) /\ r[i] = s[i - Len(q)]
  BY ConcatParts
<1> HIDE DEF r
<1>v. \A f \in Fields : sv[f] \in Nat /\ sn[f] \in Nat
  BY MaxEditsIsNat DEF Pictures, Versions
<1> DEFINE New(t) == t.op = "emit" /\ t.msg.field \in Fields
                        /\ t.msg.version = sv[t.msg.field]
<1>2. ASSUME NEW i \in 1..Len(r), r[i].op \in Outbound, r[i].msg.kind = "set"
      PROVE  \/ i \in 1..Len(q) /\ r[i] = q[i]
             \/ i > Len(q) /\ New(r[i])
  BY <1>1, <1>2 DEF Adds
<1>3. ASSUME NEW i \in 1..Len(r), r[i].op \in Outbound PROVE Fits(r[i].msg, sn, sv)
  BY <1>2, <1>3, <1>v DEF Flow, Fits
<1>4. ASSUME NEW m, NEW i \in 1..Len(r), r[i].op \in Outbound, Fits(m, sn, sv), New(r[i])
      PROVE  NotNewer(m, r[i].msg)
  BY <1>4 DEF Fits, NotNewer
<1>5. ASSUME NEW i \in 1..Len(ts), NEW j \in 1..Len(r), r[j].op \in Outbound
      PROVE  NotNewer(ts[i], r[j].msg)
  <2>1. CASE r[j].msg.kind # "set"
    BY <2>1 DEF NotNewer
  <2>2. CASE r[j].msg.kind = "set" /\ New(r[j])
    BY <1>4, <1>5, <2>2 DEF Flow
  <2>3. CASE j \in 1..Len(q) /\ r[j] = q[j]
    BY <1>5, <2>3 DEF Flow
  <2> QED
    BY <1>2, <1>5, <2>1, <2>2, <2>3
<1>6. ASSUME NEW i \in 1..Len(r), NEW j \in 1..Len(r),
             {r[i].op, r[j].op} \subseteq Outbound, Ahead(r[i], i, r[j], j)
      PROVE  NotNewer(r[i].msg, r[j].msg)
  <2> SUFFICES ASSUME r[i].msg.kind = "set", r[j].msg.kind = "set"
               PROVE  NotNewer(r[i].msg, r[j].msg)
    BY DEF NotNewer
  <2>1. CASE New(r[j])
    BY <1>3, <1>4, <1>6, <2>1
  <2>2. CASE j \in 1..Len(q) /\ r[j] = q[j]
    <3>1. i \in 1..Len(q) /\ r[i] = q[i]
      <4>1. ASSUME i > Len(q), New(r[i]) PROVE FALSE
        BY <1>1, <1>6, <2>2, <4>1 DEF Ahead
      <4> QED
        BY <1>2, <1>6, <4>1
    <3> QED
      BY <1>6, <2>2, <3>1 DEF Flow
  <2> QED
    BY <1>2, <1>6, <2>1, <2>2
<1> QED
  BY <1>3, <1>5, <1>6 DEF Flow, r

(* The first "emit" becomes the last "send".                               *)
LEMMA EmitFlow ==
    ASSUME NEW q \in Seq(Tasks), q # << >>, Head(q).op = "emit", NEW ts, NEW sn, NEW sv,
           Flow(q, ts, sn, sv)
    PROVE  Flow(Append(Tail(q), Task("send", Head(q).msg)), ts, sn, sv)
<1> DEFINE t == Task("send", Head(q).msg)
           r == Append(Tail(q), t)
           n == Len(Tail(q)) + 1
<1>1. /\ Tail(q) \in Seq(Tasks) /\ Head(q) = q[1] /\ Head(q) \in Tasks /\ 1 \in 1..Len(q)
      /\ \A i \in 1..Len(Tail(q)) : i + 1 \in 1..Len(q) /\ Tail(q)[i] = q[i + 1]
      /\ Len(Tail(q)) \in Nat
  BY TailParts, LenProperties
<1>2. t \in Tasks /\ t.op = "send" /\ t.msg = q[1].msg
  BY <1>1 DEF Task, Tasks, Ops
<1>3. /\ Len(r) = n /\ r[n] = t
      /\ \A i \in 1..Len(Tail(q)) : r[i] = Tail(q)[i]
  <2> HIDE DEF t
  <2> QED
    BY <1>1, <1>2, AppendProperties
<1> HIDE DEF r, t
<1>4. ASSUME NEW i \in 1..Len(r)
      PROVE  \/ i + 1 \in 1..Len(q) /\ r[i] = q[i + 1] /\ i < n
             \/ i = n /\ r[i].op = "send" /\ r[i].msg = q[1].msg
  BY <1>1, <1>2, <1>3
<1>5. ASSUME NEW i \in 1..Len(r), r[i].op \in Outbound PROVE Fits(r[i].msg, sn, sv)
  BY <1>1, <1>4, <1>5 DEF Flow, Outbound
<1>6. ASSUME NEW i \in 1..Len(ts), NEW j \in 1..Len(r), r[j].op \in Outbound
      PROVE  NotNewer(ts[i], r[j].msg)
  BY <1>1, <1>4, <1>6 DEF Flow, Outbound
<1>7. ASSUME NEW i \in 1..Len(r), NEW j \in 1..Len(r),
             {r[i].op, r[j].op} \subseteq Outbound, Ahead(r[i], i, r[j], j)
      PROVE  NotNewer(r[i].msg, r[j].msg)
  <2>0. i \in Nat /\ j \in Nat /\ n \in Nat
    BY <1>1, <1>3
  <2>1. CASE i = n
    <3>1. r[j].op = "emit" /\ j # n /\ j + 1 \in 1..Len(q) /\ r[j] = q[j + 1]
      BY <1>4, <1>7, <2>0, <2>1, <1>1, <1>3 DEF Ahead
    <3>2. Ahead(q[1], 1, q[j + 1], j + 1)
      BY <1>1, <2>0, <3>1 DEF Ahead
    <3> QED
      BY <1>1, <1>4, <2>1, <2>0, <3>1, <3>2 DEF Flow, Outbound
  <2>2. CASE j = n /\ i # n
    <3>1. r[i].op = "send" /\ i + 1 \in 1..Len(q) /\ r[i] = q[i + 1]
      BY <1>2, <1>3, <1>4, <1>7, <2>2 DEF Ahead
    <3>2. Ahead(q[i + 1], i + 1, q[1], 1)
      BY <1>1, <3>1 DEF Ahead
    <3> QED
      BY <1>1, <1>4, <2>2, <2>0, <3>1, <3>2 DEF Flow, Outbound
  <2>3. CASE i # n /\ j # n
    <3>1. Ahead(q[i + 1], i + 1, q[j + 1], j + 1)
      BY <1>4, <1>7, <2>0, <2>3 DEF Ahead
    <3> QED
      BY <1>4, <1>7, <2>3, <3>1 DEF Flow
  <2> QED
    BY <2>1, <2>2, <2>3
<1> QED
  BY <1>5, <1>6, <1>7 DEF Flow, r, t

(* The first "send" is put on its way.                                     *)
LEMMA SendFlow ==
    ASSUME NEW q \in Seq(Tasks), q # << >>, Head(q).op = "send",
           NEW ts \in Seq(Messages), NEW sn, NEW sv, Flow(q, ts, sn, sv)
    PROVE  Flow(Tail(q), Append(ts, Head(q).msg), sn, sv)
<1> DEFINE r == Tail(q)
           m == Head(q).msg
           us == Append(ts, m)
<1>1. /\ Head(q) = q[1] /\ Head(q) \in Tasks /\ 1 \in 1..Len(q)
      /\ \A i \in 1..Len(r) : i + 1 \in 1..Len(q) /\ r[i] = q[i + 1]
  BY TailParts
<1>2. m \in Messages
  BY <1>1 DEF Tasks
<1>3. /\ Len(ts) \in Nat /\ Len(us) = Len(ts) + 1 /\ us[Len(ts) + 1] = m
      /\ \A i \in 1..Len(ts) : us[i] = ts[i]
  <2> HIDE DEF m
  <2> QED
    BY <1>2, AppendProperties, LenProperties
<1>m. m = q[1].msg
  BY <1>1
<1> HIDE DEF r, us, m
<1>4. Flow(r, ts, sn, sv)
  BY TailFlow DEF r
<1>5. \A i \in 1..Len(us) : \/ i \in 1..Len(ts) /\ us[i] = ts[i]
                            \/ i = Len(ts) + 1 /\ us[i] = m
  BY <1>3
<1>6. Fits(m, sn, sv)
  BY <1>1, <1>m DEF Flow, Outbound
<1>7. ASSUME NEW i \in 1..Len(ts) PROVE NotNewer(ts[i], m)
  BY <1>1, <1>m DEF Flow, Outbound
<1>8. ASSUME NEW j \in 1..Len(r), r[j].op \in Outbound PROVE NotNewer(m, r[j].msg)
  <2>1. Ahead(q[1], 1, q[j + 1], j + 1)
    BY <1>1, <1>8 DEF Ahead, Outbound
  <2> QED
    BY <1>1, <1>m, <1>8, <2>1 DEF Flow, Outbound
<1>9. ASSUME NEW i \in 1..Len(us), NEW j \in 1..Len(us), i < j
      PROVE  NotNewer(us[i], us[j])
  <2>1. i \in 1..Len(ts) /\ us[i] = ts[i]
    BY <1>3, <1>5, <1>9
  <2>2. CASE j \in 1..Len(ts)
    BY <1>5, <1>9, <1>3, <2>1, <2>2 DEF Flow
  <2>3. CASE j = Len(ts) + 1
    BY <1>3, <1>7, <2>1, <2>3
  <2> QED
    BY <1>5, <2>2, <2>3
<1>10. \A i \in 1..Len(us) : Fits(us[i], sn, sv)
  BY <1>5, <1>6 DEF Flow
<1>11. \A i \in 1..Len(us), j \in 1..Len(r) : r[j].op \in Outbound => NotNewer(us[i], r[j].msg)
  BY <1>4, <1>5, <1>8 DEF Flow
<1> QED
  BY <1>4, <1>9, <1>10, <1>11 DEF Flow, r, us, m
(* What arrives first is taken; the server may have learned it.            *)
LEMMA TakeFlow ==
    ASSUME NEW q \in Seq(Tasks), NEW ts \in Seq(Messages), ts # << >>,
           NEW sn \in Pictures, NEW sv, Flow(q, ts, sn, sv),
           NEW sn1 \in {sn, [sn EXCEPT ![Head(ts).field] = Head(ts).version]},
           sn1 # sn => Head(ts).kind = "set"
    PROVE  Flow(q, Tail(ts), sn1, sv)
<1> DEFINE us == Tail(ts)
           m == Head(ts)
<1>1. /\ m = ts[1] /\ 1 \in 1..Len(ts)
      /\ \A i \in 1..Len(us) : i + 1 \in 1..Len(ts) /\ us[i] = ts[i + 1]
  BY TailParts
<1> HIDE DEF us, m
<1>2. ASSUME NEW n, Fits(n, sn, sv), NotNewer(m, n) PROVE Fits(n, sn1, sv)
  <2>1. CASE sn1 = sn
    BY <1>2, <2>1
  <2>2. CASE sn1 # sn /\ n.kind = "set"
    <3>1. m.kind = "set" /\ sn1 = [sn EXCEPT ![m.field] = m.version]
      BY <2>2 DEF m
    <3>2. m.field \in Fields /\ n.field \in Fields
      BY <1>1, <1>2, <2>2, <3>1 DEF Flow, Fits
    <3>3. sn1[n.field] = IF n.field = m.field THEN m.version ELSE sn[n.field]
      BY <3>1, <3>2 DEF Pictures
    <3> QED
      BY <1>2, <2>2, <3>1, <3>3 DEF Fits, NotNewer
  <2> QED
    BY <2>1, <2>2 DEF Fits
<1>3. ASSUME NEW i \in 1..Len(us) PROVE Fits(us[i], sn1, sv)
  <2>1. NotNewer(ts[1], ts[i + 1])
    BY <1>1 DEF Flow
  <2> QED
    BY <1>1, <1>2, <2>1 DEF Flow
<1>4. ASSUME NEW j \in 1..Len(q), q[j].op \in Outbound PROVE Fits(q[j].msg, sn1, sv)
  BY <1>1, <1>2, <1>4 DEF Flow
<1>5. \A i, j \in 1..Len(us) : i < j => NotNewer(us[i], us[j])
  <2> SUFFICES ASSUME NEW i \in 1..Len(us), NEW j \in 1..Len(us), i < j
               PROVE  NotNewer(us[i], us[j])
    OBVIOUS
  <2>1. i + 1 < j + 1
    OBVIOUS
  <2> QED
    BY <1>1, <2>1 DEF Flow
<1>6. \A i \in 1..Len(us), j \in 1..Len(q) :
         q[j].op \in Outbound => NotNewer(us[i], q[j].msg)
  BY <1>1 DEF Flow
<1> QED
  BY <1>3, <1>4, <1>5, <1>6 DEF Flow, us

(* What is in transit is lost, and with it the server's picture.           *)
LEMMA LostFlow ==
    ASSUME NEW q \in Seq(Tasks), NEW ts, NEW sn, NEW sv \in Pictures, Flow(q, ts, sn, sv),
           \A i \in 1..Len(q) : q[i].msg.version \in Nat
    PROVE  Flow(q, << >>, Blank, sv)
<1>1. \A i \in 1..Len(<< >>) : FALSE
  OBVIOUS
<1>2. ASSUME NEW i \in 1..Len(q), q[i].op \in Outbound PROVE Fits(q[i].msg, Blank, sv)
  BY <1>2 DEF Flow, Fits, Blank
<1> QED
  BY <1>1, <1>2 DEF Flow

(* The station has moved on.                                               *)
LEMMA SavedFlow ==
    ASSUME NEW q, NEW ts \in Seq(Messages), NEW sn, NEW sv \in Pictures, NEW sv1 \in Pictures,
           Flow(q, ts, sn, sv), \A f \in Fields : sv[f] <= sv1[f],
           \A i \in 1..Len(ts) : ts[i].version \in Nat,
           \A i \in 1..Len(q) : q[i].msg.version \in Nat
    PROVE  Flow(q, ts, sn, sv1)
<1>v. \A f \in Fields : sv[f] \in Nat /\ sv1[f] \in Nat
  BY MaxEditsIsNat DEF Pictures, Versions
<1>1. ASSUME NEW m, m.version \in Nat, Fits(m, sn, sv) PROVE Fits(m, sn, sv1)
  BY <1>v, <1>1 DEF Fits
<1>2. \A i \in 1..Len(ts) : Fits(ts[i], sn, sv1)
  BY <1>1 DEF Flow
<1>3. \A i \in 1..Len(q) : q[i].op \in Outbound => Fits(q[i].msg, sn, sv1)
  BY <1>1 DEF Flow
<1> QED
  BY <1>2, <1>3 DEF Flow

-----------------------------------------------------------------------------
(* The inductive invariant.                                                *)

(* One attempt to connect, or one connection, or the timer of the next.    *)
Link ==
    /\ Once(queue, "connect") /\ Once(queue, "drop")
    /\ Has(queue, "connect") => ~socket /\ ~retry
    /\ Has(queue, "drop") => socket /\ failing
    /\ ~socket => toServer = << >> /\ toClient = << >>

(* The picture is never ahead of the station, and all reports are in order.*)
Picture ==
    /\ \A f \in Fields : saved[f] <= edits + 1 /\ seen[f] <= saved[f]
    /\ Flow(queue, toServer, seen, saved)

ReporterInv == TypeOK /\ Link /\ Picture

(* The types by name.                                                      *)
LEMMA Types ==
    ASSUME TypeOK
    PROVE  /\ queue \in Seq(Tasks)
           /\ toServer \in Seq(Messages) /\ toClient \in Seq(Messages)
           /\ seen \in Pictures /\ saved \in Pictures /\ saved \in [Fields -> Versions]
           /\ edits \in Nat /\ edits <= MaxEdits
           /\ \A i \in 1..Len(queue) : queue[i] \in Tasks /\ queue[i].msg.version \in Nat
           /\ \A i \in 1..Len(toServer) : toServer[i] \in Messages
                                          /\ toServer[i].version \in Nat
<1>1. queue \in Seq(Tasks) /\ toServer \in Seq(Messages) /\ toClient \in Seq(Messages)
  BY DEF TypeOK, Tasks
<1>2. \A m \in Messages : m.version \in Nat
  BY MaxEditsIsNat DEF Messages, Versions
<1>3. \A i \in 1..Len(queue) : queue[i] \in Tasks
  BY <1>1, ElementOfSeq
<1>4. \A i \in 1..Len(toServer) : toServer[i] \in Messages
  BY <1>1, ElementOfSeq
<1>5. seen \in Pictures /\ saved \in Pictures /\ saved \in [Fields -> Versions]
  BY DEF TypeOK, Pictures
<1> QED
  BY <1>1, <1>2, <1>3, <1>4, <1>5, MaxEditsIsNat DEF TypeOK, Tasks

(* Tasks the actions make.                                                 *)
LEMMA PlainTasks ==
    ASSUME NEW op \in Ops, NEW kind \in Kinds
    PROVE  /\ Msg(kind) \in Messages /\ Msg(kind).kind = kind
           /\ Task(op, Msg(kind)) \in Tasks /\ Plain(op) \in Tasks
           /\ Task(op, Msg(kind)).op = op /\ Task(op, Msg(kind)).msg = Msg(kind)
           /\ Plain(op).op = op /\ Plain(op).msg.kind = "hello"
  BY DEF Msg, Messages, Task, Plain, Tasks, Kinds

(* The tasks that report one field, or all.                                *)
LEMMA SetTask ==
    ASSUME NEW f \in Fields, NEW v \in Versions
    PROVE  /\ Task("emit", Set(f, v)) \in Tasks
           /\ Task("emit", Set(f, v)).op = "emit"
           /\ Task("emit", Set(f, v)).msg.kind = "set"
           /\ Task("emit", Set(f, v)).msg.field = f
           /\ Task("emit", Set(f, v)).msg.version = v
  BY DEF Set, Messages, Task, Tasks, Kinds, Ops

LEMMA EmitSavedTasks ==
    ASSUME saved \in [Fields -> Versions]
    PROVE  /\ EmitSaved \in Seq(Tasks) /\ Len(EmitSaved) = NFields
           /\ \A f \in Fields : EmitSaved[f] = Task("emit", Set(f, saved[f]))
           /\ \A i \in 1..Len(EmitSaved) :
                 /\ i \in Fields /\ EmitSaved[i].op = "emit"
                 /\ EmitSaved[i].msg.kind = "set" /\ EmitSaved[i].msg.field = i
                 /\ EmitSaved[i].msg.version = saved[i]
<1>1. EmitSaved \in [1..NFields -> Tasks]
  BY SetTask DEF EmitSaved, Fields
<1>2. EmitSaved \in Seq(Tasks) /\ Len(EmitSaved) = NFields
  BY <1>1, FunctionSeq, NFieldsIsNat
<1>3. \A f \in Fields : EmitSaved[f] = Task("emit", Set(f, saved[f]))
  BY DEF EmitSaved
<1>4. \A i \in 1..Len(EmitSaved) : i \in Fields
  BY <1>2 DEF Fields
<1> QED
  BY <1>2, <1>3, <1>4, SetTask

(* Every report of the current fields is one that may be added.            *)
LEMMA EmitSavedAdds ==
    ASSUME saved \in [Fields -> Versions]
    PROVE  Adds(EmitSaved, saved) /\ ~Has(EmitSaved, "connect") /\ ~Has(EmitSaved, "drop")
  BY EmitSavedTasks DEF Adds, Has

(* A single task that may be added.                                        *)
LEMMA OneAdds ==
    ASSUME NEW t \in Tasks, NEW sv,
           \/ t.op \notin Outbound
           \/ t.msg.kind # "set"
           \/ t.op = "emit" /\ t.msg.field \in Fields /\ t.msg.version = sv[t.msg.field]
    PROVE  Adds(<<t>>, sv) /\ (\A op : Has(<<t>>, op) => op = t.op)
<1>1. Len(<<t>>) = 1 /\ <<t>>[1] = t
  BY OneTask
<1>2. \A i \in 1..Len(<<t>>) : <<t>>[i] = t
  BY <1>1
<1> QED
  BY <1>2 DEF Adds, Has

(* The initial state satisfies the invariant.                              *)
LEMMA InitReporterInv == Init => ReporterInv
<1> SUFFICES ASSUME Init PROVE ReporterInv
  OBVIOUS
<1> DEFINE t == Plain("connect")
<1>1. t \in Tasks /\ t.op = "connect"
  BY PlainTasks DEF Ops, Kinds
<1>2. queue = <<t>>
  BY DEF Init
<1> HIDE DEF t
<1>3. queue \in Seq(Tasks) /\ Len(queue) = 1 /\ queue[1] = t
  BY <1>1, <1>2, OneTask
<1>4. << >> \in Seq(Messages) /\ Len(<< >>) = 0
  BY EmptySeq
<1>5. 1 \in Versions /\ 0 \in 0..MaxConn /\ 0 \in 0..MaxEdits
  BY MaxEditsIsNat, MaxConnIsNat DEF Versions
<1>6. TypeOK
  <2>1. queue \in Seq([op : Ops, msg : Messages])
    BY <1>3 DEF Tasks
  <2> QED
    BY <2>1, <1>4, <1>5 DEF Init, TypeOK, Blank
<1>7. \A i \in 1..Len(queue) : queue[i].op = "connect" /\ i = 1
  BY <1>1, <1>3
<1>8. Link
  BY <1>7 DEF Init, Link, Once, Has
<1>9. Flow(queue, toServer, seen, saved)
  BY <1>4, <1>7 DEF Init, Flow, Outbound
<1>10. Picture
  BY <1>9 DEF Init, Picture, Blank
<1> QED
  BY <1>6, <1>8, <1>10 DEF ReporterInv

-----------------------------------------------------------------------------
(* What a step does to the queue q, with ts in transit.                    *)

Good(q, ts, sn, sv) ==
    q \in Seq(Tasks) /\ Once(q, "connect") /\ Once(q, "drop") /\ Flow(q, ts, sn, sv)

Single == {"connect", "drop"}

(* The first task is taken.                                                *)
LEMMA GoodTail ==
    ASSUME NEW q, q # << >>, NEW ts, NEW sn, NEW sv, Good(q, ts, sn, sv)
    PROVE  /\ Good(Tail(q), ts, sn, sv) /\ Head(q) \in Tasks
           /\ \A op \in Single : /\ Has(Tail(q), op) => Has(q, op)
                                 /\ Head(q).op = op => Has(q, op) /\ ~Has(Tail(q), op)
<1>1. q \in Seq(Tasks) /\ Once(q, "connect") /\ Once(q, "drop") /\ Flow(q, ts, sn, sv)
  BY DEF Good
<1>2. Tail(q) \in Seq(Tasks) /\ Head(q) \in Tasks
  BY <1>1, TailParts
<1>3. Flow(Tail(q), ts, sn, sv)
  BY <1>1, TailFlow
<1>4. \A op \in Single :
         /\ Once(Tail(q), op)
         /\ Has(Tail(q), op) => Has(q, op)
         /\ Head(q).op = op => Has(q, op) /\ ~Has(Tail(q), op)
  BY <1>1, TailOnce DEF Single
<1> QED
  BY <1>2, <1>3, <1>4 DEF Good, Single

(* Tasks are added, none of them one there may only be one of.             *)
LEMMA GoodConcat ==
    ASSUME NEW q, NEW s \in Seq(Tasks), NEW ts, NEW sn \in Pictures, NEW sv \in Pictures,
           \A f \in Fields : sn[f] <= sv[f],
           Good(q, ts, sn, sv), Adds(s, sv), ~Has(s, "connect"), ~Has(s, "drop")
    PROVE  /\ Good(q \o s, ts, sn, sv)
           /\ \A op \in Single : Has(q \o s, op) => Has(q, op)
<1>1. q \in Seq(Tasks) /\ Once(q, "connect") /\ Once(q, "drop") /\ Flow(q, ts, sn, sv)
  BY DEF Good
<1>2. q \o s \in Seq(Tasks)
  BY <1>1, ConcatParts
<1>3. Flow(q \o s, ts, sn, sv)
  BY <1>1, ConcatFlow
<1>4. \A op \in Single : Once(q \o s, op) /\ (Has(q \o s, op) => Has(q, op))
  BY <1>1, ConcatOnce DEF Single
<1> QED
  BY <1>2, <1>3, <1>4 DEF Good, Single

(* One task is added.                                                      *)
LEMMA GoodAppend ==
    ASSUME NEW q, NEW t \in Tasks, NEW ts, NEW sn \in Pictures, NEW sv \in Pictures,
           \A f \in Fields : sn[f] <= sv[f],
           Good(q, ts, sn, sv),
           \/ t.op \notin Outbound
           \/ t.msg.kind # "set"
           \/ t.op = "emit" /\ t.msg.field \in Fields /\ t.msg.version = sv[t.msg.field],
           t.op \in Single => ~Has(q, t.op)
    PROVE  /\ Good(Append(q, t), ts, sn, sv)
           /\ \A op \in Single : Has(Append(q, t), op) => Has(q, op) \/ op = t.op
<1>1. q \in Seq(Tasks) /\ Once(q, "connect") /\ Once(q, "drop") /\ Flow(q, ts, sn, sv)
  BY DEF Good
<1>2. <<t>> \in Seq(Tasks) /\ Append(q, t) = q \o <<t>>
  BY <1>1, OneTask
<1>3. Adds(<<t>>, sv) /\ (\A op : Has(<<t>>, op) => op = t.op)
  BY OneAdds
<1>4. Append(q, t) \in Seq(Tasks)
  BY <1>1, AppendProperties
<1>5. Flow(Append(q, t), ts, sn, sv)
  BY <1>1, <1>2, <1>3, ConcatFlow
<1>6. ASSUME NEW op \in Single, op # t.op
      PROVE  Once(Append(q, t), op) /\ (Has(Append(q, t), op) => Has(q, op))
  <2>1. ~Has(<<t>>, op) /\ Once(q, op)
    BY <1>1, <1>3, <1>6 DEF Single
  <2> QED
    BY <1>1, <1>2, <2>1, ConcatOnce
<1>7. t.op \in Single => Once(Append(q, t), t.op)
  BY <1>1, AppendFirst
<1>8. \A op \in Single : Once(Append(q, t), op)
  BY <1>6, <1>7
<1> QED
  BY <1>4, <1>5, <1>6, <1>8 DEF Good, Single

(* What the invariant says of the queue.                                   *)
LEMMA GoodQueue ==
    ASSUME ReporterInv
    PROVE  /\ Good(queue, toServer, seen, saved)
           /\ seen \in Pictures /\ saved \in Pictures /\ saved \in [Fields -> Versions]
           /\ \A f \in Fields : seen[f] <= saved[f] /\ saved[f] <= edits + 1
  BY Types DEF ReporterInv, Link, Picture, Good

-----------------------------------------------------------------------------
(* Steps.  A step that leaves the connection, the fields, what is in       *)
(* transit and the server alone need only keep the queue good.             *)

Websockets == {"none", "connecting", "open", "closed"}

LEMMA QuietStep ==
    ASSUME ReporterInv, Good(queue', toServer, seen, saved),
           \A op \in Single : Has(queue', op) => Has(queue, op),
           websocket' \in Websockets, registered' \in {"no", "queued", "yes"},
           full' \in BOOLEAN,
           UNCHANGED <<tcpVars, uiVars, netVars, serverVars>>
    PROVE  ReporterInv'
<1> USE DEF tcpVars, uiVars, netVars, serverVars
<1>1. TypeOK'
  BY DEF ReporterInv, TypeOK, Good, Tasks, Websockets
<1>2. Link'
  BY DEF ReporterInv, Link, Good, Single
<1>3. Picture'
  BY DEF ReporterInv, Picture, Good
<1> QED
  BY <1>1, <1>2, <1>3 DEF ReporterInv

LEMMA RegisterStep == ReporterInv /\ Register => ReporterInv'
<1> SUFFICES ASSUME ReporterInv, Register PROVE ReporterInv'
  OBVIOUS
<1>1. Plain("register") \in Tasks /\ Plain("register").op = "register"
  BY PlainTasks DEF Ops, Kinds
<1>2. queue' = Append(queue, Plain("register"))
  BY DEF Register
<1>3. /\ Good(queue', toServer, seen, saved)
      /\ \A op \in Single : Has(queue', op) => Has(queue, op)
  BY <1>1, <1>2, GoodQueue, GoodAppend DEF Single, Outbound
<1> QED
  BY <1>3, QuietStep DEF Register, ReporterInv, TypeOK, Websockets

LEMMA OnConnectStep == ReporterInv /\ OnConnect => ReporterInv'
<1> SUFFICES ASSUME ReporterInv, OnConnect PROVE ReporterInv'
  OBVIOUS
<1> DEFINE t == Task("send", Msg("hello"))
<1>1. t \in Tasks /\ t.op = "send" /\ t.msg.kind # "set"
  BY PlainTasks DEF Ops, Kinds
<1>2. queue # << >> /\ queue' = Append(Tail(queue), t)
  BY DEF OnConnect, Serving
<1> HIDE DEF t
<1>3. /\ Good(Tail(queue), toServer, seen, saved)
      /\ \A op \in Single : Has(Tail(queue), op) => Has(queue, op)
  BY <1>2, GoodQueue, GoodTail
<1>4. /\ Good(queue', toServer, seen, saved)
      /\ \A op \in Single : Has(queue', op) => Has(queue, op)
  BY <1>1, <1>2, <1>3, GoodQueue, GoodAppend DEF Single
<1> QED
  BY <1>4, QuietStep DEF OnConnect, ReporterInv, TypeOK, Websockets

(* A task that is only taken.                                              *)
LEMMA TakenStep ==
    ReporterInv /\ (RegisterHandlers \/ EventUnheard) => ReporterInv'
<1> SUFFICES ASSUME ReporterInv, RegisterHandlers \/ EventUnheard PROVE ReporterInv'
  OBVIOUS
<1>1. queue # << >> /\ queue' = Tail(queue)
  BY DEF RegisterHandlers, EventUnheard, Serving
<1>2. /\ Good(queue', toServer, seen, saved)
      /\ \A op \in Single : Has(queue', op) => Has(queue, op)
  BY <1>1, GoodQueue, GoodTail
<1> QED
  BY <1>2, QuietStep DEF RegisterHandlers, EventUnheard, ReporterInv, TypeOK, Websockets

LEMMA ReceiveStep == ReporterInv /\ Receive => ReporterInv'
<1> SUFFICES ASSUME ReporterInv, Receive PROVE ReporterInv'
  OBVIOUS
<1> DEFINE t == Task("send", Msg("auth"))
           u == Task("event", Served)
<1>1. t \in Tasks /\ t.op = "send" /\ t.msg.kind # "set"
  BY PlainTasks DEF Ops, Kinds
<1>2. /\ queue # << >>
      /\ \/ queue' = Tail(queue) \o <<t>>
         \/ queue' = Tail(queue) \o <<u>>
         \/ queue' = Tail(queue) \o << >>
  BY DEF Receive, Serving
<1>3. /\ Good(Tail(queue), toServer, seen, saved) /\ Head(queue) \in Tasks
      /\ \A op \in Single : Has(Tail(queue), op) => Has(queue, op)
  BY <1>2, GoodQueue, GoodTail
<1>4. u \in Tasks /\ u.op = "event"
  BY <1>3 DEF Served, Task, Tasks, Ops
<1> HIDE DEF t, u
<1>5. /\ Tail(queue) \o <<t>> = Append(Tail(queue), t)
      /\ Tail(queue) \o <<u>> = Append(Tail(queue), u)
      /\ Tail(queue) \o << >> = Tail(queue)
  <2>1. Tail(queue) \in Seq(Tasks)
    BY <1>3 DEF Good
  <2> QED
    BY <1>1, <1>4, <2>1, OneTask, ConcatEmptySeq
<1>6. /\ Good(queue', toServer, seen, saved)
      /\ \A op \in Single : Has(queue', op) => Has(queue, op)
  <2>1. CASE queue' = Append(Tail(queue), t)
    BY <1>1, <1>3, <2>1, GoodQueue, GoodAppend DEF Single
  <2>2. CASE queue' = Append(Tail(queue), u)
    BY <1>4, <1>3, <2>2, GoodQueue, GoodAppend DEF Single, Outbound
  <2>3. CASE queue' = Tail(queue)
    BY <1>3, <2>3
  <2> QED
    BY <1>2, <1>5, <2>1, <2>2, <2>3
<1> QED
  BY <1>6, QuietStep DEF Receive, ReporterInv, TypeOK, Websockets

LEMMA EmitStep == ReporterInv /\ EmitTask => ReporterInv'
<1> SUFFICES ASSUME ReporterInv, EmitTask PROVE ReporterInv'
  OBVIOUS
<1> DEFINE r == Tail(queue)
           t == Task("send", Head(queue).msg)
<1>1. /\ queue # << >> /\ Head(queue).op = "emit"
      /\ queue' = Append(r, t) \/ queue' = r
  BY DEF EmitTask, Serving, Served
<1>2. /\ Good(queue, toServer, seen, saved)
      /\ Good(r, toServer, seen, saved) /\ Head(queue) \in Tasks
      /\ \A op \in Single : Has(r, op) => Has(queue, op)
  BY <1>1, GoodQueue, GoodTail
<1>3. t \in Tasks /\ t.op = "send"
  BY <1>2 DEF Task, Tasks, Ops
<1>4. Flow(Append(r, t), toServer, seen, saved)
  BY <1>1, <1>2, EmitFlow DEF Good
<1> HIDE DEF r, t
<1>5. Append(r, t) = r \o <<t>> /\ <<t>> \in Seq(Tasks) /\ Append(r, t) \in Seq(Tasks)
  BY <1>2, <1>3, OneTask, AppendProperties DEF Good
<1>6. \A op \in Single : ~Has(<<t>>, op)
  BY <1>3, OneTask DEF Single, Has
<1>7. \A op \in Single : Once(Append(r, t), op) /\ (Has(Append(r, t), op) => Has(r, op))
  BY <1>2, <1>5, <1>6, ConcatOnce DEF Good, Single
<1>8. /\ Good(queue', toServer, seen, saved)
      /\ \A op \in Single : Has(queue', op) => Has(queue, op)
  BY <1>1, <1>2, <1>4, <1>5, <1>7 DEF Good, Single
<1> QED
  BY <1>8, QuietStep DEF EmitTask, ReporterInv, TypeOK, Websockets

(* What may be emitted: all fields, or that the station hides.             *)
LEMMA EmitOne ==
    ASSUME NEW kind \in {"hide", "show"}, NEW sv
    PROVE  /\ Emit(kind) \in Seq(Tasks) /\ Adds(Emit(kind), sv)
           /\ ~Has(Emit(kind), "connect") /\ ~Has(Emit(kind), "drop")
<1> DEFINE t == Task("emit", Msg(kind))
<1>1. t \in Tasks /\ t.op = "emit" /\ t.msg.kind # "set"
  BY PlainTasks DEF Ops, Kinds
<1>2. Emit(kind) = <<t>>
  BY DEF Emit
<1> HIDE DEF t
<1> QED
  BY <1>1, <1>2, OneTask, OneAdds

LEMMA SuccessStep == ReporterInv /\ ConnectionSuccessful => ReporterInv'
<1> SUFFICES ASSUME ReporterInv, ConnectionSuccessful PROVE ReporterInv'
  OBVIOUS
<1> DEFINE s == IF hidden THEN Emit("hide") ELSE EmitSaved
<1>1. queue # << >> /\ queue' = Tail(queue) \o s
  BY DEF ConnectionSuccessful, Serving
<1>2. /\ s \in Seq(Tasks) /\ Adds(s, saved)
      /\ ~Has(s, "connect") /\ ~Has(s, "drop")
  BY EmitOne, EmitSavedTasks, EmitSavedAdds, GoodQueue
<1> HIDE DEF s
<1>3. /\ Good(Tail(queue), toServer, seen, saved)
      /\ \A op \in Single : Has(Tail(queue), op) => Has(queue, op)
  BY <1>1, GoodQueue, GoodTail
<1>4. /\ Good(queue', toServer, seen, saved)
      /\ \A op \in Single : Has(queue', op) => Has(queue, op)
  BY <1>1, <1>2, <1>3, GoodQueue, GoodConcat
<1> QED
  BY <1>4, QuietStep DEF ConnectionSuccessful, ReporterInv, TypeOK, Websockets

(* A call of the user interface.                                           *)
LEMMA CallStep ==
    ASSUME ReporterInv, Call, Good(queue', toServer, seen, saved'),
           \A op \in Single : Has(queue', op) => Has(queue, op),
           saved' \in [Fields -> Versions], hidden' \in BOOLEAN,
           \A f \in Fields : saved'[f] <= edits + 2 /\ seen[f] <= saved'[f]
    PROVE  ReporterInv'
<1> USE DEF tcpVars, netVars, serverVars, Call
<1>0. edits' \in 0..MaxEdits /\ edits' + 1 = edits + 2
  BY MaxEditsIsNat DEF ReporterInv, TypeOK
<1>1. TypeOK'
  BY <1>0 DEF ReporterInv, TypeOK, Good, Tasks
<1>2. Link'
  BY DEF ReporterInv, Link, Good, Single
<1>3. Picture'
  BY <1>0 DEF ReporterInv, Picture, Good
<1> QED
  BY <1>1, <1>2, <1>3 DEF ReporterInv

LEMMA ChangeStep == \A f \in Fields : ReporterInv /\ Change(f) => ReporterInv'
<1> SUFFICES ASSUME NEW f \in Fields, ReporterInv, Change(f) PROVE ReporterInv'
  OBVIOUS
<1> DEFINE v == edits + 2
           t == Task("emit", Set(f, v))
<1>1. v \in Versions /\ v \in Nat /\ edits \in Nat /\ Call
  BY MaxEditsIsNat DEF Change, Call, ReporterInv, TypeOK, Versions
<1>2. /\ t \in Tasks /\ t.op = "emit" /\ t.msg.field = f /\ t.msg.version = v
  <2> HIDE DEF v
  <2> QED
    BY <1>1, SetTask
<1>3. /\ saved' = [saved EXCEPT ![f] = v]
      /\ queue' = IF full THEN Append(queue, t) ELSE queue
      /\ hidden' = hidden
  BY DEF Change
<1> HIDE DEF t
<1>4. \A g \in Fields : saved[g] \in Nat /\ seen[g] \in Nat
  BY GoodQueue, MaxEditsIsNat DEF Pictures, Versions
<1>5. /\ saved' \in [Fields -> Versions] /\ saved' \in Pictures
      /\ saved'[f] = v /\ \A g \in Fields : g # f => saved'[g] = saved[g]
  BY <1>1, <1>3, GoodQueue DEF Pictures
<1>6. \A g \in Fields : saved'[g] <= edits + 2 /\ saved[g] <= saved'[g]
                        /\ seen[g] <= saved'[g]
  <2> SUFFICES ASSUME NEW g \in Fields
               PROVE  saved'[g] <= edits + 2 /\ saved[g] <= saved'[g] /\ seen[g] <= saved'[g]
    OBVIOUS
  <2>1. saved[g] <= edits + 1 /\ seen[g] <= saved[g]
    BY GoodQueue
  <2> QED
    BY <1>1, <1>4, <1>5, <2>1
<1>7. Good(queue, toServer, seen, saved')
  <2>1. Flow(queue, toServer, seen, saved')
    BY <1>5, <1>6, GoodQueue, Types, SavedFlow DEF Good, ReporterInv
  <2> QED
    BY <2>1, GoodQueue DEF Good
<1>8. /\ Good(queue', toServer, seen, saved')
      /\ \A op \in Single : Has(queue', op) => Has(queue, op)
  <2>1. CASE full
    <3>1. queue' = Append(queue, t)
      BY <1>3, <2>1
    <3>2. /\ Good(Append(queue, t), toServer, seen, saved')
          /\ \A op \in Single : Has(Append(queue, t), op) => Has(queue, op) \/ op = t.op
      BY <1>2, <1>5, <1>6, <1>7, GoodQueue, GoodAppend DEF Single
    <3> QED
      BY <1>2, <3>1, <3>2 DEF Single
  <2>2. CASE ~full
    BY <1>3, <1>7, <2>2
  <2> QED
    BY <2>1, <2>2
<1>9. hidden' \in BOOLEAN
  BY <1>3 DEF ReporterInv, TypeOK
<1> QED
  BY <1>1, <1>5, <1>6, <1>8, <1>9, CallStep

LEMMA HideShowStep == ReporterInv /\ (HideFromView \/ ShowOurselves) => ReporterInv'
<1> SUFFICES ASSUME ReporterInv, HideFromView \/ ShowOurselves PROVE ReporterInv'
  OBVIOUS
<1>1. Call /\ saved' = saved /\ hidden' \in BOOLEAN
  BY DEF HideFromView, ShowOurselves
<1>2. /\ Emit("show") \in Seq(Tasks) /\ Adds(Emit("show"), saved)
      /\ ~Has(Emit("show"), "connect") /\ ~Has(Emit("show"), "drop")
      /\ Emit("hide") \in Seq(Tasks) /\ Adds(Emit("hide"), saved)
      /\ ~Has(Emit("hide"), "connect") /\ ~Has(Emit("hide"), "drop")
      /\ EmitSaved \in Seq(Tasks) /\ Adds(EmitSaved, saved)
      /\ ~Has(EmitSaved, "connect") /\ ~Has(EmitSaved, "drop")
  BY EmitOne, EmitSavedTasks, EmitSavedAdds, GoodQueue
<1>3. /\ Good(queue, toServer, seen, saved)
      /\ seen \in Pictures /\ saved \in Pictures
      /\ \A f \in Fields : seen[f] <= saved[f]
  BY GoodQueue
<1>4. /\ Good(queue \o Emit("hide"), toServer, seen, saved)
      /\ \A op \in Single : Has(queue \o Emit("hide"), op) => Has(queue, op)
      /\ Good(queue \o Emit("show"), toServer, seen, saved)
      /\ \A op \in Single : Has(queue \o Emit("show"), op) => Has(queue, op)
  BY <1>2, <1>3, GoodConcat
<1>5. /\ Good((queue \o Emit("show")) \o EmitSaved, toServer, seen, saved)
      /\ \A op \in Single : Has((queue \o Emit("show")) \o EmitSaved, op)
                               => Has(queue \o Emit("show"), op)
  BY <1>2, <1>3, <1>4, GoodConcat
<1>6. /\ Good(queue', toServer, seen, saved')
      /\ \A op \in Single : Has(queue', op) => Has(queue, op)
  <2>1. \/ queue' = queue
        \/ queue' = queue \o Emit("hide")
        \/ queue' = (queue \o Emit("show")) \o EmitSaved
    BY DEF HideFromView, ShowOurselves
  <2> QED
    BY <1>1, <1>3, <1>4, <1>5, <2>1
<1>7. \A f \in Fields : saved'[f] <= edits + 2 /\ seen[f] <= saved'[f]
  <2> SUFFICES ASSUME NEW f \in Fields
               PROVE  saved[f] <= edits + 2 /\ seen[f] <= saved[f]
    BY <1>1
  <2>1. saved[f] \in Nat /\ edits \in Nat /\ saved[f] <= edits + 1 /\ seen[f] <= saved[f]
    BY GoodQueue, MaxEditsIsNat DEF Versions, ReporterInv, TypeOK
  <2> QED
    BY <2>1
<1> QED
  BY <1>1, <1>6, <1>7, GoodQueue, CallStep

(* An attempt to connect ends, one way or the other.                       *)
LEMMA ConnectStep == ReporterInv /\ (ConnectSucceeds \/ ConnectFails) => ReporterInv'
<1> SUFFICES ASSUME ReporterInv, ConnectSucceeds \/ ConnectFails PROVE ReporterInv'
  OBVIOUS
<1> USE DEF uiVars, netVars, serverVars
<1>1. queue # << >> /\ Head(queue).op = "connect"
  BY DEF ConnectSucceeds, ConnectFails, Serving
<1>2. /\ Good(Tail(queue), toServer, seen, saved)
      /\ Has(queue, "connect") /\ ~Has(Tail(queue), "connect")
      /\ Has(Tail(queue), "drop") => Has(queue, "drop")
  BY <1>1, GoodQueue, GoodTail DEF Single
<1>3. /\ ~socket /\ ~retry /\ ~Has(Tail(queue), "drop")
      /\ toServer = << >> /\ toClient = << >>
  BY <1>2 DEF ReporterInv, Link
<1>4. Plain("onConnect") \in Tasks /\ Plain("onConnect").op = "onConnect"
  BY PlainTasks DEF Ops, Kinds
<1>5. /\ Good(queue', toServer, seen, saved)
      /\ ~Has(queue', "connect") /\ ~Has(queue', "drop")
  <2>1. CASE queue' = Append(Tail(queue), Plain("onConnect"))
    BY <1>2, <1>3, <1>4, <2>1, GoodQueue, GoodAppend DEF Single, Outbound
  <2>2. CASE queue' = Tail(queue)
    BY <1>2, <1>3, <2>2
  <2> QED
    BY <2>1, <2>2 DEF ConnectSucceeds, ConnectFails
<1>6. made' \in 0..MaxConn
  BY MaxConnIsNat DEF ConnectSucceeds, ConnectFails, ReporterInv, TypeOK
<1>7. {socket', failing', retry'} \subseteq BOOLEAN /\ (retry' => ~socket')
  <2>1. {socket, failing, retry} \subseteq BOOLEAN
    BY DEF ReporterInv, TypeOK
  <2>2. CASE ConnectSucceeds
    BY <1>3, <2>1, <2>2 DEF ConnectSucceeds
  <2>3. CASE ConnectFails
    BY <1>3, <2>1, <2>3 DEF ConnectFails
  <2> QED
    BY <2>2, <2>3
<1>s. session \in BOOLEAN /\ session' = session /\ ~session
  BY <1>3 DEF ConnectSucceeds, ConnectFails, ReporterInv, TypeOK
<1>8. TypeOK'
  BY <1>3, <1>5, <1>6, <1>7, <1>s
  DEF ConnectSucceeds, ConnectFails, ReporterInv, TypeOK, Good, Tasks
<1>9. Link'
  BY <1>3, <1>5 DEF ConnectSucceeds, ConnectFails, Link, Good
<1>10. Picture'
  BY <1>5 DEF ConnectSucceeds, ConnectFails, ReporterInv, Picture, Good
<1> QED
  BY <1>8, <1>9, <1>10 DEF ReporterInv

(* The connection is dropped.                                              *)
LEMMA DropStep == ReporterInv /\ Drop => ReporterInv'
<1> SUFFICES ASSUME ReporterInv, Drop PROVE ReporterInv'
  OBVIOUS
<1>1. queue # << >> /\ Head(queue).op = "drop" /\ queue' = Tail(queue)
  BY DEF Drop, Serving
<1>2. /\ Good(queue', toServer, seen, saved)
      /\ Has(queue, "drop") /\ ~Has(queue', "drop")
      /\ Has(queue', "connect") => Has(queue, "connect")
  BY <1>1, GoodQueue, GoodTail DEF Single
<1>3. ~Has(queue', "connect")
  BY <1>2 DEF ReporterInv, Link
<1>4. \A i \in 1..Len(queue') : queue'[i].msg.version \in Nat
  <2>1. queue' \in Seq(Tasks)
    BY <1>2 DEF Good
  <2>2. \A i \in 1..Len(queue') : queue'[i] \in Tasks
    BY <2>1, ElementOfSeq
  <2> QED
    BY <2>2, MaxEditsIsNat DEF Tasks, Messages, Versions
<1>5. Flow(queue', << >>, Blank, saved)
  <2>1. queue' \in Seq(Tasks) /\ Flow(queue', toServer, seen, saved) /\ saved \in Pictures
    BY <1>2, GoodQueue DEF Good
  <2> QED
    BY <1>4, <2>1, LostFlow
<1>6. << >> \in Seq(Messages)
  BY EmptySeq
<1>7. Blank \in [Fields -> Versions \cup {0}]
  BY DEF Blank
<1>8. websocket' \in {"none", "connecting", "open", "closed"}
  BY DEF Drop, ReporterInv, TypeOK
<1>9. TypeOK'
  BY <1>2, <1>6, <1>7, <1>8 DEF Drop, ReporterInv, TypeOK, Good, Tasks, uiVars
<1>10. Link'
  BY <1>2, <1>3 DEF Drop, Link, Good
<1>11. Picture'
  <2>1. \A f \in Fields : saved[f] \in Nat /\ Blank[f] = 0
    BY GoodQueue, MaxEditsIsNat DEF Versions, Blank
  <2>2. \A f \in Fields : saved[f] <= edits + 1 /\ Blank[f] <= saved[f]
    BY <2>1, GoodQueue
  <2> QED
    BY <1>5, <2>2 DEF Drop, Picture, uiVars
<1> QED
  BY <1>9, <1>10, <1>11 DEF ReporterInv

(* A message is put on its way, if there is a connection.                  *)
LEMMA SendStep == ReporterInv /\ SendTask => ReporterInv'
<1> SUFFICES ASSUME ReporterInv, SendTask PROVE ReporterInv'
  OBVIOUS
<1> USE DEF tcpVars, uiVars, serverVars
<1>1. queue # << >> /\ Head(queue).op = "send" /\ queue' = Tail(queue)
      /\ toServer' = IF socket THEN Append(toServer, Head(queue).msg) ELSE toServer
  BY DEF SendTask, Serving, Served
<1>2. /\ Good(queue, toServer, seen, saved)
      /\ Good(queue', toServer, seen, saved) /\ Head(queue) \in Tasks
      /\ \A op \in Single : Has(queue', op) => Has(queue, op)
  BY <1>1, GoodQueue, GoodTail
<1>3. toServer \in Seq(Messages) /\ Head(queue).msg \in Messages
  BY <1>2 DEF ReporterInv, TypeOK, Tasks
<1>4. toServer' \in Seq(Messages) /\ (~socket => toServer' = << >>)
  <2>1. Append(toServer, Head(queue).msg) \in Seq(Messages)
    BY <1>3, AppendProperties
  <2> QED
    BY <1>1, <1>3, <2>1 DEF ReporterInv, Link
<1>5. Good(queue', toServer', seen, saved)
  <2>1. Flow(Tail(queue), Append(toServer, Head(queue).msg), seen, saved)
    BY <1>1, <1>2, <1>3, SendFlow DEF Good
  <2>2. CASE socket
    BY <1>1, <1>2, <2>1, <2>2 DEF Good
  <2>3. CASE ~socket
    BY <1>1, <1>2, <2>3
  <2> QED
    BY <2>2, <2>3
<1>6. TypeOK'
  BY <1>4, <1>5 DEF SendTask, ReporterInv, TypeOK, Good, Tasks
<1>7. Link'
  BY <1>2, <1>4, <1>5 DEF SendTask, ReporterInv, Link, Good, Single
<1>8. Picture'
  BY <1>5 DEF SendTask, ReporterInv, Picture, Good
<1> QED
  BY <1>6, <1>7, <1>8 DEF ReporterInv

(* The timer starts an attempt; a connection that fails is to be dropped.  *)
LEMMA TimerStep == ReporterInv /\ (RetryTimer \/ ConnectionFails) => ReporterInv'
<1> SUFFICES ASSUME ReporterInv, RetryTimer \/ ConnectionFails PROVE ReporterInv'
  OBVIOUS
<1> USE DEF uiVars, netVars, serverVars
<1>1. /\ Plain("connect") \in Tasks /\ Plain("connect").op = "connect"
      /\ Plain("drop") \in Tasks /\ Plain("drop").op = "drop"
  BY PlainTasks DEF Ops, Kinds
<1>2. (retry => ~socket) /\ {socket, failing, retry} \subseteq BOOLEAN
  BY DEF ReporterInv, TypeOK
<1>3. CASE RetryTimer
  <2>1. ~socket /\ ~Has(queue, "connect") /\ ~Has(queue, "drop") /\ retry' = FALSE
        /\ queue' = Append(queue, Plain("connect"))
    BY <1>2, <1>3 DEF RetryTimer, ReporterInv, Link
  <2>2. Good(queue', toServer, seen, saved) /\ ~Has(queue', "drop")
    BY <1>1, <2>1, GoodQueue, GoodAppend DEF Single, Outbound
  <2>3. TypeOK'
    BY <1>2, <1>3, <2>2 DEF RetryTimer, ReporterInv, TypeOK, Good, Tasks
  <2>4. Link'
    BY <1>3, <2>1, <2>2 DEF RetryTimer, ReporterInv, Link, Good
  <2>5. Picture'
    BY <1>3, <2>2 DEF RetryTimer, ReporterInv, Picture, Good
  <2> QED
    BY <2>3, <2>4, <2>5 DEF ReporterInv
<1>4. CASE ConnectionFails
  <2>1. socket /\ ~Has(queue, "connect") /\ ~Has(queue, "drop") /\ failing' = TRUE
        /\ queue' = Append(queue, Plain("drop"))
    BY <1>4 DEF ConnectionFails, ReporterInv, Link
  <2>2. Good(queue', toServer, seen, saved) /\ ~Has(queue', "connect")
    BY <1>1, <2>1, GoodQueue, GoodAppend DEF Single, Outbound
  <2>3. TypeOK'
    BY <1>2, <1>4, <2>2 DEF ConnectionFails, ReporterInv, TypeOK, Good, Tasks
  <2>4. Link'
    BY <1>4, <2>1, <2>2 DEF ConnectionFails, ReporterInv, Link, Good
  <2>5. Picture'
    BY <1>4, <2>2 DEF ConnectionFails, ReporterInv, Picture, Good
  <2> QED
    BY <2>3, <2>4, <2>5 DEF ReporterInv
<1> QED
  BY <1>3, <1>4

LEMMA ReceiveThreadStep == ReporterInv /\ ReceiveThread => ReporterInv'
<1> SUFFICES ASSUME ReporterInv, ReceiveThread PROVE ReporterInv'
  OBVIOUS
<1> USE DEF tcpVars, uiVars, serverVars
<1> DEFINE t == Task("receive", Head(toClient))
<1>1. /\ socket /\ toClient # << >> /\ toClient \in Seq(Messages)
      /\ toClient' = Tail(toClient) /\ queue' = Append(queue, t)
  BY DEF ReceiveThread, ReporterInv, TypeOK
<1>2. Head(toClient) \in Messages /\ Tail(toClient) \in Seq(Messages)
  BY <1>1, TailParts
<1>3. t \in Tasks /\ t.op = "receive"
  BY <1>2 DEF Task, Tasks, Ops
<1> HIDE DEF t
<1>4. /\ Good(queue', toServer, seen, saved)
      /\ \A op \in Single : Has(queue', op) => Has(queue, op)
  BY <1>1, <1>3, GoodQueue, GoodAppend DEF Single, Outbound
<1>5. TypeOK'
  BY <1>1, <1>2, <1>4 DEF ReceiveThread, ReporterInv, TypeOK, Good, Tasks
<1>6. Link'
  BY <1>1, <1>4 DEF ReceiveThread, ReporterInv, Link, Good, Single
<1>7. Picture'
  BY <1>4 DEF ReceiveThread, ReporterInv, Picture, Good
<1> QED
  BY <1>5, <1>6, <1>7 DEF ReporterInv

(* What the server makes of a message: the seen picture, which is the old  *)
(* one or has learned a version not older than the one it had.             *)
LEMMA ServerSees ==
    ASSUME ReporterInv, Server
    PROVE  /\ socket /\ toServer # << >> /\ toServer' = Tail(toServer)
           /\ toServer' \in Seq(Messages) /\ Head(toServer) \in Messages
           /\ \/ seen' = seen
              \/ /\ Head(toServer).kind = "set" /\ Head(toServer).field \in Fields
                 /\ seen[Head(toServer).field] <= Head(toServer).version
                 /\ Head(toServer).version <= saved[Head(toServer).field]
                 /\ seen' = [seen EXCEPT ![Head(toServer).field] = Head(toServer).version]
                 /\ shown' = shown
<1>1. toServer # << >> /\ toServer' = Tail(toServer)
  BY DEF Server, ServerOpens, ServerAccepts, ServerApplies, Arriving, Take
<1>2. toServer \in Seq(Messages) /\ socket
  BY <1>1 DEF ReporterInv, TypeOK, Link
<1>3. /\ Tail(toServer) \in Seq(Messages) /\ Head(toServer) \in Messages
      /\ Head(toServer) = toServer[1] /\ 1 \in 1..Len(toServer)
  BY <1>1, <1>2, TailParts
<1>4. Fits(Head(toServer), seen, saved)
  BY <1>3 DEF ReporterInv, Picture, Flow
<1>5. \/ seen' = seen
      \/ /\ Head(toServer).kind = "set"
         /\ seen' = [seen EXCEPT ![Head(toServer).field] = Head(toServer).version]
         /\ shown' = shown
  BY DEF Server, ServerOpens, ServerAccepts, ServerApplies, serverVars
<1> QED
  BY <1>1, <1>2, <1>3, <1>4, <1>5 DEF Fits

LEMMA ServerStep == ReporterInv /\ Server => ReporterInv'
<1> SUFFICES ASSUME ReporterInv, Server PROVE ReporterInv'
  OBVIOUS
<1> USE DEF tcpVars, uiVars, serverVars
<1> DEFINE m == Head(toServer)
<1>1. /\ socket /\ toServer # << >> /\ toServer' = Tail(toServer)
      /\ toServer' \in Seq(Messages) /\ m \in Messages
      /\ \/ seen' = seen
         \/ /\ m.kind = "set" /\ m.field \in Fields
            /\ seen[m.field] <= m.version /\ m.version <= saved[m.field]
            /\ seen' = [seen EXCEPT ![m.field] = m.version]
  BY ServerSees
<1>2. UNCHANGED <<queue, tcpVars, websocket, registered, uiVars, full>>
  BY DEF Server, ServerOpens, ServerAccepts, ServerApplies, Take
<1>3. /\ Good(queue, toServer, seen, saved) /\ seen \in Pictures /\ saved \in Pictures
      /\ \A f \in Fields : seen[f] <= saved[f]
  BY GoodQueue
<1>4. toServer \in Seq(Messages)
  BY DEF ReporterInv, TypeOK
<1>5. /\ seen' \in Pictures
      /\ \A f \in Fields : seen'[f] <= saved[f]
  <2> HIDE DEF m
  <2>1. m.version \in Versions \cup {0}
    BY <1>1 DEF Messages
  <2> QED
    BY <1>1, <1>3, <2>1 DEF Pictures
<1>6. Flow(queue', toServer', seen', saved')
  BY <1>1, <1>2, <1>3, <1>4, TakeFlow DEF Good
<1>7. toClient' \in Seq(Messages)
  <2>1. Msg("opened") \in Messages /\ Msg("success") \in Messages
    BY PlainTasks DEF Kinds, Ops
  <2>2. toClient \in Seq(Messages)
    BY DEF ReporterInv, TypeOK
  <2>3. Append(toClient, Msg("opened")) \in Seq(Messages)
        /\ Append(toClient, Msg("success")) \in Seq(Messages)
    BY <2>1, <2>2, AppendProperties
  <2> QED
    BY <2>2, <2>3 DEF Server, ServerOpens, ServerAccepts, ServerApplies
<1>8. session' \in BOOLEAN /\ shown' \in BOOLEAN
  BY DEF Server, ServerOpens, ServerAccepts, ServerApplies, ReporterInv, TypeOK
<1>9. TypeOK'
  BY <1>1, <1>2, <1>5, <1>7, <1>8 DEF ReporterInv, TypeOK, Pictures
<1>10. Link'
  BY <1>1, <1>2 DEF ReporterInv, Link
<1>11. Picture'
  BY <1>2, <1>5, <1>6 DEF ReporterInv, Picture
<1> QED
  BY <1>9, <1>10, <1>11 DEF ReporterInv

-----------------------------------------------------------------------------
LEMMA ReporterInvStep == ReporterInv /\ [Next]_vars => ReporterInv'
<1>1. ReporterInv /\ Next => ReporterInv'
  BY RegisterStep, ChangeStep, HideShowStep, ConnectStep, OnConnectStep, TakenStep,
     ReceiveStep, DropStep, SuccessStep, EmitStep, SendStep, TimerStep,
     ReceiveThreadStep, ServerStep DEF Next, Worker
<1>2. ReporterInv /\ UNCHANGED vars => ReporterInv'
  BY DEF ReporterInv, TypeOK, Link, Picture, vars, tcpVars, uiVars, netVars, serverVars
<1> QED
  BY <1>1, <1>2

(* Everything below follows from this: there is one attempt to connect at  *)
(* most, and what is on its way to the server is in order.                 *)
THEOREM ReporterInductive == SafeSpec => []ReporterInv
  BY InitReporterInv, ReporterInvStep, PTL DEF SafeSpec

(* Every variable keeps its type; a session needs a connection, and the    *)
(* retry timer never runs beside one.                                      *)
THEOREM ReporterTypes == SafeSpec => []TypeOK
<1>1. ReporterInv => TypeOK
  BY DEF ReporterInv
<1> QED
  BY <1>1, ReporterInductive, PTL

-----------------------------------------------------------------------------
(* The refinement of StationView.                                          *)

LEMMA ViewInit == Init => View!Init
  BY DEF Init, View!Init, View!Blank, Blank

(* What the user does, the station does.                                   *)
LEMMA ViewCalls ==
    ASSUME ReporterInv,
           HideFromView \/ ShowOurselves \/ \E f \in Fields : Change(f)
    PROVE  View!Next
<1>1. ASSUME NEW f \in Fields, Change(f) PROVE View!Edit(f)
  <2>1. saved' = [saved EXCEPT ![f] = edits + 2] /\ saved \in [Fields -> Versions]
    BY <1>1, GoodQueue DEF Change
  <2>2. saved'[f] = edits + 2
    BY <2>1
  <2>3. edits \in Nat /\ saved[f] \in Nat /\ saved[f] <= edits + 1
    BY GoodQueue, MaxEditsIsNat DEF ReporterInv, TypeOK, Versions
  <2>4. saved'[f] \in Nat /\ saved'[f] > saved[f]
    BY <2>2, <2>3
  <2> QED
    BY <1>1, <2>1, <2>2, <2>4 DEF Change, Call, View!Edit, serverVars
<1>2. HideFromView => View!Hide
  BY DEF HideFromView, Call, View!Hide, serverVars
<1>3. ShowOurselves => View!Show
  BY DEF ShowOurselves, Call, View!Show, serverVars
<1> QED
  BY <1>1, <1>2, <1>3 DEF View!Next

(* A dropped connection is a new session.                                  *)
LEMMA ViewDrop == Drop => View!Next
  BY DEF Drop, Blank, uiVars, View!Next, View!NewSession, View!Blank

(* The server learns one thing at a time.                                  *)
LEMMA ViewServer ==
    ASSUME ReporterInv, Server
    PROVE  View!Next \/ UNCHANGED View!vars
<1> DEFINE m == Head(toServer)
<1>1. \/ seen' = seen
      \/ /\ m.kind = "set" /\ m.field \in Fields
         /\ seen[m.field] <= m.version /\ m.version <= saved[m.field]
         /\ seen' = [seen EXCEPT ![m.field] = m.version]
         /\ shown' = shown
  BY ServerSees
<1>2. saved' = saved /\ hidden' = hidden
  BY DEF Server, ServerOpens, ServerAccepts, ServerApplies, Take, uiVars
<1>3. CASE seen' = seen
  <2>1. shown' \in {shown, TRUE, FALSE}
    BY DEF Server, ServerOpens, ServerAccepts, ServerApplies, serverVars
  <2> QED
    BY <1>2, <1>3, <2>1 DEF View!Next, View!LearnHidden, View!LearnShown, View!vars
<1>4. CASE /\ m.kind = "set" /\ m.field \in Fields
           /\ seen[m.field] <= m.version /\ m.version <= saved[m.field]
           /\ seen' = [seen EXCEPT ![m.field] = m.version]
           /\ shown' = shown
  <2> HIDE DEF m
  <2>1. m.version \in Nat /\ seen[m.field] \in Nat /\ saved[m.field] \in Nat
    <3>1. m \in Messages
      BY ServerSees DEF m
    <3> QED
      BY <1>4, <3>1, GoodQueue, MaxEditsIsNat DEF Messages, Versions, Pictures
  <2>2. m.version \in seen[m.field]..saved[m.field]
    BY <1>4, <2>1
  <2>3. View!Learn(m.field)
    BY <1>2, <1>4, <2>2 DEF View!Learn
  <2> QED
    BY <1>4, <2>3 DEF View!Next
<1> QED
  BY <1>1, <1>3, <1>4

(* All that remains is between the two.                                    *)
LEMMA ViewStep == ReporterInv /\ [Next]_vars => [View!Next]_View!vars
<1> SUFFICES ASSUME ReporterInv, [Next]_vars PROVE View!Next \/ UNCHANGED View!vars
  OBVIOUS
<1>1. CASE HideFromView \/ ShowOurselves \/ \E f \in Fields : Change(f)
  BY <1>1, ViewCalls
<1>2. CASE Drop
  BY <1>2, ViewDrop
<1>3. CASE Server
  BY <1>3, ViewServer
<1>4. CASE Register \/ RetryTimer \/ ReceiveThread \/ ConnectionFails \/ UNCHANGED vars
  BY <1>4 DEF Register, RetryTimer, ReceiveThread, ConnectionFails, vars, uiVars,
              serverVars, View!vars
<1>5. CASE \/ ConnectSucceeds \/ ConnectFails \/ OnConnect \/ RegisterHandlers \/ Receive
           \/ EventUnheard \/ ConnectionSuccessful \/ EmitTask \/ SendTask
  BY <1>5 DEF ConnectSucceeds, ConnectFails, OnConnect, RegisterHandlers, Receive,
              EventUnheard, ConnectionSuccessful, EmitTask, SendTask, uiVars,
              serverVars, View!vars
<1> QED
  BY <1>1, <1>2, <1>3, <1>4, <1>5 DEF Next, Worker

(* The server's picture starts empty with every connection and from then   *)
(* on only moves towards what the station wants: no report overtakes a     *)
(* later one in the two passes through the queue, none of an earlier       *)
(* connection is replayed, and none is invented.                           *)
THEOREM ReporterRefinement == SafeSpec => ImplementsView
<1>1. SafeSpec => View!Init
  BY ViewInit DEF SafeSpec
<1>2. SafeSpec => [][View!Next]_View!vars
  BY ReporterInductive, ViewStep, PTL DEF SafeSpec
<1> QED
  BY <1>1, <1>2, PTL DEF ImplementsView, View!Spec

-----------------------------------------------------------------------------
(* Convergence.  A message of the set bad undoes one of the set good: the  *)
(* two may be "hide" and "show", or reports of stale versions of a field   *)
(* and those of the current one.                                           *)

(* Behind every bad message that is to be emitted, beyond place n, there   *)
(* is a good one.                                                          *)
Settles(q, n, good, bad) ==
    \A i \in 1..Len(q) : i > n /\ q[i].op = "emit" /\ q[i].msg \in bad =>
        \E j \in 1..Len(q) : j > i /\ q[j].op = "emit" /\ q[j].msg \in good

Waits(q, op, good) == \E j \in 1..Len(q) : q[j].op = op /\ q[j].msg \in good
Travels(ts, good) == \E j \in 1..Len(ts) : ts[j] \in good

(* What the server ends up with, once all messages have reached it, is     *)
(* good: it is so now or a good one is under way, and none is undone.      *)
Delivers(q, ts, now, good, bad) ==
    /\ Settles(q, 0, good, bad)
    /\ \A i \in 1..Len(q) : q[i].op = "send" /\ q[i].msg \in bad =>
          \/ \E j \in 1..Len(q) : j > i /\ q[j].op = "send" /\ q[j].msg \in good
          \/ Waits(q, "emit", good)
    /\ \A i \in 1..Len(ts) : ts[i] \in bad =>
          \/ \E j \in 1..Len(ts) : j > i /\ ts[j] \in good
          \/ Waits(q, "send", good)
          \/ Waits(q, "emit", good)
    /\ now \/ Travels(ts, good) \/ Waits(q, "send", good) \/ Waits(q, "emit", good)

(* Tasks that undo nothing.                                                *)
Harmless(s, bad) ==
    \A i \in 1..Len(s) : s[i].op \in Outbound => s[i].msg \notin bad

LEMMA SettlesTail ==
    ASSUME NEW q \in Seq(Tasks), q # << >>, NEW good, NEW bad,
           NEW n \in Nat, NEW m \in Nat, n <= m + 1, Settles(q, n, good, bad)
    PROVE  Settles(Tail(q), m, good, bad)
<1> DEFINE r == Tail(q)
<1>1. /\ Len(q) \in Nat /\ Len(r) = Len(q) - 1
      /\ \A i \in 1..Len(r) : i + 1 \in 1..Len(q) /\ r[i] = q[i + 1]
  BY TailParts
<1> HIDE DEF r
<1> SUFFICES ASSUME NEW i \in 1..Len(r), i > m, r[i].op = "emit", r[i].msg \in bad
             PROVE  \E j \in 1..Len(r) : j > i /\ r[j].op = "emit" /\ r[j].msg \in good
  BY DEF Settles, r
<1>2. i + 1 \in 1..Len(q) /\ i + 1 > n
  BY <1>1
<1>3. PICK j \in 1..Len(q) : j > i + 1 /\ q[j].op = "emit" /\ q[j].msg \in good
  BY <1>1, <1>2 DEF Settles
<1>4. j - 1 \in 1..Len(r) /\ (j - 1) + 1 = j /\ j - 1 > i
  BY <1>1, <1>3
<1>5. r[j - 1] = q[j]
  BY <1>1, <1>4
<1> QED
  BY <1>3, <1>4, <1>5

LEMMA SettlesConcat ==
    ASSUME NEW q \in Seq(Tasks), NEW s \in Seq(Tasks), NEW good, NEW bad, NEW n \in Nat,
           Harmless(s, bad),
           Settles(q, n, good, bad) \/ Waits(s, "emit", good)
    PROVE  Settles(q \o s, n, good, bad)
<1> DEFINE r == q \o s
<1>1. /\ Len(q) \in Nat /\ Len(s) \in Nat /\ Len(r) = Len(q) + Len(s)
      /\ \A i \in 1..Len(q) : i \in 1..Len(r) /\ r[i] = q[i]
      /\ \A i \in 1..Len(r) :
           \/ i \in 1..Len(q) /\ r[i] = q[i]
           \/ i > Len(q) /\ i - Len(q) \in 1..Len(s) /\ r[i] = s[i - Len(q)]
  BY ConcatParts
<1>2. \A k \in 1..Len(s) : Len(q) + k \in 1..Len(r) /\ r[Len(q) + k] = s[k]
  BY <1>1, ConcatProperties
<1> HIDE DEF r
<1> SUFFICES ASSUME NEW i \in 1..Len(r), i > n, r[i].op = "emit", r[i].msg \in bad
             PROVE  \E j \in 1..Len(r) : j > i /\ r[j].op = "emit" /\ r[j].msg \in good
  BY DEF Settles, r
<1>3. i \in 1..Len(q) /\ r[i] = q[i]
  BY <1>1 DEF Harmless, Outbound
<1>4. CASE Settles(q, n, good, bad)
  BY <1>1, <1>3, <1>4 DEF Settles
<1>5. CASE Waits(s, "emit", good)
  <2> PICK k \in 1..Len(s) : s[k].op = "emit" /\ s[k].msg \in good
    BY <1>5 DEF Waits
  <2>1. Len(q) + k \in 1..Len(r) /\ Len(q) + k > i /\ r[Len(q) + k] = s[k]
    BY <1>1, <1>2, <1>3
  <2> QED
    BY <2>1
<1> QED
  BY <1>4, <1>5

LEMMA WaitsTail ==
    ASSUME NEW q \in Seq(Tasks), q # << >>, NEW op, NEW good
    PROVE  Waits(q, op, good)
              <=> \/ Head(q).op = op /\ Head(q).msg \in good
                  \/ Waits(Tail(q), op, good)
<1> DEFINE r == Tail(q)
<1>1. /\ Len(q) \in Nat /\ Len(r) = Len(q) - 1 /\ Head(q) = q[1] /\ 1 \in 1..Len(q)
      /\ \A i \in 1..Len(r) : i + 1 \in 1..Len(q) /\ r[i] = q[i + 1]
  BY TailParts
<1> HIDE DEF r
<1>2. ASSUME NEW j \in 1..Len(q), j # 1
      PROVE  j - 1 \in 1..Len(r) /\ r[j - 1] = q[j]
  <2>1. j - 1 \in 1..Len(r) /\ (j - 1) + 1 = j
    BY <1>1, <1>2
  <2> QED
    BY <1>1, <2>1
<1>3. Waits(q, op, good) => (Head(q).op = op /\ Head(q).msg \in good) \/ Waits(r, op, good)
  BY <1>1, <1>2 DEF Waits
<1>4. (Head(q).op = op /\ Head(q).msg \in good) \/ Waits(r, op, good) => Waits(q, op, good)
  BY <1>1 DEF Waits
<1> QED
  BY <1>3, <1>4 DEF r

LEMMA WaitsConcat ==
    ASSUME NEW q \in Seq(Tasks), NEW s \in Seq(Tasks), NEW op, NEW good
    PROVE  Waits(q \o s, op, good) <=> Waits(q, op, good) \/ Waits(s, op, good)
<1> DEFINE r == q \o s
<1>1. /\ Len(q) \in Nat /\ Len(s) \in Nat /\ Len(r) = Len(q) + Len(s)
      /\ \A i \in 1..Len(q) : i \in 1..Len(r) /\ r[i] = q[i]
      /\ \A i \in 1..Len(r) :
           \/ i \in 1..Len(q) /\ r[i] = q[i]
           \/ i > Len(q) /\ i - Len(q) \in 1..Len(s) /\ r[i] = s[i - Len(q)]
  BY ConcatParts
<1>2. \A k \in 1..Len(s) : Len(q) + k \in 1..Len(r) /\ r[Len(q) + k] = s[k]
  BY <1>1, ConcatProperties
<1> HIDE DEF r
<1> QED
  BY <1>1, <1>2 DEF Waits, r

(* A task that carries nothing to the server is taken.                     *)
LEMMA TailDelivers ==
    ASSUME NEW q \in Seq(Tasks), q # << >>, Head(q).op \notin Outbound,
           NEW ts, NEW now, NEW good, NEW bad, Delivers(q, ts, now, good, bad)
    PROVE  Delivers(Tail(q), ts, now, good, bad)
<1> DEFINE r == Tail(q)
<1>1. /\ Len(q) \in Nat /\ Len(r) = Len(q) - 1
      /\ \A i \in 1..Len(r) : i + 1 \in 1..Len(q) /\ r[i] = q[i + 1]
  BY TailParts
<1>2. Settles(r, 0, good, bad)
  BY SettlesTail DEF Delivers
<1>3. \A op \in Outbound : Waits(q, op, good) => Waits(r, op, good)
  BY WaitsTail
<1> HIDE DEF r
<1>4. ASSUME NEW i \in 1..Len(r), r[i].op = "send", r[i].msg \in bad
      PROVE  \/ \E j \in 1..Len(r) : j > i /\ r[j].op = "send" /\ r[j].msg \in good
             \/ Waits(r, "emit", good)
  <2>1. \/ \E j \in 1..Len(q) : j > i + 1 /\ q[j].op = "send" /\ q[j].msg \in good
        \/ Waits(q, "emit", good)
    BY <1>1, <1>4 DEF Delivers
  <2>2. ASSUME NEW j \in 1..Len(q), j > i + 1
        PROVE  j - 1 \in 1..Len(r) /\ j - 1 > i /\ r[j - 1] = q[j]
    <3>1. j - 1 \in 1..Len(r) /\ j - 1 > i /\ (j - 1) + 1 = j
      BY <1>1, <2>2
    <3> QED
      BY <1>1, <3>1
  <2> QED
    BY <1>3, <2>1, <2>2 DEF Outbound
<1> QED
  BY <1>2, <1>3, <1>4 DEF Delivers, Outbound, r

(* Tasks that undo nothing are added.  If one of them emits a good message *)
(* the server ends up with it whatever there was before.                   *)
LEMMA ConcatDelivers ==
    ASSUME NEW q \in Seq(Tasks), NEW s \in Seq(Tasks), NEW ts, NEW now, NEW good, NEW bad,
           Harmless(s, bad),
           Delivers(q, ts, now, good, bad) \/ Waits(s, "emit", good)
    PROVE  Delivers(q \o s, ts, now, good, bad)
<1> DEFINE r == q \o s
<1>1. /\ Len(q) \in Nat
      /\ \A i \in 1..Len(q) : i \in 1..Len(r) /\ r[i] = q[i]
      /\ \A i \in 1..Len(r) :
           \/ i \in 1..Len(q) /\ r[i] = q[i]
           \/ i > Len(q) /\ i - Len(q) \in 1..Len(s) /\ r[i] = s[i - Len(q)]
  BY ConcatParts
<1>2. Settles(r, 0, good, bad)
  BY SettlesConcat DEF Delivers
<1>3. \A op \in Outbound : Waits(r, op, good) <=> Waits(q, op, good) \/ Waits(s, op, good)
  BY WaitsConcat
<1> HIDE DEF r
<1>4. CASE Waits(s, "emit", good)
  BY <1>2, <1>3, <1>4 DEF Delivers, Outbound, r
<1>5. CASE Delivers(q, ts, now, good, bad)
  <2>1. ASSUME NEW i \in 1..Len(r), r[i].op = "send", r[i].msg \in bad
        PROVE  \/ \E j \in 1..Len(r) : j > i /\ r[j].op = "send" /\ r[j].msg \in good
               \/ Waits(r, "emit", good)
    <3>1. i \in 1..Len(q) /\ r[i] = q[i]
      BY <1>1, <2>1 DEF Harmless, Outbound
    <3>2. \/ \E j \in 1..Len(q) : j > i /\ q[j].op = "send" /\ q[j].msg \in good
          \/ Waits(q, "emit", good)
      BY <1>5, <2>1, <3>1 DEF Delivers
    <3> QED
      BY <1>1, <1>3, <3>2 DEF Outbound
  <2> QED
    BY <1>2, <1>3, <1>5, <2>1 DEF Delivers, Outbound, r
<1> QED
  BY <1>4, <1>5

(* Nothing but tasks to be emitted can undo what the server has.           *)
LEMMA QuietDelivers ==
    ASSUME NEW q, NEW ts, NEW now, NEW good, NEW bad, now, Settles(q, 0, good, bad),
           \A i \in 1..Len(q) : q[i].op = "send" => q[i].msg \notin bad,
           \A i \in 1..Len(ts) : ts[i] \notin bad
    PROVE  Delivers(q, ts, now, good, bad)
  BY DEF Delivers

(* The first "emit" becomes the last "send".                               *)
LEMMA EmitDelivers ==
    ASSUME NEW q \in Seq(Tasks), q # << >>, Head(q).op = "emit",
           NEW ts, NEW now, NEW good, NEW bad, Delivers(q, ts, now, good, bad)
    PROVE  Delivers(Append(Tail(q), Task("send", Head(q).msg)), ts, now, good, bad)
<1> DEFINE p == Tail(q)
           t == Task("send", Head(q).msg)
           s == <<t>>
           r == p \o s
<1>1. /\ Len(q) \in Nat /\ Len(p) = Len(q) - 1 /\ Head(q) = q[1] /\ 1 \in 1..Len(q)
      /\ \A i \in 1..Len(p) : i + 1 \in 1..Len(q) /\ p[i] = q[i + 1]
      /\ p \in Seq(Tasks) /\ Head(q) \in Tasks
  BY TailParts
<1>2. t \in Tasks /\ t.op = "send" /\ t.msg = q[1].msg /\ q[1].op = "emit"
  BY <1>1 DEF Task, Tasks, Ops
<1> HIDE DEF p, t
<1>3. /\ s \in Seq(Tasks) /\ Len(s) = 1 /\ s[1] = t /\ Append(p, t) = r
  BY <1>1, <1>2, OneTask
<1> HIDE DEF s
<1>4. /\ Len(p) \in Nat /\ Len(r) = Len(p) + 1
      /\ \A i \in 1..Len(p) : i \in 1..Len(r) /\ r[i] = p[i]
      /\ \A i \in 1..Len(r) :
           \/ i \in 1..Len(p) /\ r[i] = p[i]
           \/ i > Len(p) /\ i - Len(p) \in 1..Len(s) /\ r[i] = s[i - Len(p)]
  BY <1>1, <1>3, ConcatParts
<1>5. /\ Len(r) \in 1..Len(r) /\ r[Len(r)] = t
      /\ \A i \in 1..Len(r) : i = Len(r) \/ (i \in 1..Len(p) /\ r[i] = p[i])
  BY <1>3, <1>4
<1>6. /\ Waits(s, "emit", good) = FALSE
      /\ Waits(s, "send", good) <=> t.msg \in good
  BY <1>2, <1>3 DEF Waits
<1>7. /\ Waits(r, "emit", good) <=> Waits(p, "emit", good)
      /\ Waits(r, "send", good) <=> Waits(p, "send", good) \/ t.msg \in good
  BY <1>1, <1>3, <1>6, WaitsConcat
<1>8. /\ Waits(q, "emit", good) <=> t.msg \in good \/ Waits(p, "emit", good)
      /\ Waits(q, "send", good) <=> Waits(p, "send", good)
  BY <1>1, <1>2, WaitsTail DEF p
<1>9. Settles(r, 0, good, bad)
  <2>1. Settles(p, 0, good, bad)
    BY SettlesTail DEF Delivers, p
  <2> HIDE DEF r
  <2>2. ASSUME NEW i \in 1..Len(r), i > 0, r[i].op = "emit", r[i].msg \in bad
        PROVE  \E j \in 1..Len(r) : j > i /\ r[j].op = "emit" /\ r[j].msg \in good
    <3>1. i \in 1..Len(p) /\ r[i] = p[i]
      BY <1>2, <1>5, <2>2
    <3> QED
      BY <1>4, <2>1, <2>2, <3>1 DEF Settles
  <2> QED
    BY <2>2 DEF Settles
<1> HIDE DEF r
<1>10. ASSUME NEW i \in 1..Len(r), r[i].op = "send", r[i].msg \in bad
       PROVE  \/ \E j \in 1..Len(r) : j > i /\ r[j].op = "send" /\ r[j].msg \in good
              \/ Waits(r, "emit", good)
  <2>1. CASE i = Len(r)
    <3>1. q[1].msg \in bad
      BY <1>2, <1>5, <1>10, <2>1
    <3>2. PICK j \in 1..Len(q) : j > 1 /\ q[j].op = "emit" /\ q[j].msg \in good
      BY <1>1, <1>2, <3>1 DEF Delivers, Settles
    <3>3. j - 1 \in 1..Len(p) /\ (j - 1) + 1 = j
      BY <1>1, <3>2
    <3>4. p[j - 1] = q[j]
      BY <1>1, <3>3
    <3>5. Waits(p, "emit", good)
      BY <3>2, <3>3, <3>4 DEF Waits
    <3> QED
      BY <1>7, <3>5
  <2>2. CASE i \in 1..Len(p) /\ r[i] = p[i]
    <3>1. i + 1 \in 1..Len(q) /\ q[i + 1].op = "send" /\ q[i + 1].msg \in bad
      BY <1>1, <1>10, <2>2
    <3>2. \/ \E j \in 1..Len(q) : j > i + 1 /\ q[j].op = "send" /\ q[j].msg \in good
          \/ Waits(q, "emit", good)
      BY <3>1 DEF Delivers
    <3>3. CASE Waits(q, "emit", good)
      <4>1. t.msg \in good \/ Waits(r, "emit", good)
        BY <1>7, <1>8, <3>3
      <4>2. Len(r) > i
        BY <1>4, <2>2
      <4> QED
        BY <1>2, <1>5, <4>1, <4>2
    <3>4. CASE \E j \in 1..Len(q) : j > i + 1 /\ q[j].op = "send" /\ q[j].msg \in good
      <4> PICK j \in 1..Len(q) : j > i + 1 /\ q[j].op = "send" /\ q[j].msg \in good
        BY <3>4
      <4>1. j - 1 \in 1..Len(p) /\ (j - 1) + 1 = j /\ j - 1 > i
        BY <1>1, <2>2
      <4>2. j - 1 \in 1..Len(r) /\ r[j - 1] = q[j]
        BY <1>1, <1>4, <4>1
      <4> QED
        BY <4>1, <4>2
    <3> QED
      BY <3>2, <3>3, <3>4
  <2> QED
    BY <1>5, <2>1, <2>2
<1>11. Delivers(r, ts, now, good, bad)
  BY <1>7, <1>8, <1>9, <1>10 DEF Delivers
<1> QED
  BY <1>3, <1>11 DEF p, t, s

(* The first "send" is put on its way.                                     *)
LEMMA SendDelivers ==
    ASSUME NEW q \in Seq(Tasks), q # << >>, Head(q).op = "send",
           NEW ts \in Seq(Messages), NEW now, NEW good, NEW bad,
           Delivers(q, ts, now, good, bad)
    PROVE  Delivers(Tail(q), Append(ts, Head(q).msg), now, good, bad)
<1> DEFINE r == Tail(q)
           m == Head(q).msg
           us == Append(ts, m)
<1>1. /\ Len(q) \in Nat /\ Len(r) = Len(q) - 1 /\ Head(q) = q[1] /\ 1 \in 1..Len(q)
      /\ \A i \in 1..Len(r) : i + 1 \in 1..Len(q) /\ r[i] = q[i + 1]
      /\ Head(q) \in Tasks
  BY TailParts
<1>2. m = q[1].msg /\ q[1].op = "send" /\ m \in Messages
  BY <1>1 DEF Tasks
<1>3. Settles(r, 0, good, bad)
  BY SettlesTail DEF Delivers
<1>4. /\ Waits(q, "emit", good) <=> Waits(r, "emit", good)
      /\ Waits(q, "send", good) <=> m \in good \/ Waits(r, "send", good)
  BY WaitsTail
<1> HIDE DEF r, m
<1>5. /\ Len(ts) \in Nat /\ Len(us) = Len(ts) + 1 /\ us[Len(us)] = m
      /\ \A i \in 1..Len(ts) : us[i] = ts[i]
  BY <1>2, AppendProperties, LenProperties
<1> HIDE DEF us
<1>6. /\ Len(us) \in 1..Len(us)
      /\ \A i \in 1..Len(ts) : i \in 1..Len(us) /\ i < Len(us)
      /\ \A i \in 1..Len(us) : i = Len(us) \/ i \in 1..Len(ts)
  BY <1>5
<1>7. ASSUME NEW j \in 1..Len(q), j # 1
      PROVE  j - 1 \in 1..Len(r) /\ r[j - 1] = q[j]
  <2>1. j - 1 \in 1..Len(r) /\ (j - 1) + 1 = j
    BY <1>1, <1>7
  <2> QED
    BY <1>1, <2>1
<1>8. ASSUME NEW i \in 1..Len(r), r[i].op = "send", r[i].msg \in bad
      PROVE  \/ \E j \in 1..Len(r) : j > i /\ r[j].op = "send" /\ r[j].msg \in good
             \/ Waits(r, "emit", good)
  <2>1. i + 1 \in 1..Len(q) /\ q[i + 1].op = "send" /\ q[i + 1].msg \in bad
    BY <1>1, <1>8
  <2>2. \/ \E j \in 1..Len(q) : j > i + 1 /\ q[j].op = "send" /\ q[j].msg \in good
        \/ Waits(q, "emit", good)
    BY <2>1 DEF Delivers
  <2>3. ASSUME NEW j \in 1..Len(q), j > i + 1 PROVE j # 1 /\ j - 1 > i
    BY <2>3
  <2> QED
    BY <1>4, <1>7, <2>2, <2>3
<1>9. ASSUME NEW i \in 1..Len(us), us[i] \in bad
      PROVE  \/ \E j \in 1..Len(us) : j > i /\ us[j] \in good
             \/ Waits(r, "send", good)
             \/ Waits(r, "emit", good)
  <2>1. CASE i = Len(us)
    <3>1. q[1].msg \in bad
      BY <1>2, <1>5, <1>9, <2>1
    <3>2. \/ \E j \in 1..Len(q) : j > 1 /\ q[j].op = "send" /\ q[j].msg \in good
          \/ Waits(q, "emit", good)
      BY <1>1, <1>2, <3>1 DEF Delivers
    <3>3. ASSUME NEW j \in 1..Len(q), j > 1, q[j].op = "send", q[j].msg \in good
          PROVE  Waits(r, "send", good)
      <4>1. j - 1 \in 1..Len(r) /\ r[j - 1] = q[j]
        BY <1>7, <3>3
      <4> QED
        BY <3>3, <4>1 DEF Waits
    <3> QED
      BY <1>4, <3>2, <3>3
  <2>2. CASE i \in 1..Len(ts)
    <3>1. ts[i] \in bad
      BY <1>5, <1>9, <2>2
    <3>2. \/ \E j \in 1..Len(ts) : j > i /\ ts[j] \in good
          \/ Waits(q, "send", good)
          \/ Waits(q, "emit", good)
      BY <2>2, <3>1 DEF Delivers
    <3>3. m \in good => Len(us) > i /\ us[Len(us)] \in good
      BY <1>5, <2>2
    <3> QED
      BY <1>4, <1>5, <1>6, <3>2, <3>3
  <2> QED
    BY <1>6, <2>1, <2>2
<1>10. now \/ Travels(us, good) \/ Waits(r, "send", good) \/ Waits(r, "emit", good)
  <2>1. now \/ Travels(ts, good) \/ Waits(q, "send", good) \/ Waits(q, "emit", good)
    BY DEF Delivers
  <2>2. (Travels(ts, good) => Travels(us, good)) /\ (m \in good => Travels(us, good))
    BY <1>5, <1>6 DEF Travels
  <2> QED
    BY <1>4, <2>1, <2>2
<1> QED
  BY <1>3, <1>8, <1>9, <1>10 DEF Delivers, r, us, m

(* The server has taken the first message.                                 *)
LEMMA TakeDelivers ==
    ASSUME NEW q, NEW ts \in Seq(Messages), ts # << >>, NEW now, NEW good, NEW bad,
           Delivers(q, ts, now, good, bad), NEW now1,
           Head(ts) \in bad \/ (now => now1), Head(ts) \in good => now1
    PROVE  Delivers(q, Tail(ts), now1, good, bad)
<1> DEFINE us == Tail(ts)
<1>1. /\ Len(ts) \in Nat /\ Len(us) = Len(ts) - 1 /\ Head(ts) = ts[1] /\ 1 \in 1..Len(ts)
      /\ \A i \in 1..Len(us) : i + 1 \in 1..Len(ts) /\ us[i] = ts[i + 1]
  BY TailParts
<1> HIDE DEF us
<1>2. ASSUME NEW j \in 1..Len(ts), j # 1
      PROVE  j - 1 \in 1..Len(us) /\ us[j - 1] = ts[j]
  <2>1. j - 1 \in 1..Len(us) /\ (j - 1) + 1 = j
    BY <1>1, <1>2
  <2> QED
    BY <1>1, <2>1
<1>3. ASSUME NEW i \in 1..Len(us), us[i] \in bad
      PROVE  \/ \E j \in 1..Len(us) : j > i /\ us[j] \in good
             \/ Waits(q, "send", good)
             \/ Waits(q, "emit", good)
  <2>1. i + 1 \in 1..Len(ts) /\ ts[i + 1] \in bad
    BY <1>1, <1>3
  <2>2. \/ \E j \in 1..Len(ts) : j > i + 1 /\ ts[j] \in good
        \/ Waits(q, "send", good)
        \/ Waits(q, "emit", good)
    BY <2>1 DEF Delivers
  <2>3. ASSUME NEW j \in 1..Len(ts), j > i + 1 PROVE j # 1 /\ j - 1 > i
    BY <2>3
  <2> QED
    BY <1>2, <2>2, <2>3
<1>4. now1 \/ Travels(us, good) \/ Waits(q, "send", good) \/ Waits(q, "emit", good)
  <2>1. CASE ts[1] \in bad
    <3>1. \/ \E j \in 1..Len(ts) : j > 1 /\ ts[j] \in good
          \/ Waits(q, "send", good)
          \/ Waits(q, "emit", good)
      BY <1>1, <2>1 DEF Delivers
    <3> QED
      BY <1>2, <3>1 DEF Travels
  <2>2. CASE ts[1] \notin bad
    <3>1. now \/ Travels(ts, good) \/ Waits(q, "send", good) \/ Waits(q, "emit", good)
      BY DEF Delivers
    <3>2. now => now1
      BY <1>1, <2>2
    <3>3. Travels(ts, good) => now1 \/ Travels(us, good)
      BY <1>1, <1>2 DEF Travels
    <3> QED
      BY <3>1, <3>2, <3>3
  <2> QED
    BY <2>1, <2>2
<1> QED
  BY <1>3, <1>4 DEF Delivers, us

-----------------------------------------------------------------------------
(* What of an earlier connection may be in the queue of the next one.      *)

Late == {"send", "receive", "event", "onConnect"}

(* Behind the attempt to connect there is nothing of a connection; reports *)
(* only if a late event has made the client believe that it is connected.  *)
Lingering(q, fl) ==
    \A i, j \in 1..Len(q) : q[i].op = "connect" /\ i < j =>
        q[j].op \notin Late /\ (q[j].op = "emit" => fl)

(* A connection is taken up once, and before it is dropped.                *)
Before(q) ==
    \A i, j \in 1..Len(q) : q[i].op = "onConnect" /\ q[j].op = "drop" => i < j

Phase(q, fl) == Lingering(q, fl) /\ Before(q) /\ Once(q, "onConnect")

Without(q, ops) == \A i \in 1..Len(q) : q[i].op \notin ops
Sends(q, msgs) == \A i \in 1..Len(q) : q[i].op = "send" => q[i].msg \in msgs
Carries(ts, msgs) == \A i \in 1..Len(ts) : ts[i] \in msgs

Only(kind) == {m \in Messages : m.kind = kind}
Unreporting == {m \in Messages : m.kind \notin {"set", "hide", "show"}}

LEMMA TailPhase ==
    ASSUME NEW q \in Seq(Tasks), q # << >>, NEW fl, Phase(q, fl)
    PROVE  /\ Phase(Tail(q), fl)
           /\ \A op : Has(Tail(q), op) => Has(q, op)
           /\ \A ops : Without(q, ops) => Without(Tail(q), ops) /\ Head(q).op \notin ops
           /\ \A msgs : Sends(q, msgs) => Sends(Tail(q), msgs)
           /\ Head(q).op = "connect" =>
                 Without(Tail(q), Late) /\ (Without(Tail(q), {"emit"}) \/ fl)
           /\ Head(q).op = "drop" => ~Has(Tail(q), "onConnect")
           /\ Head(q).op = "onConnect" => Has(q, "onConnect") /\ ~Has(Tail(q), "onConnect")
<1> DEFINE r == Tail(q)
<1>1. /\ Len(q) \in Nat /\ Len(r) = Len(q) - 1 /\ Head(q) = q[1] /\ 1 \in 1..Len(q)
      /\ \A i \in 1..Len(r) : i + 1 \in 1..Len(q) /\ r[i] = q[i + 1] /\ 1 < i + 1
  BY TailParts
<1>2. Once(r, "onConnect") /\ (Head(q).op = "onConnect" => Has(q, "onConnect") /\ ~Has(r, "onConnect"))
  BY TailOnce DEF Phase
<1> HIDE DEF r
<1>3. Lingering(r, fl)
  <2> SUFFICES ASSUME NEW i \in 1..Len(r), NEW j \in 1..Len(r), r[i].op = "connect", i < j
               PROVE  r[j].op \notin Late /\ (r[j].op = "emit" => fl)
    BY DEF Lingering
  <2>1. i + 1 < j + 1
    OBVIOUS
  <2> QED
    BY <1>1, <2>1 DEF Phase, Lingering
<1>4. Before(r)
  <2> SUFFICES ASSUME NEW i \in 1..Len(r), NEW j \in 1..Len(r),
                      r[i].op = "onConnect", r[j].op = "drop"
               PROVE  i < j
    BY DEF Before
  <2>1. i + 1 < j + 1
    BY <1>1 DEF Phase, Before
  <2> QED
    BY <2>1
<1>5. \A op : Has(r, op) => Has(q, op)
  BY <1>1 DEF Has
<1>6. \A ops : Without(q, ops) => Without(r, ops) /\ Head(q).op \notin ops
  BY <1>1 DEF Without
<1>7. \A msgs : Sends(q, msgs) => Sends(r, msgs)
  BY <1>1 DEF Sends
<1>8. Head(q).op = "connect" => Without(r, Late) /\ (Without(r, {"emit"}) \/ fl)
  BY <1>1 DEF Phase, Lingering, Without
<1>9. ASSUME Head(q).op = "drop", NEW i \in 1..Len(r), r[i].op = "onConnect" PROVE FALSE
  <2>1. i + 1 < 1
    BY <1>1, <1>9 DEF Phase, Before
  <2> QED
    BY <1>1, <2>1
<1>10. Head(q).op = "drop" => ~Has(r, "onConnect")
  BY <1>9 DEF Has
<1> QED
  BY <1>2, <1>3, <1>4, <1>5, <1>6, <1>7, <1>8, <1>10 DEF Phase, r

(* Tasks that neither make nor drop a connection are added.                *)
LEMMA ConcatPhase ==
    ASSUME NEW q \in Seq(Tasks), NEW s \in Seq(Tasks), NEW fl, Phase(q, fl),
           Without(s, {"connect", "onConnect", "drop"}),
           Has(q, "connect") => Without(s, Late) /\ (Without(s, {"emit"}) \/ fl)
    PROVE  /\ Phase(q \o s, fl)
           /\ \A op : Has(q \o s, op) <=> Has(q, op) \/ Has(s, op)
           /\ \A ops : Without(q \o s, ops) <=> Without(q, ops) /\ Without(s, ops)
           /\ \A msgs : Sends(q \o s, msgs) <=> Sends(q, msgs) /\ Sends(s, msgs)
<1> DEFINE r == q \o s
<1>1. /\ Len(q) \in Nat /\ Len(s) \in Nat /\ Len(r) = Len(q) + Len(s)
      /\ \A i \in 1..Len(q) : i \in 1..Len(r) /\ r[i] = q[i]
      /\ \A i \in 1..Len(r) :
           \/ i \in 1..Len(q) /\ r[i] = q[i]
           \/ i > Len(q) /\ i - Len(q) \in 1..Len(s) /\ r[i] = s[i - Len(q)]
  BY ConcatParts
<1>2. \A k \in 1..Len(s) : Len(q) + k \in 1..Len(r) /\ r[Len(q) + k] = s[k]
  BY <1>1, ConcatProperties
<1> HIDE DEF r
<1>3. \A i \in 1..Len(r) : r[i].op \in {"connect", "onConnect", "drop"}
                              => i \in 1..Len(q) /\ r[i] = q[i]
  BY <1>1 DEF Without
<1>4. ASSUME NEW i \in 1..Len(r), NEW j \in 1..Len(r), r[i].op = "connect", i < j
      PROVE  r[j].op \notin Late /\ (r[j].op = "emit" => fl)
  <2>1. i \in 1..Len(q) /\ q[i].op = "connect"
    BY <1>3, <1>4
  <2>2. CASE j \in 1..Len(q) /\ r[j] = q[j]
    BY <1>4, <2>1, <2>2 DEF Phase, Lingering
  <2>3. CASE j - Len(q) \in 1..Len(s) /\ r[j] = s[j - Len(q)]
    BY <2>1, <2>3 DEF Has, Without
  <2> QED
    BY <1>1, <2>2, <2>3
<1>5. Lingering(r, fl)
  BY <1>4 DEF Lingering
<1>6. Before(r) /\ Once(r, "onConnect")
  BY <1>3 DEF Phase, Before, Once
<1>7. \A op : Has(r, op) <=> Has(q, op) \/ Has(s, op)
  BY <1>1, <1>2 DEF Has
<1>8. \A ops : Without(r, ops) <=> Without(q, ops) /\ Without(s, ops)
  BY <1>1, <1>2 DEF Without
<1>9. \A msgs : Sends(r, msgs) <=> Sends(q, msgs) /\ Sends(s, msgs)
  BY <1>1, <1>2 DEF Sends
<1> QED
  BY <1>5, <1>6, <1>7, <1>8, <1>9 DEF Phase, r

(* A task that makes or drops a connection is added.                       *)
LEMMA AppendPhase ==
    ASSUME NEW q \in Seq(Tasks), NEW t \in Tasks, NEW fl, Phase(q, fl), ~Has(q, "connect"),
           t.op \in {"connect", "onConnect", "drop"},
           t.op = "onConnect" => ~Has(q, "onConnect") /\ ~Has(q, "drop")
    PROVE  /\ Phase(Append(q, t), fl)
           /\ \A op : Has(Append(q, t), op) => Has(q, op) \/ op = t.op
           /\ \A ops : Without(q, ops) /\ t.op \notin ops => Without(Append(q, t), ops)
           /\ \A msgs : Sends(q, msgs) => Sends(Append(q, t), msgs)
           /\ \A i \in 1..Len(Append(q, t)) :
                 Append(q, t)[i].op = "connect" => i = Len(Append(q, t))
<1> DEFINE r == Append(q, t)
<1>1. /\ Len(q) \in Nat /\ Len(r) = Len(q) + 1 /\ r[Len(q) + 1] = t
      /\ \A i \in 1..Len(q) : r[i] = q[i]
  BY AppendProperties, LenProperties
<1> HIDE DEF r
<1>2. \A i \in 1..Len(r) : \/ i \in 1..Len(q) /\ r[i] = q[i] /\ i < Len(r)
                           \/ i = Len(r) /\ r[i] = t
  BY <1>1
<1>3. \A i \in 1..Len(r) : r[i].op = "connect" => i = Len(r)
  BY <1>2 DEF Has
<1>4. Lingering(r, fl)
  BY <1>1, <1>3 DEF Lingering
<1>5. Before(r)
  <2> SUFFICES ASSUME NEW i \in 1..Len(r), NEW j \in 1..Len(r),
                      r[i].op = "onConnect", r[j].op = "drop"
               PROVE  i < j
    BY DEF Before
  <2>1. CASE j = Len(r)
    BY <1>2, <2>1
  <2>2. CASE j \in 1..Len(q) /\ r[j] = q[j]
    BY <1>2, <2>2 DEF Phase, Before, Has
  <2> QED
    BY <1>2, <2>1, <2>2
<1>6. Once(r, "onConnect")
  BY <1>2 DEF Phase, Once, Has
<1>7. \A op : Has(r, op) => Has(q, op) \/ op = t.op
  BY <1>2 DEF Has
<1>8. \A ops : Without(q, ops) /\ t.op \notin ops => Without(r, ops)
  BY <1>2 DEF Without
<1>9. \A msgs : Sends(q, msgs) => Sends(r, msgs)
  BY <1>2 DEF Sends
<1> QED
  BY <1>3, <1>4, <1>5, <1>6, <1>7, <1>8, <1>9 DEF Phase, r

-----------------------------------------------------------------------------
(* The second inductive invariant: what the server ends up with.           *)

Current(f, v) == {m \in Only("set") : m.field = f /\ m.version = v}
Outdated(f, v) == {m \in Only("set") : m.field = f /\ m.version # v}

(* Until a connection has been taken up there is nothing of it.            *)
Starting ==
    Has(queue, "onConnect") =>
        /\ socket /\ websocket # "open" /\ ~session
        /\ toServer = << >> /\ toClient = << >>
        /\ Without(queue, {"send", "receive", "event"})

(* Until the websocket is open nothing but the handshake goes out.         *)
Closed ==
    /\ ~socket => websocket # "open"
    /\ socket /\ websocket # "open" =>
          ~session /\ Sends(queue, Only("hello")) /\ Carries(toServer, Only("hello"))
    /\ ~session => shown
    /\ full => registered = "yes"

(* Until the client believes that it is connected it reports nothing.      *)
Unreported ==
    socket /\ ~full =>
        /\ shown /\ Without(queue, {"emit"})
        /\ Sends(queue, Unreporting) /\ Carries(toServer, Unreporting)

(* Of the reports that are left from before the connection, "hide" is      *)
(* followed by "show" if the station is to be shown.                       *)
ConnectSettles(q) ==
    \A n \in 1..Len(q) : q[n].op = "connect" => Settles(q, n, Only("show"), Only("hide"))

ShowingIn(q, ts) ==
    ~hidden => /\ socket => Delivers(q, ts, shown, Only("show"), Only("hide"))
               /\ ConnectSettles(q)

(* The acceptance is on its way to the client.                             *)
PendingIn(q, tc) ==
    \/ Travels(tc, Only("success"))
    \/ Waits(q, "receive", Only("success"))
    \/ Has(q, "event")

ReportedIn(q, ts) ==
    /\ hidden => Delivers(q, ts, ~shown, Only("hide"), Only("show"))
    /\ ~hidden => \A f \in Fields :
          Delivers(q, ts, seen[f] = saved[f], Current(f, saved[f]), Outdated(f, saved[f]))

(* Once the client knows that it was accepted, all that is wanted is       *)
(* reported or on its way.                                                 *)
Reported == session /\ full /\ ~PendingIn(queue, toClient) => ReportedIn(queue, toServer)

Converging ==
    /\ Phase(queue, full)
    /\ Starting
    /\ Closed
    /\ Unreported
    /\ ShowingIn(queue, toServer)
    /\ Reported

(* Kinds of messages.                                                      *)
LEMMA MessageSets ==
    /\ \A m \in Unreporting : /\ m \notin Only("show") /\ m \notin Only("hide")
                              /\ \A f, v : m \notin Current(f, v) /\ m \notin Outdated(f, v)
    /\ \A m \in Only("hello") : m \in Unreporting
    /\ \A m \in Only("set") : m \notin Only("show") /\ m \notin Only("hide")
    /\ \A m \in Only("show") : m \notin Only("hide")
    /\ \A m \in Only("hide") : m \notin Only("show")
    /\ \A m \in Messages : m.kind \in {"show", "hide"}
          => \A f, v : m \notin Current(f, v) /\ m \notin Outdated(f, v)
    /\ \A kind \in {"hello", "auth", "opened", "success"} : Msg(kind) \in Unreporting
    /\ \A kind \in Kinds : Msg(kind) \in Messages /\ Msg(kind) \in Only(kind)
  BY PlainTasks DEF Unreporting, Only, Current, Outdated, Msg, Messages, Kinds

(* A sequence of one task.                                                 *)
LEMMA OneFacts ==
    ASSUME NEW t \in Tasks
    PROVE  /\ <<t>> \in Seq(Tasks)
           /\ \A op : Has(<<t>>, op) <=> t.op = op
           /\ \A ops : Without(<<t>>, ops) <=> t.op \notin ops
           /\ \A msgs : Sends(<<t>>, msgs) <=> (t.op = "send" => t.msg \in msgs)
           /\ \A op, good : Waits(<<t>>, op, good) <=> t.op = op /\ t.msg \in good
           /\ \A bad : Harmless(<<t>>, bad) <=> (t.op \in Outbound => t.msg \notin bad)
<1>1. <<t>> \in Seq(Tasks) /\ Len(<<t>>) = 1 /\ <<t>>[1] = t
  BY OneTask
<1>2. \A i \in 1..Len(<<t>>) : <<t>>[i] = t
  BY <1>1
<1>3. 1 \in 1..Len(<<t>>)
  BY <1>1
<1> QED
  BY <1>1, <1>2, <1>3 DEF Has, Without, Sends, Waits, Harmless

LEMMA HasTail ==
    ASSUME NEW q \in Seq(Tasks), q # << >>, NEW op
    PROVE  Has(q, op) <=> Head(q).op = op \/ Has(Tail(q), op)
<1> DEFINE r == Tail(q)
<1>1. /\ Len(q) \in Nat /\ Len(r) = Len(q) - 1 /\ Head(q) = q[1] /\ 1 \in 1..Len(q)
      /\ \A i \in 1..Len(r) : i + 1 \in 1..Len(q) /\ r[i] = q[i + 1]
  BY TailParts
<1> HIDE DEF r
<1>2. ASSUME NEW j \in 1..Len(q), j # 1
      PROVE  j - 1 \in 1..Len(r) /\ r[j - 1] = q[j]
  <2>1. j - 1 \in 1..Len(r) /\ (j - 1) + 1 = j
    BY <1>1, <1>2
  <2> QED
    BY <1>1, <2>1
<1> QED
  BY <1>1, <1>2 DEF Has, r

LEMMA ConnectSettlesTail ==
    ASSUME NEW q \in Seq(Tasks), q # << >>, ConnectSettles(q)
    PROVE  /\ ConnectSettles(Tail(q))
           /\ Head(q).op = "connect" => Settles(Tail(q), 0, Only("show"), Only("hide"))
<1> DEFINE r == Tail(q)
<1>1. /\ Len(q) \in Nat /\ Head(q) = q[1] /\ 1 \in 1..Len(q)
      /\ \A i \in 1..Len(r) : i + 1 \in 1..Len(q) /\ r[i] = q[i + 1]
      /\ Len(r) = Len(q) - 1
  BY TailParts
<1>2. ASSUME NEW n \in 1..Len(r), r[n].op = "connect"
      PROVE  Settles(r, n, Only("show"), Only("hide"))
  <2>1. Settles(q, n + 1, Only("show"), Only("hide"))
    BY <1>1, <1>2 DEF ConnectSettles
  <2> QED
    BY <2>1, SettlesTail
<1>3. Head(q).op = "connect" => Settles(r, 0, Only("show"), Only("hide"))
  BY <1>1, SettlesTail DEF ConnectSettles
<1> QED
  BY <1>2, <1>3 DEF ConnectSettles

LEMMA ConnectSettlesConcat ==
    ASSUME NEW q \in Seq(Tasks), NEW s \in Seq(Tasks), Without(s, {"connect"}),
           Harmless(s, Only("hide")), ConnectSettles(q) \/ Waits(s, "emit", Only("show"))
    PROVE  ConnectSettles(q \o s)
<1> DEFINE r == q \o s
<1>1. \A i \in 1..Len(r) : \/ i \in 1..Len(q) /\ r[i] = q[i]
                           \/ i - Len(q) \in 1..Len(s) /\ r[i] = s[i - Len(q)]
  BY ConcatParts
<1>2. ASSUME NEW n \in 1..Len(r), r[n].op = "connect"
      PROVE  Settles(r, n, Only("show"), Only("hide"))
  <2>1. n \in 1..Len(q) /\ q[n].op = "connect"
    BY <1>1, <1>2 DEF Without
  <2>2. Settles(q, n, Only("show"), Only("hide")) \/ Waits(s, "emit", Only("show"))
    BY <2>1 DEF ConnectSettles
  <2> QED
    BY <2>1, <2>2, SettlesConcat
<1> QED
  BY <1>2 DEF ConnectSettles

(* A queue in which there is no attempt, or nothing behind it.             *)
LEMMA NoConnectSettles ==
    ASSUME NEW q \in Seq(Tasks), \A i \in 1..Len(q) : q[i].op = "connect" => i = Len(q)
    PROVE  ConnectSettles(q)
<1>1. Len(q) \in Nat
  BY LenProperties
<1> QED
  BY <1>1 DEF ConnectSettles, Settles

(* A task that carries nothing to the server is taken.                     *)
LEMMA TailIn ==
    ASSUME NEW q \in Seq(Tasks), q # << >>, NEW ts, NEW tc
    PROVE  /\ Head(q).op \notin Outbound /\ ShowingIn(q, ts) => ShowingIn(Tail(q), ts)
           /\ Head(q).op \notin Outbound /\ ReportedIn(q, ts) => ReportedIn(Tail(q), ts)
           /\ PendingIn(q, tc) =>
                 \/ PendingIn(Tail(q), tc)
                 \/ Head(q).op = "event"
                 \/ Head(q).op = "receive" /\ Head(q).msg \in Only("success")
<1>1. Head(q).op \notin Outbound /\ ShowingIn(q, ts) => ShowingIn(Tail(q), ts)
  BY TailDelivers, ConnectSettlesTail DEF ShowingIn
<1>2. ASSUME Head(q).op \notin Outbound, ReportedIn(q, ts) PROVE ReportedIn(Tail(q), ts)
  <2>1. hidden => Delivers(Tail(q), ts, ~shown, Only("hide"), Only("show"))
    BY <1>2, TailDelivers DEF ReportedIn
  <2>2. ASSUME ~hidden, NEW f \in Fields
        PROVE  Delivers(Tail(q), ts, seen[f] = saved[f], Current(f, saved[f]),
                        Outdated(f, saved[f]))
    BY <1>2, <2>2, TailDelivers DEF ReportedIn
  <2> QED
    BY <2>1, <2>2 DEF ReportedIn
<1>3. PendingIn(q, tc) =>
         \/ PendingIn(Tail(q), tc)
         \/ Head(q).op = "event"
         \/ Head(q).op = "receive" /\ Head(q).msg \in Only("success")
  BY WaitsTail, HasTail DEF PendingIn
<1> QED
  BY <1>1, <1>2, <1>3

Neutral(s) == \A i \in 1..Len(s) : s[i].op \in Outbound => s[i].msg \in Unreporting

(* Tasks that report nothing are added.                                    *)
LEMMA ConcatIn ==
    ASSUME NEW q \in Seq(Tasks), NEW s \in Seq(Tasks), Without(s, {"connect"}), Neutral(s),
           NEW ts, NEW tc
    PROVE  /\ ShowingIn(q, ts) => ShowingIn(q \o s, ts)
           /\ ReportedIn(q, ts) => ReportedIn(q \o s, ts)
           /\ PendingIn(q, tc) \/ PendingIn(s, << >>) => PendingIn(q \o s, tc)
<1>1. /\ Harmless(s, Only("hide")) /\ Harmless(s, Only("show"))
      /\ \A f, v : Harmless(s, Outdated(f, v))
  BY MessageSets DEF Harmless, Neutral
<1>2. ShowingIn(q, ts) => ShowingIn(q \o s, ts)
  BY <1>1, ConcatDelivers, ConnectSettlesConcat DEF ShowingIn
<1>3. ASSUME ReportedIn(q, ts) PROVE ReportedIn(q \o s, ts)
  <2>1. hidden => Delivers(q \o s, ts, ~shown, Only("hide"), Only("show"))
    BY <1>1, <1>3, ConcatDelivers DEF ReportedIn
  <2>2. ASSUME ~hidden, NEW f \in Fields
        PROVE  Delivers(q \o s, ts, seen[f] = saved[f], Current(f, saved[f]),
                        Outdated(f, saved[f]))
    BY <1>1, <1>3, <2>2, ConcatDelivers DEF ReportedIn
  <2> QED
    BY <2>1, <2>2 DEF ReportedIn
<1>4. \A op : Has(q, op) \/ Has(s, op) => Has(q \o s, op)
  <2>1. /\ Len(q) \in Nat /\ Len(s) \in Nat
        /\ \A i \in 1..Len(q) : i \in 1..Len(q \o s) /\ (q \o s)[i] = q[i]
    BY ConcatParts
  <2>2. \A k \in 1..Len(s) : Len(q) + k \in 1..Len(q \o s) /\ (q \o s)[Len(q) + k] = s[k]
    BY <2>1, ConcatProperties
  <2> QED
    BY <2>1, <2>2 DEF Has
<1>5. Waits(q, "receive", Only("success")) \/ Waits(s, "receive", Only("success"))
         => Waits(q \o s, "receive", Only("success"))
  BY WaitsConcat
<1>6. ~Travels(<< >>, Only("success"))
  BY DEF Travels
<1> QED
  BY <1>2, <1>3, <1>4, <1>5, <1>6 DEF PendingIn

(* One task that reports nothing.                                          *)
LEMMA OneNeutral ==
    ASSUME NEW t \in Tasks, t.op \in Outbound => t.msg \in Unreporting
    PROVE  Neutral(<<t>>)
<1>1. Len(<<t>>) = 1 /\ <<t>>[1] = t
  BY OneTask
<1>2. \A i \in 1..Len(<<t>>) : <<t>>[i] = t
  BY <1>1
<1> QED
  BY <1>2 DEF Neutral

(* One task that neither makes nor drops a connection nor reports anything *)
(* is added, and besides the queue q only what the predicates do not       *)
(* depend on has changed.                                                  *)
LEMMA AddNeutral ==
    ASSUME NEW q \in Seq(Tasks), NEW t \in Tasks, NEW fl, Phase(q, fl),
           t.op \notin {"connect", "onConnect", "drop", "emit"},
           t.op = "send" => t.msg \in Unreporting,
           Has(q, "connect") => t.op \notin Late,
           NEW ts, NEW tc
    PROVE  /\ Phase(Append(q, t), fl) /\ Append(q, t) \in Seq(Tasks)
           /\ \A op : Has(Append(q, t), op) <=> Has(q, op) \/ t.op = op
           /\ \A ops : Without(Append(q, t), ops) <=> Without(q, ops) /\ t.op \notin ops
           /\ \A msgs : Sends(Append(q, t), msgs)
                           <=> Sends(q, msgs) /\ (t.op = "send" => t.msg \in msgs)
           /\ ShowingIn(q, ts) => ShowingIn(Append(q, t), ts)
           /\ ReportedIn(q, ts) => ReportedIn(Append(q, t), ts)
           /\ PendingIn(q, tc) \/ t.op = "event"
                \/ (t.op = "receive" /\ t.msg \in Only("success"))
              => PendingIn(Append(q, t), tc)
<1> DEFINE s == <<t>>
<1>1. s \in Seq(Tasks) /\ Append(q, t) = q \o s /\ Append(q, t) \in Seq(Tasks)
  BY OneTask, AppendProperties
<1>2. /\ \A op : Has(s, op) <=> t.op = op
      /\ \A ops : Without(s, ops) <=> t.op \notin ops
      /\ \A msgs : Sends(s, msgs) <=> (t.op = "send" => t.msg \in msgs)
      /\ \A op, good : Waits(s, op, good) <=> t.op = op /\ t.msg \in good
  BY OneFacts
<1>3. Neutral(s)
  BY OneNeutral DEF Outbound
<1> HIDE DEF s
<1>4. /\ Phase(q \o s, fl)
      /\ \A op : Has(q \o s, op) <=> Has(q, op) \/ Has(s, op)
      /\ \A ops : Without(q \o s, ops) <=> Without(q, ops) /\ Without(s, ops)
      /\ \A msgs : Sends(q \o s, msgs) <=> Sends(q, msgs) /\ Sends(s, msgs)
  BY <1>1, <1>2, ConcatPhase
<1>5. /\ ShowingIn(q, ts) => ShowingIn(q \o s, ts)
      /\ ReportedIn(q, ts) => ReportedIn(q \o s, ts)
      /\ PendingIn(q, tc) \/ PendingIn(s, << >>) => PendingIn(q \o s, tc)
  BY <1>1, <1>2, <1>3, ConcatIn
<1>6. t.op = "event" \/ (t.op = "receive" /\ t.msg \in Only("success"))
         => PendingIn(s, << >>)
  BY <1>2 DEF PendingIn
<1> QED
  BY <1>1, <1>2, <1>4, <1>5, <1>6

(* The predicates do not depend on the other variables.                    *)
LEMMA PrimeIn ==
    ASSUME hidden' = hidden, socket' = socket, shown' = shown, seen' = seen, saved' = saved
    PROVE  /\ ShowingIn(queue', toServer') => ShowingIn(queue, toServer)'
           /\ ReportedIn(queue', toServer') => ReportedIn(queue, toServer)'
  BY DEF ShowingIn, ReportedIn

ConvInv == ReporterInv /\ Converging

LEMMA InitConverging == Init => Converging
<1> SUFFICES ASSUME Init PROVE Converging
  OBVIOUS
<1> DEFINE t == Plain("connect")
<1>1. t \in Tasks /\ t.op = "connect" /\ queue = <<t>>
  BY PlainTasks DEF Ops, Kinds, Init
<1> HIDE DEF t
<1>2. Len(queue) = 1 /\ queue[1] = t /\ queue \in Seq(Tasks)
  BY <1>1, OneTask
<1>3. \A i \in 1..Len(queue) : queue[i].op = "connect" /\ i = 1
  BY <1>1, <1>2
<1>4. Phase(queue, full)
  BY <1>3 DEF Phase, Lingering, Before, Once
<1>5. ConnectSettles(queue)
  BY <1>2, <1>3, NoConnectSettles
<1>6. ~Has(queue, "onConnect")
  BY <1>3 DEF Has
<1> QED
  BY <1>4, <1>5, <1>6 DEF Init, Converging, Starting, Closed, Unreported, ShowingIn, Reported

(* What the invariant says before a task is taken.                         *)
LEMMA ConvQueue ==
    ASSUME ConvInv
    PROVE  /\ queue \in Seq(Tasks) /\ Phase(queue, full)
           /\ toServer \in Seq(Messages) /\ toClient \in Seq(Messages)
           /\ (session => socket) /\ (socket => ~Has(queue, "connect"))
           /\ (~socket => toServer = << >> /\ toClient = << >>)
           /\ saved \in [Fields -> Versions]
  BY DEF ConvInv, Converging, ReporterInv, Link, TypeOK, Tasks

(* The user interface adds the registration.                               *)
LEMMA RegisterConv == ConvInv /\ Register => Converging'
<1> SUFFICES ASSUME ConvInv, Register PROVE Converging'
  OBVIOUS
<1> USE DEF tcpVars, uiVars, netVars, serverVars
<1> DEFINE t == Plain("register")
<1>1. t \in Tasks /\ t.op = "register" /\ queue' = Append(queue, t)
  BY PlainTasks DEF Ops, Kinds, Register
<1> HIDE DEF t
<1>2. /\ Phase(queue', full)
      /\ \A op : Has(queue', op) <=> Has(queue, op) \/ t.op = op
      /\ \A ops : Without(queue', ops) <=> Without(queue, ops) /\ t.op \notin ops
      /\ \A msgs : Sends(queue', msgs) <=> Sends(queue, msgs) /\ (t.op = "send" => t.msg \in msgs)
      /\ ShowingIn(queue, toServer) => ShowingIn(queue', toServer)
      /\ ReportedIn(queue, toServer) => ReportedIn(queue', toServer)
      /\ PendingIn(queue, toClient) => PendingIn(queue', toClient)
  BY <1>1, ConvQueue, AddNeutral DEF Late
<1>3. Starting'
  BY <1>1, <1>2 DEF Register, ConvInv, Converging, Starting
<1>4. Closed' /\ Unreported'
  BY <1>1, <1>2 DEF Register, ConvInv, Converging, Closed, Unreported
<1>5. ShowingIn(queue, toServer)' /\ Reported'
  BY <1>2, PrimeIn DEF Register, ConvInv, Converging, Reported
<1>6. Phase(queue, full)'
  BY <1>2 DEF Register
<1> QED
  BY <1>3, <1>4, <1>5, <1>6 DEF Converging

(* The registration is done.                                               *)
LEMMA RegisteredConv == ConvInv /\ RegisterHandlers => Converging'
<1> SUFFICES ASSUME ConvInv, RegisterHandlers PROVE Converging'
  OBVIOUS
<1> USE DEF tcpVars, uiVars, netVars, serverVars
<1>1. queue # << >> /\ Head(queue).op = "register" /\ queue' = Tail(queue)
  BY DEF RegisterHandlers, Serving
<1>2. /\ Phase(queue', full)
      /\ \A op : Has(queue', op) => Has(queue, op)
      /\ \A ops : Without(queue, ops) => Without(queue', ops)
      /\ \A msgs : Sends(queue, msgs) => Sends(queue', msgs)
  BY <1>1, ConvQueue, TailPhase
<1>3. /\ ShowingIn(queue, toServer) => ShowingIn(queue', toServer)
      /\ ReportedIn(queue, toServer) => ReportedIn(queue', toServer)
      /\ PendingIn(queue, toClient) => PendingIn(queue', toClient)
  BY <1>1, ConvQueue, TailIn DEF Outbound
<1>4. Starting'
  BY <1>2 DEF RegisterHandlers, ConvInv, Converging, Starting
<1>5. Closed' /\ Unreported'
  BY <1>2 DEF RegisterHandlers, ConvInv, Converging, Closed, Unreported
<1>6. ShowingIn(queue, toServer)' /\ Reported'
  BY <1>3, PrimeIn DEF RegisterHandlers, ConvInv, Converging, Reported
<1>7. Phase(queue, full)'
  BY <1>2 DEF RegisterHandlers
<1> QED
  BY <1>4, <1>5, <1>6, <1>7 DEF Converging

(* An event that no handler is there for.                                  *)
LEMMA UnheardConv == ConvInv /\ EventUnheard => Converging'
<1> SUFFICES ASSUME ConvInv, EventUnheard PROVE Converging'
  OBVIOUS
<1> USE DEF tcpVars, uiVars, netVars, serverVars
<1>1. queue # << >> /\ Head(queue).op = "event" /\ queue' = Tail(queue) /\ registered # "yes"
  BY DEF EventUnheard, Serving
<1>2. /\ Phase(queue', full)
      /\ \A op : Has(queue', op) => Has(queue, op)
      /\ \A ops : Without(queue, ops) => Without(queue', ops)
      /\ \A msgs : Sends(queue, msgs) => Sends(queue', msgs)
  BY <1>1, ConvQueue, TailPhase
<1>3. ShowingIn(queue, toServer) => ShowingIn(queue', toServer)
  BY <1>1, ConvQueue, TailIn DEF Outbound
<1>4. Starting'
  BY <1>2 DEF EventUnheard, ConvInv, Converging, Starting
<1>5. Closed' /\ Unreported' /\ ~full'
  BY <1>1, <1>2 DEF EventUnheard, ConvInv, Converging, Closed, Unreported
<1>6. ShowingIn(queue, toServer)' /\ Reported'
  BY <1>3, <1>5, PrimeIn DEF EventUnheard, ConvInv, Converging, Reported
<1>7. Phase(queue, full)'
  BY <1>2 DEF EventUnheard
<1> QED
  BY <1>4, <1>5, <1>6, <1>7 DEF Converging

(* What is left of the invariant when a task that carries nothing to the   *)
(* server has been taken and nothing else has changed.                     *)
LEMMA TakenConv ==
    ASSUME ConvInv, queue # << >>, Head(queue).op \notin Outbound, NEW p, p = Tail(queue)
    PROVE  /\ p \in Seq(Tasks) /\ Phase(p, full) /\ Head(queue) \in Tasks
           /\ \A op : Has(p, op) => Has(queue, op)
           /\ \A ops : Without(queue, ops) => Without(p, ops) /\ Head(queue).op \notin ops
           /\ \A msgs : Sends(queue, msgs) => Sends(p, msgs)
           /\ ShowingIn(queue, toServer) => ShowingIn(p, toServer)
           /\ ReportedIn(queue, toServer) => ReportedIn(p, toServer)
           /\ PendingIn(queue, toClient) =>
                 \/ PendingIn(p, toClient)
                 \/ Head(queue).op = "event"
                 \/ Head(queue).op = "receive" /\ Head(queue).msg \in Only("success")
<1>1. queue \in Seq(Tasks) /\ Phase(queue, full)
  BY ConvQueue
<1>2. p \in Seq(Tasks) /\ Head(queue) \in Tasks
  BY <1>1, HeadTailProperties
<1>3. /\ Phase(p, full)
      /\ \A op : Has(p, op) => Has(queue, op)
      /\ \A ops : Without(queue, ops) => Without(p, ops) /\ Head(queue).op \notin ops
      /\ \A msgs : Sends(queue, msgs) => Sends(p, msgs)
  BY <1>1, TailPhase
<1>4. /\ ShowingIn(queue, toServer) => ShowingIn(p, toServer)
      /\ ReportedIn(queue, toServer) => ReportedIn(p, toServer)
      /\ PendingIn(queue, toClient) =>
            \/ PendingIn(p, toClient)
            \/ Head(queue).op = "event"
            \/ Head(queue).op = "receive" /\ Head(queue).msg \in Only("success")
  BY <1>1, TailIn
<1> QED
  BY <1>2, <1>3, <1>4

(* The handshake of a new connection.                                      *)
LEMMA OnConnectConv == ConvInv /\ OnConnect => Converging'
<1> SUFFICES ASSUME ConvInv, OnConnect PROVE Converging'
  OBVIOUS
<1> USE DEF tcpVars, uiVars, netVars, serverVars
<1> DEFINE p == Tail(queue)
           t == Task("send", Msg("hello"))
<1>1. /\ queue # << >> /\ Head(queue).op = "onConnect" /\ queue' = Append(p, t)
      /\ websocket' = "connecting"
  BY DEF OnConnect, Serving
<1>2. t \in Tasks /\ t.op = "send" /\ t.msg = Msg("hello")
  BY MessageSets DEF Kinds, Task, Tasks, Ops
<1>3. Msg("hello") \in Only("hello") /\ Msg("hello") \in Unreporting
  BY MessageSets DEF Kinds
<1>4. /\ p \in Seq(Tasks) /\ Phase(p, full)
      /\ \A op : Has(p, op) => Has(queue, op)
      /\ \A ops : Without(queue, ops) => Without(p, ops)
      /\ \A msgs : Sends(queue, msgs) => Sends(p, msgs)
      /\ ShowingIn(queue, toServer) => ShowingIn(p, toServer)
  BY <1>1, TakenConv DEF Outbound
<1>5. Has(queue, "onConnect") /\ ~Has(p, "onConnect")
  BY <1>1, ConvQueue, TailPhase
<1>6. socket /\ ~session /\ toServer = << >> /\ websocket # "open"
  BY <1>5 DEF ConvInv, Converging, Starting
<1>7. ~Has(p, "connect")
  BY <1>4, <1>6, ConvQueue
<1> HIDE DEF p, t
<1>8. /\ Phase(queue', full)
      /\ \A op : Has(queue', op) <=> Has(p, op) \/ t.op = op
      /\ \A ops : Without(queue', ops) <=> Without(p, ops) /\ t.op \notin ops
      /\ \A msgs : Sends(queue', msgs) <=> Sends(p, msgs) /\ (t.op = "send" => t.msg \in msgs)
      /\ ShowingIn(p, toServer) => ShowingIn(queue', toServer)
  BY <1>1, <1>2, <1>3, <1>4, <1>7, AddNeutral
<1>9. Starting'
  BY <1>2, <1>5, <1>8 DEF OnConnect, Starting
<1>10. Closed' /\ Unreported'
  <2>1. Sends(queue, Only("hello")) /\ Carries(toServer, Only("hello")) /\ shown
    BY <1>6 DEF ConvInv, Converging, Closed
  <2>2. Sends(queue', Only("hello"))
    BY <2>1, <1>2, <1>3, <1>4, <1>8
  <2>3. Closed'
    BY <2>1, <2>2, <1>1, <1>6 DEF OnConnect, ConvInv, Converging, Closed
  <2>4. ~full => /\ Without(queue', {"emit"}) /\ Sends(queue', Unreporting)
                 /\ Carries(toServer, Unreporting)
    BY <1>2, <1>3, <1>4, <1>6, <1>8 DEF ConvInv, Converging, Unreported
  <2> QED
    BY <2>1, <2>3, <2>4 DEF OnConnect, Unreported
<1>11. ShowingIn(queue, toServer)'
  BY <1>4, <1>8, PrimeIn DEF OnConnect, ConvInv, Converging
<1>12. Reported'
  BY <1>6 DEF OnConnect, Reported
<1>13. Phase(queue, full)'
  BY <1>8 DEF OnConnect
<1> QED
  BY <1>9, <1>10, <1>11, <1>12, <1>13 DEF Converging

(* What the server sent is handled.                                        *)
LEMMA ReceiveConv == ConvInv /\ Receive => Converging'
<1> SUFFICES ASSUME ConvInv, Receive PROVE Converging'
  OBVIOUS
<1> USE DEF tcpVars, uiVars, netVars, serverVars
<1> DEFINE p == Tail(queue)
           opens == socket /\ Served.kind = "opened"
           fires == socket /\ Served.kind = "success"
<1>1. queue # << >> /\ Head(queue).op = "receive"
  BY DEF Receive, Serving
<1>2. /\ p \in Seq(Tasks) /\ Phase(p, full) /\ Head(queue) \in Tasks
      /\ \A op : Has(p, op) => Has(queue, op)
      /\ \A ops : Without(queue, ops) => Without(p, ops) /\ Head(queue).op \notin ops
      /\ \A msgs : Sends(queue, msgs) => Sends(p, msgs)
      /\ ShowingIn(queue, toServer) => ShowingIn(p, toServer)
      /\ ReportedIn(queue, toServer) => ReportedIn(p, toServer)
      /\ PendingIn(queue, toClient) =>
            PendingIn(p, toClient) \/ Head(queue).msg \in Only("success")
  BY <1>1, TakenConv DEF Outbound
<1>3. ~Has(queue, "onConnect")
  BY <1>1, <1>2 DEF ConvInv, Converging, Starting
<1>4. socket => ~Has(p, "connect")
  BY <1>2, ConvQueue
<1>5. /\ hidden' = hidden /\ socket' = socket /\ shown' = shown /\ seen' = seen
      /\ saved' = saved /\ full' = full /\ registered' = registered /\ session' = session
      /\ toServer' = toServer /\ toClient' = toClient
  BY DEF Receive
<1>6. /\ websocket' = IF opens THEN "open" ELSE websocket
      /\ queue' = p \o (IF opens THEN <<Task("send", Msg("auth"))>>
                        ELSE IF fires THEN <<Task("event", Served)>> ELSE << >>)
  BY DEF Receive
<1>7. CASE opens \/ fires
  <2> DEFINE t == IF opens THEN Task("send", Msg("auth")) ELSE Task("event", Served)
  <2>1. Msg("auth") \in Unreporting /\ Msg("auth") \in Messages
    BY MessageSets DEF Kinds
  <2>2. t \in Tasks /\ t.op \in {"send", "event"} /\ (t.op = "send" => t.msg = Msg("auth"))
    BY <1>2, <2>1 DEF Task, Tasks, Ops, Served
  <2>3. opens => ~fires /\ t.op = "send" /\ Head(queue).msg \notin Only("success")
    BY DEF Task, Only, Served
  <2>4. ~opens => t.op = "event" /\ fires
    BY <1>7 DEF Task
  <2>5. queue' = Append(p, t)
    BY <1>2, <1>6, <1>7, <2>2, OneTask
  <2> HIDE DEF t
  <2>6. t.op \notin {"connect", "onConnect", "drop", "emit"}
    BY <2>2
  <2>7. /\ Phase(queue', full)
        /\ \A op : Has(queue', op) <=> Has(p, op) \/ t.op = op
        /\ \A ops : Without(queue', ops) <=> Without(p, ops) /\ t.op \notin ops
        /\ \A msgs : Sends(queue', msgs)
                        <=> Sends(p, msgs) /\ (t.op = "send" => t.msg \in msgs)
        /\ ShowingIn(p, toServer) => ShowingIn(queue', toServer)
        /\ ReportedIn(p, toServer) => ReportedIn(queue', toServer)
        /\ PendingIn(p, toClient) \/ t.op = "event" => PendingIn(queue', toClient)
    BY <1>2, <1>4, <1>7, <2>1, <2>2, <2>5, <2>6, AddNeutral
  <2>8. Starting'
    BY <1>2, <1>3, <2>2, <2>7 DEF Starting
  <2>9. Closed'
    <3>1. socket /\ websocket' # "open" => websocket # "open" /\ t.op # "send"
      BY <1>6, <2>3, <2>4
    <3>2. ~socket => websocket' # "open"
      BY <1>7
    <3>3. socket /\ websocket' # "open" =>
             ~session /\ Sends(queue', Only("hello")) /\ Carries(toServer, Only("hello"))
      BY <3>1, <1>2, <2>7 DEF ConvInv, Converging, Closed
    <3> QED
      BY <3>2, <3>3, <1>5 DEF ConvInv, Converging, Closed
  <2>10. Unreported'
    BY <1>2, <1>5, <2>1, <2>2, <2>7 DEF ConvInv, Converging, Unreported
  <2>11. ShowingIn(queue, toServer)'
    BY <1>2, <1>5, <2>7, PrimeIn DEF ConvInv, Converging
  <2>12. ~PendingIn(queue', toClient) => ~PendingIn(queue, toClient)
    BY <1>2, <2>3, <2>4, <2>7
  <2>13. Reported'
    BY <1>2, <1>5, <2>7, <2>12, PrimeIn DEF ConvInv, Converging, Reported
  <2> QED
    BY <1>5, <2>7, <2>8, <2>9, <2>10, <2>11, <2>13 DEF Converging
<1>8. CASE ~opens /\ ~fires
  <2>1. queue' = p /\ websocket' = websocket
    BY <1>2, <1>6, <1>8, ConcatEmptySeq
  <2>2. Starting' /\ Closed' /\ Unreported'
    BY <1>2, <1>3, <1>5, <2>1 DEF ConvInv, Converging, Starting, Closed, Unreported
  <2>3. ShowingIn(queue, toServer)'
    BY <1>2, <1>5, <2>1, PrimeIn DEF ConvInv, Converging
  <2>4. socket => Head(queue).msg \notin Only("success")
    BY <1>8 DEF Only, Served
  <2>5. session => (PendingIn(queue, toClient) => PendingIn(queue', toClient))
    BY <1>2, <2>1, <2>4, ConvQueue
  <2>6. Reported'
    BY <1>2, <1>5, <2>1, <2>5, PrimeIn DEF ConvInv, Converging, Reported
  <2> QED
    BY <1>2, <1>5, <2>1, <2>2, <2>3, <2>6 DEF Converging
<1> QED
  BY <1>7, <1>8

(* What is pending stays pending when tasks are added.                     *)
LEMMA PendingConcat ==
    ASSUME NEW q \in Seq(Tasks), NEW s \in Seq(Tasks), NEW tc, PendingIn(q, tc)
    PROVE  PendingIn(q \o s, tc)
<1>1. \A op : Has(q, op) => Has(q \o s, op)
  BY ConcatParts DEF Has
<1>2. Waits(q, "receive", Only("success")) => Waits(q \o s, "receive", Only("success"))
  BY WaitsConcat
<1> QED
  BY <1>1, <1>2 DEF PendingIn

AllEmit(s) == s \in Seq(Tasks) /\ \A i \in 1..Len(s) : s[i].op = "emit"

(* A client that believes it is connected emits something.                 *)
LEMMA EmitsAdded ==
    ASSUME NEW q \in Seq(Tasks), NEW s, AllEmit(s), Phase(q, TRUE)
    PROVE  /\ Phase(q \o s, TRUE)
           /\ \A op : Has(q \o s, op) => Has(q, op) \/ op = "emit"
           /\ \A ops : Without(q, ops) /\ "emit" \notin ops => Without(q \o s, ops)
           /\ \A msgs : Sends(q, msgs) => Sends(q \o s, msgs)
<1>1. s \in Seq(Tasks) /\ \A i \in 1..Len(s) : s[i].op = "emit"
  BY DEF AllEmit
<1>2. \A ops : "emit" \notin ops => Without(s, ops)
  BY <1>1 DEF Without
<1>3. /\ \A op : Has(s, op) => op = "emit"
      /\ \A msgs : Sends(s, msgs)
  BY <1>1 DEF Has, Sends
<1>4. Without(s, {"connect", "onConnect", "drop"}) /\ Without(s, Late)
  BY <1>2 DEF Late
<1>5. /\ Phase(q \o s, TRUE)
      /\ \A op : Has(q \o s, op) <=> Has(q, op) \/ Has(s, op)
      /\ \A ops : Without(q \o s, ops) <=> Without(q, ops) /\ Without(s, ops)
      /\ \A msgs : Sends(q \o s, msgs) <=> Sends(q, msgs) /\ Sends(s, msgs)
  BY <1>1, <1>4, ConcatPhase
<1> QED
  BY <1>2, <1>3, <1>5

(* What is left of the queue is p, and then the client emits something.    *)
LEMMA EmittedConv ==
    ASSUME ConvInv, NEW p \in Seq(Tasks), Phase(p, full), NEW s, AllEmit(s),
           queue' = p \o s, full' = TRUE, registered = "yes", registered' = registered,
           \A op : Has(p, op) => Has(queue, op),
           \A ops : Without(queue, ops) => Without(p, ops),
           \A msgs : Sends(queue, msgs) => Sends(p, msgs),
           socket' = socket, websocket' = websocket, session' = session, shown' = shown,
           toServer' = toServer, toClient' = toClient
    PROVE  Phase(queue, full)' /\ Starting' /\ Closed' /\ Unreported'
<1>1. Phase(p, TRUE)
  BY DEF Phase, Lingering
<1>2. /\ Phase(queue', TRUE)
      /\ \A op : Has(queue', op) => Has(p, op) \/ op = "emit"
      /\ \A ops : Without(p, ops) /\ "emit" \notin ops => Without(queue', ops)
      /\ \A msgs : Sends(p, msgs) => Sends(queue', msgs)
  BY <1>1, EmitsAdded
<1>3. Starting'
  <2> SUFFICES ASSUME Has(queue', "onConnect")
               PROVE  /\ socket /\ websocket # "open" /\ ~session
                      /\ toServer = << >> /\ toClient = << >>
                      /\ Without(queue', {"send", "receive", "event"})
    BY DEF Starting
  <2>1. Has(queue, "onConnect")
    BY <1>2
  <2>2. /\ socket /\ websocket # "open" /\ ~session
        /\ toServer = << >> /\ toClient = << >>
        /\ Without(queue, {"send", "receive", "event"})
    BY <2>1 DEF ConvInv, Converging, Starting
  <2>3. Without(queue', {"send", "receive", "event"})
    BY <1>2, <2>2
  <2> QED
    BY <2>2, <2>3
<1>4. Closed'
  BY <1>2 DEF ConvInv, Converging, Closed
<1> QED
  BY <1>2, <1>3, <1>4 DEF Unreported

(* All that is saved, as tasks.                                            *)
LEMMA SavedFacts ==
    ASSUME saved \in [Fields -> Versions]
    PROVE  /\ AllEmit(EmitSaved)
           /\ Harmless(EmitSaved, Only("hide")) /\ Harmless(EmitSaved, Only("show"))
           /\ \A f \in Fields : /\ Waits(EmitSaved, "emit", Current(f, saved[f]))
                                /\ Harmless(EmitSaved, Outdated(f, saved[f]))
<1>1. /\ EmitSaved \in Seq(Tasks) /\ Len(EmitSaved) = NFields
      /\ \A i \in 1..Len(EmitSaved) :
            /\ i \in Fields /\ EmitSaved[i].op = "emit"
            /\ EmitSaved[i].msg.kind = "set" /\ EmitSaved[i].msg.field = i
            /\ EmitSaved[i].msg.version = saved[i]
  BY EmitSavedTasks
<1>2. \A i \in 1..Len(EmitSaved) : EmitSaved[i] \in Tasks
  BY <1>1, ElementOfSeq
<1>3. \A i \in 1..Len(EmitSaved) : EmitSaved[i].msg \in Only("set")
  BY <1>1, <1>2 DEF Only, Tasks
<1>4. Harmless(EmitSaved, Only("hide")) /\ Harmless(EmitSaved, Only("show"))
  BY <1>3, MessageSets DEF Harmless
<1>5. ASSUME NEW f \in Fields
      PROVE  /\ Waits(EmitSaved, "emit", Current(f, saved[f]))
             /\ Harmless(EmitSaved, Outdated(f, saved[f]))
  <2>1. f \in 1..Len(EmitSaved)
    BY <1>1 DEF Fields
  <2>2. EmitSaved[f].op = "emit" /\ EmitSaved[f].msg \in Current(f, saved[f])
    BY <1>1, <1>3, <2>1 DEF Current
  <2>3. Harmless(EmitSaved, Outdated(f, saved[f]))
    BY <1>1 DEF Harmless, Outdated
  <2> QED
    BY <2>1, <2>2, <2>3 DEF Waits
<1> QED
  BY <1>1, <1>4, <1>5 DEF AllEmit

(* One report is emitted.                                                  *)
LEMMA EmitFacts ==
    ASSUME NEW t \in Tasks, t.op = "emit"
    PROVE  /\ <<t>> \in Seq(Tasks) /\ AllEmit(<<t>>)
           /\ \A good : Waits(<<t>>, "emit", good) <=> t.msg \in good
           /\ \A bad : Harmless(<<t>>, bad) <=> t.msg \notin bad
<1>1. <<t>> \in Seq(Tasks) /\ Len(<<t>>) = 1 /\ <<t>>[1] = t
  BY OneTask
<1>2. \A i \in 1..Len(<<t>>) : <<t>>[i] = t
  BY <1>1
<1> QED
  BY <1>1, <1>2, OneFacts DEF AllEmit, Outbound

LEMMA EmitKind ==
    ASSUME NEW kind \in {"hide", "show"}
    PROVE  /\ AllEmit(Emit(kind)) /\ Waits(Emit(kind), "emit", Only(kind))
           /\ \A other \in {"hide", "show"} : other # kind => Harmless(Emit(kind), Only(other))
           /\ \A f, v : Harmless(Emit(kind), Outdated(f, v))
<1> DEFINE t == Task("emit", Msg(kind))
<1>1. t \in Tasks /\ t.op = "emit" /\ t.msg = Msg(kind) /\ Emit(kind) = <<t>>
  BY PlainTasks DEF Ops, Kinds, Emit
<1>2. Msg(kind) \in Messages /\ Msg(kind) \in Only(kind) /\ Msg(kind).kind = kind
  BY MessageSets, PlainTasks DEF Kinds, Ops
<1> HIDE DEF t
<1>3. \A other \in {"hide", "show"} : other # kind => Msg(kind) \notin Only(other)
  BY <1>2 DEF Only
<1>4. \A f, v : Msg(kind) \notin Outdated(f, v)
  BY <1>2, MessageSets
<1> QED
  BY <1>1, <1>2, <1>3, <1>4, EmitFacts

(* Accepted, the client reports that it hides or all that is saved.        *)
LEMMA SuccessConv == ConvInv /\ ConnectionSuccessful => Converging'
<1> SUFFICES ASSUME ConvInv, ConnectionSuccessful PROVE Converging'
  OBVIOUS
<1> USE DEF tcpVars, uiVars, netVars, serverVars
<1> DEFINE p == Tail(queue)
           s == IF hidden THEN Emit("hide") ELSE EmitSaved
<1>1. /\ queue # << >> /\ Head(queue).op = "event" /\ queue' = p \o s
      /\ registered = "yes" /\ full' = TRUE
  BY DEF ConnectionSuccessful, Serving
<1>2. /\ socket' = socket /\ websocket' = websocket /\ session' = session /\ shown' = shown
      /\ toServer' = toServer /\ toClient' = toClient /\ registered' = registered
      /\ hidden' = hidden /\ saved' = saved /\ seen' = seen
  BY DEF ConnectionSuccessful
<1>3. /\ p \in Seq(Tasks) /\ Phase(p, full)
      /\ \A op : Has(p, op) => Has(queue, op)
      /\ \A ops : Without(queue, ops) => Without(p, ops)
      /\ \A msgs : Sends(queue, msgs) => Sends(p, msgs)
      /\ ShowingIn(queue, toServer) => ShowingIn(p, toServer)
  BY <1>1, TakenConv DEF Outbound
<1>4. AllEmit(s)
  BY EmitKind, SavedFacts, ConvQueue
<1>5. /\ ~hidden => /\ Harmless(s, Only("hide"))
                    /\ \A f \in Fields : /\ Waits(s, "emit", Current(f, saved[f]))
                                         /\ Harmless(s, Outdated(f, saved[f]))
      /\ hidden => Waits(s, "emit", Only("hide")) /\ Harmless(s, Only("show"))
  BY EmitKind, SavedFacts, ConvQueue
<1> HIDE DEF p, s
<1>6. s \in Seq(Tasks) /\ Without(s, {"connect"})
  BY <1>4 DEF AllEmit, Without
<1>7. Phase(queue, full)' /\ Starting' /\ Closed' /\ Unreported'
  BY <1>1, <1>2, <1>3, <1>4, EmittedConv
<1>8. ShowingIn(queue, toServer)'
  <2>1. ShowingIn(p, toServer)
    BY <1>3 DEF ConvInv, Converging
  <2>2. ShowingIn(queue', toServer')
    BY <2>1, <1>1, <1>2, <1>3, <1>5, <1>6, ConcatDelivers, ConnectSettlesConcat DEF ShowingIn
  <2> QED
    BY <2>2, <1>2, PrimeIn
<1>9. ReportedIn(queue', toServer')
  <2>1. hidden => Delivers(queue', toServer', ~shown, Only("hide"), Only("show"))
    BY <1>1, <1>3, <1>5, <1>6, ConcatDelivers
  <2>2. ASSUME ~hidden, NEW f \in Fields
        PROVE  Delivers(queue', toServer', seen[f] = saved[f], Current(f, saved[f]),
                        Outdated(f, saved[f]))
    BY <1>1, <1>3, <1>5, <1>6, <2>2, ConcatDelivers
  <2> QED
    BY <2>1, <2>2 DEF ReportedIn
<1>10. Reported'
  BY <1>2, <1>9, PrimeIn DEF Reported
<1> QED
  BY <1>7, <1>8, <1>10 DEF Converging

(* A call that emits something.                                            *)
LEMMA CallConv ==
    ASSUME ConvInv, Call, full, NEW s, AllEmit(s), queue' = queue \o s
    PROVE  /\ Phase(queue, full)' /\ Starting' /\ Closed' /\ Unreported'
           /\ s \in Seq(Tasks) /\ Without(s, {"connect"}) /\ queue \in Seq(Tasks)
           /\ ~PendingIn(queue', toClient') => ~PendingIn(queue, toClient)
<1> USE DEF tcpVars, netVars, serverVars
<1>1. s \in Seq(Tasks) /\ Without(s, {"connect"})
  BY DEF AllEmit, Without
<1>2. registered = "yes"
  BY DEF ConvInv, Converging, Closed
<1>3. queue \in Seq(Tasks) /\ Phase(queue, full)
  BY ConvQueue
<1>4. /\ full' = full /\ full' = TRUE /\ registered' = registered
      /\ socket' = socket /\ websocket' = websocket /\ session' = session /\ shown' = shown
      /\ toServer' = toServer /\ toClient' = toClient
  BY DEF Call, ConvInv, ReporterInv, TypeOK
<1>5. Phase(queue, full)' /\ Starting' /\ Closed' /\ Unreported'
  BY <1>2, <1>3, <1>4, EmittedConv
<1>6. PendingIn(queue, toClient) => PendingIn(queue', toClient')
  BY <1>1, <1>3, <1>4, PendingConcat
<1> QED
  BY <1>1, <1>3, <1>5, <1>6

(* A call while the client is not connected leaves the queue.              *)
LEMMA QuietCallConv ==
    ASSUME ConvInv, Call, ~full, queue' = queue
    PROVE  Phase(queue, full)' /\ Starting' /\ Closed' /\ Unreported' /\ Reported'
<1>1. /\ full' = full /\ registered' = registered
      /\ socket' = socket /\ websocket' = websocket /\ session' = session /\ shown' = shown
      /\ toServer' = toServer /\ toClient' = toClient
  BY DEF Call, tcpVars, netVars, serverVars
<1> QED
  BY <1>1 DEF ConvInv, Converging, Starting, Closed, Unreported, Reported

(* A field is edited.                                                      *)
LEMMA ChangeConv == ASSUME ConvInv, NEW f \in Fields, Change(f) PROVE Converging'
<1> USE DEF tcpVars, netVars, serverVars
<1>1. /\ Call /\ hidden' = hidden /\ saved' = [saved EXCEPT ![f] = edits + 2]
      /\ queue' = IF full THEN Append(queue, Task("emit", Set(f, edits + 2))) ELSE queue
  BY DEF Change
<1>2. /\ shown' = shown /\ seen' = seen /\ socket' = socket /\ full' = full
      /\ session' = session /\ toServer' = toServer
  BY <1>1 DEF Call
<1>3. CASE ~full
  <2>1. queue' = queue
    BY <1>1, <1>3
  <2>2. Phase(queue, full)' /\ Starting' /\ Closed' /\ Unreported' /\ Reported'
    BY <1>1, <1>3, <2>1, QuietCallConv
  <2>3. ShowingIn(queue, toServer)'
    BY <1>1, <1>2, <2>1 DEF ConvInv, Converging, ShowingIn
  <2> QED
    BY <2>2, <2>3 DEF Converging
<1>4. CASE full
  <2> DEFINE v == edits + 2
             t == Task("emit", Set(f, v))
             s == <<t>>
  <2>1. v \in Versions
    BY <1>1, MaxEditsIsNat DEF Call, Versions, ConvInv, ReporterInv, TypeOK
  <2>2. saved'[f] = v /\ \A g \in Fields : g # f => saved'[g] = saved[g]
    BY <1>1, ConvQueue
  <2>3. /\ t \in Tasks /\ t.op = "emit" /\ t.msg.kind = "set" /\ t.msg.field = f
        /\ t.msg.version = v
    BY <2>1, SetTask
  <2>4. t.msg \in Only("set")
    BY <2>3 DEF Only, Tasks
  <2> HIDE DEF t, v
  <2>5. /\ t.msg \in Current(f, v) /\ t.msg \notin Outdated(f, v)
        /\ \A g, w : g # f => t.msg \notin Outdated(g, w)
        /\ t.msg \notin Only("show") /\ t.msg \notin Only("hide")
    BY <2>3, <2>4, MessageSets DEF Current, Outdated
  <2>6. /\ AllEmit(s) /\ Waits(s, "emit", Current(f, v)) /\ Harmless(s, Outdated(f, v))
        /\ \A g, w : g # f => Harmless(s, Outdated(g, w))
        /\ Harmless(s, Only("show")) /\ Harmless(s, Only("hide"))
    BY <2>3, <2>5, EmitFacts
  <2>7. queue' = queue \o s
    BY <1>1, <1>4, <2>3, OneTask, ConvQueue DEF t, v
  <2> HIDE DEF s
  <2>8. /\ Phase(queue, full)' /\ Starting' /\ Closed' /\ Unreported'
        /\ s \in Seq(Tasks) /\ Without(s, {"connect"}) /\ queue \in Seq(Tasks)
        /\ ~PendingIn(queue', toClient') => ~PendingIn(queue, toClient)
    BY <1>1, <1>4, <2>6, <2>7, CallConv
  <2>9. ShowingIn(queue, toServer)'
    <3>1. ShowingIn(queue, toServer)
      BY DEF ConvInv, Converging
    <3>2. ~hidden => ConnectSettles(queue')
      BY <3>1, <2>6, <2>7, <2>8, ConnectSettlesConcat DEF ShowingIn
    <3>3. ~hidden /\ socket => Delivers(queue', toServer', shown, Only("show"), Only("hide"))
      BY <3>1, <1>2, <2>6, <2>7, <2>8, ConcatDelivers DEF ShowingIn
    <3> QED
      BY <1>1, <1>2, <3>2, <3>3 DEF ShowingIn
  <2>10. ASSUME ReportedIn(queue, toServer) PROVE ReportedIn(queue, toServer)'
    <3>1. hidden => Delivers(queue', toServer', ~shown, Only("hide"), Only("show"))
      BY <1>2, <2>6, <2>7, <2>8, <2>10, ConcatDelivers DEF ReportedIn
    <3>2. ASSUME ~hidden, NEW g \in Fields
          PROVE  Delivers(queue', toServer', seen[g] = saved'[g], Current(g, saved'[g]),
                          Outdated(g, saved'[g]))
      <4>1. CASE g = f
        BY <1>2, <2>2, <2>6, <2>7, <2>8, <4>1, ConcatDelivers
      <4>2. CASE g # f
        <5>1. Delivers(queue, toServer, seen[g] = saved[g], Current(g, saved[g]),
                       Outdated(g, saved[g]))
          BY <2>10, <3>2 DEF ReportedIn
        <5> QED
          BY <1>2, <2>2, <2>6, <2>7, <2>8, <4>2, <5>1, ConcatDelivers
      <4> QED
        BY <4>1, <4>2
    <3> QED
      BY <1>1, <1>2, <3>1, <3>2 DEF ReportedIn
  <2>11. Reported'
    BY <1>2, <2>8, <2>10 DEF ConvInv, Converging, Reported
  <2> QED
    BY <2>8, <2>9, <2>11 DEF Converging
<1> QED
  BY <1>3, <1>4 DEF ConvInv, ReporterInv, TypeOK

(* The station hides.                                                      *)
LEMMA HideConv == ConvInv /\ HideFromView => Converging'
<1> SUFFICES ASSUME ConvInv, HideFromView PROVE Converging'
  OBVIOUS
<1> USE DEF tcpVars, netVars, serverVars
<1> DEFINE s == Emit("hide")
<1>1. /\ Call /\ hidden' = TRUE /\ saved' = saved
      /\ queue' = IF full THEN queue \o s ELSE queue
  BY DEF HideFromView
<1>2. /\ shown' = shown /\ seen' = seen /\ socket' = socket /\ full' = full
      /\ session' = session /\ toServer' = toServer
  BY <1>1 DEF Call
<1>3. ShowingIn(queue, toServer)'
  BY <1>1 DEF ShowingIn
<1>4. CASE ~full
  BY <1>1, <1>3, <1>4, QuietCallConv DEF Converging
<1>5. CASE full
  <2>1. AllEmit(s) /\ Waits(s, "emit", Only("hide")) /\ Harmless(s, Only("show"))
    BY EmitKind
  <2> HIDE DEF s
  <2>2. queue' = queue \o s
    BY <1>1, <1>5
  <2>3. /\ Phase(queue, full)' /\ Starting' /\ Closed' /\ Unreported'
        /\ s \in Seq(Tasks) /\ queue \in Seq(Tasks)
    BY <1>1, <1>5, <2>1, <2>2, CallConv
  <2>4. Delivers(queue', toServer', ~shown, Only("hide"), Only("show"))
    BY <2>1, <2>2, <2>3, ConcatDelivers
  <2>5. ReportedIn(queue, toServer)'
    BY <1>1, <1>2, <2>4 DEF ReportedIn
  <2> QED
    BY <1>3, <2>3, <2>5 DEF Converging, Reported
<1> QED
  BY <1>4, <1>5 DEF ConvInv, ReporterInv, TypeOK

(* The station shows itself, and reports all that is saved.                *)
LEMMA ShowConv == ConvInv /\ ShowOurselves => Converging'
<1> SUFFICES ASSUME ConvInv, ShowOurselves PROVE Converging'
  OBVIOUS
<1> USE DEF tcpVars, netVars, serverVars
<1> DEFINE a == Emit("show")
           s == a \o EmitSaved
<1>1. /\ Call /\ hidden' = FALSE /\ saved' = saved
      /\ queue' = IF full THEN queue \o a \o EmitSaved ELSE queue
  BY DEF ShowOurselves
<1>2. /\ shown' = shown /\ seen' = seen /\ socket' = socket /\ full' = full
      /\ session' = session /\ toServer' = toServer
  BY <1>1 DEF Call
<1>3. CASE ~full
  <2>1. queue' = queue
    BY <1>1, <1>3
  <2>2. ASSUME socket PROVE Delivers(queue, toServer, shown, Only("show"), Only("hide"))
    <3>1. /\ shown /\ Without(queue, {"emit"})
          /\ Sends(queue, Unreporting) /\ Carries(toServer, Unreporting)
      BY <1>3, <2>2 DEF ConvInv, Converging, Unreported
    <3>2. Settles(queue, 0, Only("show"), Only("hide"))
      BY <3>1 DEF Settles, Without
    <3>3. \A i \in 1..Len(queue) : queue[i].op = "send" => queue[i].msg \notin Only("hide")
      BY <3>1, MessageSets DEF Sends
    <3>4. \A i \in 1..Len(toServer) : toServer[i] \notin Only("hide")
      BY <3>1, MessageSets DEF Carries
    <3> QED
      BY <3>1, <3>2, <3>3, <3>4, QuietDelivers
  <2>3. ConnectSettles(queue)
    <3> SUFFICES ASSUME NEW n \in 1..Len(queue), queue[n].op = "connect"
                 PROVE  Settles(queue, n, Only("show"), Only("hide"))
      BY DEF ConnectSettles
    <3>1. \A i \in 1..Len(queue) : n < i => queue[i].op # "emit"
      BY <1>3 DEF ConvInv, Converging, Phase, Lingering
    <3> QED
      BY <3>1, ConvQueue, LenProperties DEF Settles
  <2>4. ShowingIn(queue, toServer)'
    BY <1>2, <2>1, <2>2, <2>3 DEF ShowingIn
  <2> QED
    BY <1>1, <1>3, <2>1, <2>4, QuietCallConv DEF Converging
<1>4. CASE full
  <2>1. /\ AllEmit(a) /\ Waits(a, "emit", Only("show")) /\ Harmless(a, Only("hide"))
        /\ \A f, v : Harmless(a, Outdated(f, v))
    BY EmitKind
  <2>2. /\ AllEmit(EmitSaved) /\ Harmless(EmitSaved, Only("hide"))
        /\ \A f \in Fields : /\ Waits(EmitSaved, "emit", Current(f, saved[f]))
                             /\ Harmless(EmitSaved, Outdated(f, saved[f]))
    BY SavedFacts, ConvQueue
  <2> HIDE DEF a
  <2>3. a \in Seq(Tasks) /\ EmitSaved \in Seq(Tasks) /\ queue \in Seq(Tasks)
    BY <2>1, <2>2, ConvQueue DEF AllEmit
  <2>4. \A i \in 1..Len(s) :
           \/ i \in 1..Len(a) /\ s[i] = a[i]
           \/ i - Len(a) \in 1..Len(EmitSaved) /\ s[i] = EmitSaved[i - Len(a)]
    BY <2>3, ConcatParts
  <2>5. s \in Seq(Tasks)
    BY <2>3, ConcatProperties
  <2>6. /\ Waits(s, "emit", Only("show"))
        /\ \A f \in Fields : Waits(s, "emit", Current(f, saved[f]))
    BY <2>1, <2>2, <2>3, WaitsConcat
  <2>7. queue' = queue \o s
    BY <1>1, <1>4, <2>3
  <2>8. AllEmit(s)
    BY <2>1, <2>2, <2>4, <2>5 DEF AllEmit
  <2>9. \A bad : Harmless(a, bad) /\ Harmless(EmitSaved, bad) => Harmless(s, bad)
    BY <2>4 DEF Harmless
  <2>10. /\ Harmless(s, Only("hide"))
         /\ \A f \in Fields : Harmless(s, Outdated(f, saved[f]))
    BY <2>1, <2>2, <2>9
  <2> HIDE DEF s
  <2>11. /\ Phase(queue, full)' /\ Starting' /\ Closed' /\ Unreported'
         /\ Without(s, {"connect"})
    BY <1>1, <1>4, <2>7, <2>8, CallConv
  <2>12. Delivers(queue', toServer', shown, Only("show"), Only("hide"))
    BY <2>3, <2>5, <2>6, <2>7, <2>10, ConcatDelivers
  <2>13. ConnectSettles(queue')
    BY <2>3, <2>5, <2>6, <2>7, <2>10, <2>11, ConnectSettlesConcat
  <2>14. \A f \in Fields : Delivers(queue', toServer', seen[f] = saved[f],
                                    Current(f, saved[f]), Outdated(f, saved[f]))
    BY <2>3, <2>5, <2>6, <2>7, <2>10, ConcatDelivers
  <2>15. ShowingIn(queue, toServer)' /\ ReportedIn(queue, toServer)'
    BY <1>1, <1>2, <2>12, <2>13, <2>14 DEF ShowingIn, ReportedIn
  <2> QED
    BY <2>11, <2>15 DEF Converging, Reported
<1> QED
  BY <1>3, <1>4 DEF ConvInv, ReporterInv, TypeOK

(* What is carried, and what is added or taken.                            *)
LEMMA CarriesAppend ==
    ASSUME NEW ts \in Seq(Messages), NEW m \in Messages, NEW msgs, Carries(ts, msgs), m \in msgs
    PROVE  Carries(Append(ts, m), msgs)
<1>1. /\ Len(Append(ts, m)) = Len(ts) + 1 /\ Len(ts) \in Nat
      /\ \A i \in 1..Len(ts) : Append(ts, m)[i] = ts[i]
      /\ Append(ts, m)[Len(ts) + 1] = m
  BY AppendProperties, LenProperties
<1>2. \A i \in 1..Len(Append(ts, m)) : i = Len(ts) + 1 \/ i \in 1..Len(ts)
  BY <1>1
<1> QED
  BY <1>1, <1>2 DEF Carries

LEMMA CarriesTail ==
    ASSUME NEW ts \in Seq(Messages), ts # << >>, NEW msgs, Carries(ts, msgs)
    PROVE  Carries(Tail(ts), msgs) /\ Head(ts) \in msgs
<1>1. /\ Len(ts) \in Nat /\ Len(Tail(ts)) = Len(ts) - 1 /\ Head(ts) = ts[1]
      /\ \A i \in 1..Len(Tail(ts)) : Tail(ts)[i] = ts[i + 1]
  BY HeadTailProperties, LenProperties
<1>2. 1 \in 1..Len(ts)
  BY <1>1, EmptySeq
<1>3. \A i \in 1..Len(Tail(ts)) : i + 1 \in 1..Len(ts)
  BY <1>1
<1> QED
  BY <1>1, <1>2, <1>3 DEF Carries

(* A report is handed to the websocket, which sends it if it is open.      *)
LEMMA EmitConv == ConvInv /\ EmitTask => Converging'
<1> SUFFICES ASSUME ConvInv, EmitTask PROVE Converging'
  OBVIOUS
<1> USE DEF tcpVars, uiVars, netVars, serverVars
<1> DEFINE p == Tail(queue)
           t == Task("send", Served)
<1>1. /\ queue # << >> /\ Head(queue).op = "emit"
      /\ queue' = IF websocket = "open" THEN Append(p, t) ELSE p
  BY DEF EmitTask, Serving
<1>2. /\ hidden' = hidden /\ socket' = socket /\ shown' = shown /\ seen' = seen
      /\ saved' = saved /\ full' = full /\ registered' = registered /\ session' = session
      /\ toServer' = toServer /\ toClient' = toClient /\ websocket' = websocket
  BY DEF EmitTask
<1>3. queue \in Seq(Tasks) /\ p \in Seq(Tasks) /\ Head(queue) \in Tasks
  BY <1>1, ConvQueue, HeadTailProperties
<1>4. /\ Phase(p, full)
      /\ \A op : Has(p, op) => Has(queue, op)
      /\ \A ops : Without(queue, ops) => Without(p, ops) /\ Head(queue).op \notin ops
      /\ \A msgs : Sends(queue, msgs) => Sends(p, msgs)
  BY <1>1, ConvQueue, TailPhase
<1>5. PendingIn(queue, toClient) => PendingIn(p, toClient)
  BY <1>1, <1>3, TailIn
<1>6. ConnectSettles(queue) => ConnectSettles(p)
  BY <1>1, <1>3, ConnectSettlesTail
<1>7. t \in Tasks /\ t = Task("send", Head(queue).msg) /\ t.op = "send"
  BY <1>3 DEF Task, Tasks, Ops, Served
<1> HIDE DEF p
<1>8. CASE websocket = "open"
  <2>1. socket /\ ~Has(queue, "connect") /\ ~Has(queue, "onConnect")
    BY <1>8, ConvQueue DEF ConvInv, Converging, Closed, Starting
  <2>2. full
    BY <1>1, <1>4, <2>1 DEF ConvInv, Converging, Unreported
  <2> DEFINE s == <<t>>
  <2>3. /\ queue' = p \o s /\ queue' = Append(Tail(queue), Task("send", Head(queue).msg))
        /\ s \in Seq(Tasks)
    BY <1>1, <1>3, <1>7, <1>8, OneTask DEF p
  <2>4. /\ \A op : Has(s, op) <=> t.op = op
        /\ \A ops : Without(s, ops) <=> t.op \notin ops
    BY <1>7, OneFacts
  <2> HIDE DEF s, t
  <2>5. /\ Phase(queue', full)
        /\ \A op : Has(queue', op) <=> Has(p, op) \/ Has(s, op)
    <3>1. Without(s, {"connect", "onConnect", "drop"})
      BY <1>7, <2>4
    <3>2. ~Has(p, "connect")
      BY <1>4, <2>1
    <3>3. /\ Phase(p \o s, full)
          /\ \A op : Has(p \o s, op) <=> Has(p, op) \/ Has(s, op)
      <4>1. p \in Seq(Tasks) /\ s \in Seq(Tasks) /\ Phase(p, full)
        BY <1>3, <1>4, <2>3
      <4> QED
        BY <4>1, <3>1, <3>2, ConcatPhase
    <3>4. queue' = p \o s
      BY <2>3
    <3> QED
      BY <3>3, <3>4
  <2>6. ~Has(queue', "connect") /\ ~Has(queue', "onConnect")
    BY <1>4, <1>7, <2>1, <2>4, <2>5
  <2>7. Starting' /\ Closed' /\ Unreported'
    BY <1>2, <1>8, <2>2, <2>6, <2>1 DEF ConvInv, Converging, Starting, Closed, Unreported
  <2>8. ConnectSettles(queue')
    BY <2>6 DEF ConnectSettles, Has
  <2>9. \A now, good, bad : Delivers(queue, toServer, now, good, bad)
                               => Delivers(queue', toServer, now, good, bad)
    BY <1>1, <1>3, <2>3, EmitDelivers
  <2>10. ShowingIn(queue, toServer)'
    BY <1>2, <2>8, <2>9 DEF ConvInv, Converging, ShowingIn
  <2>11. ReportedIn(queue, toServer) => ReportedIn(queue, toServer)'
    BY <1>2, <2>9 DEF ReportedIn
  <2>12. PendingIn(queue, toClient) => PendingIn(queue', toClient')
    BY <1>2, <1>3, <1>5, <2>3, PendingConcat
  <2>13. Reported'
    BY <1>2, <2>11, <2>12 DEF ConvInv, Converging, Reported
  <2> QED
    BY <1>2, <2>5, <2>7, <2>10, <2>13 DEF Converging
<1>9. CASE websocket # "open"
  <2>1. queue' = p
    BY <1>1, <1>9
  <2>2. Starting' /\ Closed' /\ Unreported'
    BY <1>2, <1>4, <2>1 DEF ConvInv, Converging, Starting, Closed, Unreported
  <2>3. ASSUME ~hidden, socket
        PROVE  Delivers(queue', toServer', shown, Only("show"), Only("hide"))
    <3>1. /\ shown /\ Sends(queue, Only("hello")) /\ Carries(toServer, Only("hello"))
      BY <1>9, <2>3 DEF ConvInv, Converging, Closed
    <3>2. Settles(queue, 0, Only("show"), Only("hide"))
      BY <2>3 DEF ConvInv, Converging, ShowingIn, Delivers
    <3>3. Settles(p, 0, Only("show"), Only("hide"))
      BY <1>1, <1>3, <3>2, SettlesTail DEF p
    <3>4. \A i \in 1..Len(p) : p[i].op = "send" => p[i].msg \notin Only("hide")
      BY <1>4, <3>1, MessageSets DEF Sends
    <3>5. \A i \in 1..Len(toServer) : toServer[i] \notin Only("hide")
      BY <3>1, MessageSets DEF Carries
    <3> QED
      BY <1>2, <2>1, <3>1, <3>3, <3>4, <3>5, QuietDelivers
  <2>4. ShowingIn(queue, toServer)'
    BY <1>2, <1>6, <2>1, <2>3 DEF ConvInv, Converging, ShowingIn
  <2>5. ~session
    BY <1>9, ConvQueue DEF ConvInv, Converging, Closed
  <2>6. Reported'
    BY <1>2, <2>5 DEF Reported
  <2> QED
    BY <1>2, <1>4, <2>1, <2>2, <2>4, <2>6 DEF Converging
<1> QED
  BY <1>8, <1>9

(* A message is written to the socket, if there is one.                    *)
LEMMA SendConv == ConvInv /\ SendTask => Converging'
<1> SUFFICES ASSUME ConvInv, SendTask PROVE Converging'
  OBVIOUS
<1> USE DEF tcpVars, uiVars, netVars, serverVars
<1>1. /\ queue # << >> /\ Head(queue).op = "send" /\ queue' = Tail(queue)
      /\ toServer' = IF socket THEN Append(toServer, Head(queue).msg) ELSE toServer
  BY DEF SendTask, Serving, Served
<1>2. /\ hidden' = hidden /\ socket' = socket /\ shown' = shown /\ seen' = seen
      /\ saved' = saved /\ full' = full /\ registered' = registered /\ session' = session
      /\ toClient' = toClient /\ websocket' = websocket
  BY DEF SendTask
<1>3. /\ queue \in Seq(Tasks) /\ toServer \in Seq(Messages)
      /\ Head(queue) \in Tasks /\ Head(queue).msg \in Messages
  <2>1. queue \in Seq(Tasks) /\ toServer \in Seq(Messages)
    BY ConvQueue
  <2>2. Head(queue) \in Tasks
    BY <1>1, <2>1, HeadTailProperties
  <2> QED
    BY <2>1, <2>2 DEF Tasks
<1>4. /\ Phase(queue', full)
      /\ \A op : Has(queue', op) => Has(queue, op)
      /\ \A ops : Without(queue, ops) => Without(queue', ops) /\ Head(queue).op \notin ops
      /\ \A msgs : Sends(queue, msgs) => Sends(queue', msgs)
  BY <1>1, ConvQueue, TailPhase
<1>5. PendingIn(queue, toClient) => PendingIn(queue', toClient)
  BY <1>1, <1>3, TailIn
<1>6. ConnectSettles(queue) => ConnectSettles(queue')
  BY <1>1, <1>3, ConnectSettlesTail
<1>7. ~Has(queue', "onConnect")
  BY <1>1, <1>4 DEF ConvInv, Converging, Starting
<1>8. \A msgs : Sends(queue, msgs) => Head(queue).msg \in msgs
  <2>1. Head(queue) = queue[1] /\ 1 \in 1..Len(queue)
    BY <1>1, <1>3, HeadTailProperties, LenProperties, EmptySeq
  <2> QED
    BY <2>1, <1>1 DEF Sends
<1>9. \A msgs : Sends(queue, msgs) /\ Carries(toServer, msgs) => Carries(toServer', msgs)
  BY <1>1, <1>3, <1>8, CarriesAppend
<1>10. Starting' /\ Closed' /\ Unreported'
  BY <1>2, <1>4, <1>7, <1>9 DEF ConvInv, Converging, Starting, Closed, Unreported
<1>11. socket => \A now, good, bad : Delivers(queue, toServer, now, good, bad)
                                       => Delivers(queue', toServer', now, good, bad)
  BY <1>1, <1>3, SendDelivers
<1>12. ShowingIn(queue, toServer)'
  BY <1>2, <1>6, <1>11 DEF ConvInv, Converging, ShowingIn
<1>13. session /\ ReportedIn(queue, toServer) => ReportedIn(queue, toServer)'
  BY <1>2, <1>11, ConvQueue DEF ReportedIn
<1>14. Reported'
  BY <1>2, <1>5, <1>13 DEF ConvInv, Converging, Reported
<1> QED
  BY <1>2, <1>4, <1>10, <1>12, <1>14 DEF Converging

(* The connection is dropped.                                              *)
LEMMA DropConv == ConvInv /\ Drop => Converging'
<1> SUFFICES ASSUME ConvInv, Drop PROVE Converging'
  OBVIOUS
<1>1. queue # << >> /\ Head(queue).op = "drop" /\ queue' = Tail(queue)
  BY DEF Drop, Serving
<1>2. /\ socket' = FALSE /\ full' = FALSE /\ session' = FALSE /\ shown' = TRUE
      /\ websocket' # "open"
  BY DEF Drop
<1>3. /\ Phase(queue', full)
      /\ \A op : Has(queue', op) => Has(queue, op)
      /\ ~Has(queue', "onConnect")
  BY <1>1, ConvQueue, TailPhase
<1>4. socket
  BY <1>1, ConvQueue, HasTail DEF ConvInv, ReporterInv, Link
<1>5. ~Has(queue', "connect")
  BY <1>3, <1>4, ConvQueue
<1>6. Phase(queue', FALSE)
  BY <1>3, <1>5 DEF Phase, Lingering, Has
<1>7. ConnectSettles(queue')
  BY <1>5 DEF ConnectSettles, Has
<1>8. Starting' /\ Closed' /\ Unreported' /\ Reported'
  BY <1>2, <1>3 DEF Starting, Closed, Unreported, Reported
<1>9. ShowingIn(queue, toServer)'
  BY <1>2, <1>7 DEF ShowingIn
<1> QED
  BY <1>2, <1>6, <1>8, <1>9 DEF Converging

(* What the queue holds behind an attempt to connect.                      *)
LEMMA ConnectingConv ==
    ASSUME ConvInv, Serving("connect"), NEW p, p = Tail(queue)
    PROVE  /\ queue \in Seq(Tasks) /\ p \in Seq(Tasks) /\ Phase(p, full)
           /\ Without(p, Late) /\ (Without(p, {"emit"}) \/ full)
           /\ ~Has(p, "connect") /\ ~Has(p, "onConnect") /\ ~Has(p, "drop")
           /\ ConnectSettles(queue) =>
                 ConnectSettles(p) /\ Settles(p, 0, Only("show"), Only("hide"))
           /\ ~socket /\ ~session /\ toServer = << >> /\ toClient = << >>
<1>1. queue \in Seq(Tasks) /\ queue # << >> /\ Head(queue).op = "connect"
  BY ConvQueue DEF Serving
<1>2. p \in Seq(Tasks)
  BY <1>1, HeadTailProperties
<1>3. /\ Phase(p, full) /\ \A op : Has(p, op) => Has(queue, op)
      /\ Without(p, Late) /\ (Without(p, {"emit"}) \/ full)
  BY <1>1, ConvQueue, TailPhase
<1>4. Has(queue, "connect") /\ ~Has(p, "connect")
  BY <1>1, TailOnce DEF ConvInv, ReporterInv, Link
<1>5. ~socket /\ ~session /\ toServer = << >> /\ toClient = << >>
  BY <1>4, ConvQueue
<1>6. ~Has(p, "drop")
  BY <1>3, <1>5 DEF ConvInv, ReporterInv, Link
<1>7. ~Has(p, "onConnect")
  BY <1>3 DEF Has, Without, Late
<1>8. ConnectSettles(queue) =>
         ConnectSettles(p) /\ Settles(p, 0, Only("show"), Only("hide"))
  BY <1>1, ConnectSettlesTail
<1> QED
  BY <1>1, <1>2, <1>3, <1>4, <1>5, <1>6, <1>7, <1>8

(* A connection is made: nothing of an earlier one is left but reports,    *)
(* and those put together show the station unless it hides.                *)
LEMMA ConnectConv == ConvInv /\ ConnectSucceeds => Converging'
<1> SUFFICES ASSUME ConvInv, ConnectSucceeds PROVE Converging'
  OBVIOUS
<1> USE DEF uiVars, netVars, serverVars
<1> DEFINE p == Tail(queue)
           t == Plain("onConnect")
           s == <<t>>
<1>1. Serving("connect") /\ queue' = Append(p, t) /\ socket' = TRUE
  BY DEF ConnectSucceeds
<1>2. /\ hidden' = hidden /\ shown' = shown /\ full' = full /\ registered' = registered
      /\ session' = session /\ toServer' = toServer /\ toClient' = toClient
      /\ websocket' = websocket
  BY DEF ConnectSucceeds
<1>3. t \in Tasks /\ t.op = "onConnect"
  BY PlainTasks DEF Ops, Kinds
<1> HIDE DEF t
<1>4. /\ p \in Seq(Tasks) /\ Phase(p, full)
      /\ Without(p, Late) /\ (Without(p, {"emit"}) \/ full)
      /\ ~Has(p, "connect") /\ ~Has(p, "onConnect") /\ ~Has(p, "drop")
      /\ ConnectSettles(queue) => Settles(p, 0, Only("show"), Only("hide"))
      /\ ~socket /\ ~session /\ toServer = << >> /\ toClient = << >>
  BY <1>1, ConnectingConv
<1> HIDE DEF p
<1>5. /\ Phase(queue', full)
      /\ \A op : Has(queue', op) => Has(p, op) \/ op = t.op
      /\ \A ops : Without(p, ops) /\ t.op \notin ops => Without(queue', ops)
  BY <1>1, <1>3, <1>4, AppendPhase
<1>6. Without(queue', {"send", "receive", "event"})
  <2>1. Without(p, {"send", "receive", "event"})
    BY <1>4 DEF Without, Late
  <2> QED
    BY <2>1, <1>3, <1>5
<1>7. \A msgs : Sends(queue', msgs)
  BY <1>6 DEF Sends, Without
<1>8. Len(toServer) = 0 /\ \A msgs : Carries(toServer, msgs)
  <2>1. Len(toServer) = 0
    BY <1>4
  <2> QED
    BY <2>1 DEF Carries
<1>9. websocket # "open" /\ shown
  BY <1>4 DEF ConvInv, Converging, Closed
<1>10. ~full => Without(queue', {"emit"})
  BY <1>3, <1>4, <1>5
<1>11. Starting' /\ Closed' /\ Unreported'
  <2>1. Starting'
    BY <1>1, <1>2, <1>4, <1>6, <1>9 DEF Starting
  <2>2. Closed'
    BY <1>1, <1>2, <1>4, <1>7, <1>8, <1>9 DEF ConvInv, Converging, Closed
  <2>3. Unreported'
    BY <1>1, <1>2, <1>7, <1>8, <1>9, <1>10 DEF Unreported
  <2> QED
    BY <2>1, <2>2, <2>3
<1>12. ASSUME ~hidden PROVE Delivers(queue', toServer', shown', Only("show"), Only("hide"))
  <2>1. Settles(p, 0, Only("show"), Only("hide"))
    BY <1>4, <1>12 DEF ConvInv, Converging, ShowingIn
  <2>2. s \in Seq(Tasks) /\ queue' = p \o s /\ Harmless(s, Only("hide"))
    BY <1>1, <1>3, <1>4, OneTask, OneFacts DEF Outbound
  <2> HIDE DEF s
  <2>3. Settles(queue', 0, Only("show"), Only("hide"))
    BY <1>4, <2>1, <2>2, SettlesConcat
  <2>4. \A i \in 1..Len(queue') : queue'[i].op = "send" => queue'[i].msg \notin Only("hide")
    BY <1>6 DEF Without
  <2>5. \A i \in 1..Len(toServer') : toServer'[i] \notin Only("hide")
    BY <1>2, <1>8
  <2> QED
    BY <1>2, <1>9, <2>3, <2>4, <2>5, QuietDelivers
<1>13. ConnectSettles(queue')
  <2>1. ~Has(queue', "connect")
    BY <1>3, <1>4, <1>5
  <2> QED
    BY <2>1 DEF ConnectSettles, Has
<1>14. ShowingIn(queue, toServer)'
  BY <1>2, <1>12, <1>13 DEF ShowingIn
<1>15. Reported'
  BY <1>2, <1>4 DEF Reported
<1> QED
  BY <1>2, <1>5, <1>11, <1>14, <1>15 DEF Converging

(* The attempt fails.                                                      *)
LEMMA FailConv == ConvInv /\ ConnectFails => Converging'
<1> SUFFICES ASSUME ConvInv, ConnectFails PROVE Converging'
  OBVIOUS
<1> USE DEF uiVars, netVars, serverVars
<1> DEFINE p == Tail(queue)
<1>1. Serving("connect") /\ queue' = p
  BY DEF ConnectFails
<1>2. /\ hidden' = hidden /\ shown' = shown /\ full' = full /\ registered' = registered
      /\ session' = session /\ toServer' = toServer /\ toClient' = toClient
      /\ websocket' = websocket /\ socket' = socket
  BY DEF ConnectFails
<1>3. /\ Phase(p, full) /\ ~Has(p, "onConnect")
      /\ ConnectSettles(queue) => ConnectSettles(p)
      /\ ~socket /\ ~session
  BY <1>1, ConnectingConv
<1> HIDE DEF p
<1>4. Starting' /\ Closed' /\ Unreported' /\ Reported'
  BY <1>1, <1>2, <1>3 DEF ConvInv, Converging, Starting, Closed, Unreported, Reported
<1>5. ShowingIn(queue, toServer)'
  BY <1>1, <1>2, <1>3 DEF ConvInv, Converging, ShowingIn
<1> QED
  BY <1>1, <1>2, <1>3, <1>4, <1>5 DEF Converging

(* The next attempt is the last task.                                      *)
LEMMA RetryConv == ConvInv /\ RetryTimer => Converging'
<1> SUFFICES ASSUME ConvInv, RetryTimer PROVE Converging'
  OBVIOUS
<1> USE DEF uiVars, netVars, serverVars
<1> DEFINE t == Plain("connect")
<1>1. retry /\ queue' = Append(queue, t)
  BY DEF RetryTimer
<1>2. /\ hidden' = hidden /\ shown' = shown /\ full' = full /\ registered' = registered
      /\ session' = session /\ toServer' = toServer /\ toClient' = toClient
      /\ websocket' = websocket /\ socket' = socket
  BY DEF RetryTimer
<1>3. t \in Tasks /\ t.op = "connect"
  BY PlainTasks DEF Ops, Kinds
<1> HIDE DEF t
<1>4. ~socket /\ ~session /\ ~Has(queue, "connect")
  BY <1>1, ConvQueue DEF ConvInv, ReporterInv, Link, TypeOK
<1>5. queue \in Seq(Tasks) /\ Phase(queue, full)
  BY ConvQueue
<1>6. /\ Phase(queue', full)
      /\ \A op : Has(queue', op) => Has(queue, op) \/ op = t.op
      /\ \A i \in 1..Len(queue') : queue'[i].op = "connect" => i = Len(queue')
  BY <1>1, <1>3, <1>4, <1>5, AppendPhase
<1>7. queue' \in Seq(Tasks)
  BY <1>1, <1>3, <1>5, AppendProperties
<1>8. ConnectSettles(queue')
  BY <1>6, <1>7, NoConnectSettles
<1>9. ~Has(queue', "onConnect")
  BY <1>3, <1>4, <1>6 DEF ConvInv, Converging, Starting
<1>10. Starting' /\ Closed' /\ Unreported' /\ Reported'
  BY <1>2, <1>4, <1>9 DEF ConvInv, Converging, Starting, Closed, Unreported, Reported
<1>11. ShowingIn(queue, toServer)'
  BY <1>2, <1>4, <1>8 DEF ShowingIn
<1> QED
  BY <1>2, <1>6, <1>10, <1>11 DEF Converging

(* The connection fails: it is to be dropped.                              *)
LEMMA FailingConv == ConvInv /\ ConnectionFails => Converging'
<1> SUFFICES ASSUME ConvInv, ConnectionFails PROVE Converging'
  OBVIOUS
<1> USE DEF uiVars, netVars, serverVars
<1> DEFINE t == Plain("drop")
           s == <<t>>
<1>1. socket /\ queue' = Append(queue, t)
  BY DEF ConnectionFails
<1>2. /\ hidden' = hidden /\ shown' = shown /\ full' = full /\ registered' = registered
      /\ session' = session /\ toServer' = toServer /\ toClient' = toClient
      /\ websocket' = websocket /\ socket' = socket /\ saved' = saved /\ seen' = seen
  BY DEF ConnectionFails
<1>3. t \in Tasks /\ t.op = "drop"
  BY PlainTasks DEF Ops, Kinds
<1> HIDE DEF t
<1>4. queue \in Seq(Tasks) /\ Phase(queue, full) /\ ~Has(queue, "connect")
  BY <1>1, ConvQueue
<1>5. /\ Phase(queue', full)
      /\ \A op : Has(queue', op) => Has(queue, op) \/ op = t.op
      /\ \A ops : Without(queue, ops) /\ t.op \notin ops => Without(queue', ops)
      /\ \A msgs : Sends(queue, msgs) => Sends(queue', msgs)
  BY <1>1, <1>3, <1>4, AppendPhase
<1>6. /\ s \in Seq(Tasks) /\ queue' = queue \o s /\ Neutral(s) /\ Without(s, {"connect"})
  BY <1>1, <1>3, <1>4, OneTask, OneFacts, OneNeutral DEF Outbound
<1> HIDE DEF s
<1>7. /\ ShowingIn(queue, toServer) => ShowingIn(queue', toServer)
      /\ ReportedIn(queue, toServer) => ReportedIn(queue', toServer)
      /\ PendingIn(queue, toClient) => PendingIn(queue', toClient)
  BY <1>4, <1>6, ConcatIn
<1>8. Starting'
  <2> SUFFICES ASSUME Has(queue', "onConnect") PROVE Starting'
    BY DEF Starting
  <2>1. Has(queue, "onConnect")
    BY <1>3, <1>5
  <2>2. /\ socket /\ websocket # "open" /\ ~session
        /\ toServer = << >> /\ toClient = << >>
        /\ Without(queue, {"send", "receive", "event"})
    BY <2>1 DEF ConvInv, Converging, Starting
  <2>3. Without(queue', {"send", "receive", "event"})
    BY <1>3, <1>5, <2>2
  <2> QED
    BY <1>2, <2>2, <2>3 DEF Starting
<1>9. Closed'
  BY <1>2, <1>5 DEF ConvInv, Converging, Closed
<1>10. Unreported'
  <2>1. Without(queue, {"emit"}) => Without(queue', {"emit"})
    BY <1>3, <1>5
  <2> QED
    BY <1>2, <1>5, <2>1 DEF ConvInv, Converging, Unreported
<1>11. ShowingIn(queue, toServer)' /\ Reported'
  BY <1>2, <1>7, PrimeIn DEF ConvInv, Converging, Reported
<1> QED
  BY <1>2, <1>5, <1>8, <1>9, <1>10, <1>11 DEF Converging

(* What travels, and what is added or taken.                               *)
LEMMA TravelsAppend ==
    ASSUME NEW ts \in Seq(Messages), NEW m \in Messages, NEW good
    PROVE  Travels(Append(ts, m), good) <=> Travels(ts, good) \/ m \in good
<1> DEFINE us == Append(ts, m)
<1>1. /\ Len(us) = Len(ts) + 1 /\ Len(ts) \in Nat
      /\ \A i \in 1..Len(ts) : us[i] = ts[i]
      /\ us[Len(ts) + 1] = m
  BY AppendProperties, LenProperties
<1> HIDE DEF us
<1>2. /\ \A i \in 1..Len(us) : i = Len(ts) + 1 \/ i \in 1..Len(ts)
      /\ \A i \in 1..Len(ts) : i \in 1..Len(us)
      /\ Len(ts) + 1 \in 1..Len(us)
  BY <1>1
<1>3. Travels(us, good) <=> Travels(ts, good) \/ m \in good
  BY <1>1, <1>2 DEF Travels
<1> QED
  BY <1>3 DEF us

LEMMA TravelsTail ==
    ASSUME NEW ts \in Seq(Messages), ts # << >>, NEW good, Travels(ts, good)
    PROVE  Travels(Tail(ts), good) \/ Head(ts) \in good
<1>1. /\ Len(ts) \in Nat /\ Len(Tail(ts)) = Len(ts) - 1 /\ Head(ts) = ts[1]
      /\ \A i \in 1..Len(Tail(ts)) : Tail(ts)[i] = ts[i + 1]
  BY HeadTailProperties, LenProperties
<1>2. PICK j \in 1..Len(ts) : ts[j] \in good
  BY DEF Travels
<1>3. CASE j = 1
  BY <1>1, <1>2, <1>3
<1>4. CASE j # 1
  <2>1. j - 1 \in 1..Len(Tail(ts)) /\ (j - 1) + 1 = j
    BY <1>1, <1>4
  <2>2. Tail(ts)[j - 1] = ts[j]
    BY <1>1, <2>1
  <2> QED
    BY <1>2, <2>1, <2>2 DEF Travels
<1> QED
  BY <1>3, <1>4

(* The receive thread passes on what has arrived.                          *)
LEMMA ReceiveThreadConv == ConvInv /\ ReceiveThread => Converging'
<1> SUFFICES ASSUME ConvInv, ReceiveThread PROVE Converging'
  OBVIOUS
<1> USE DEF tcpVars, uiVars, serverVars
<1> DEFINE t == Task("receive", Head(toClient))
<1>1. /\ socket /\ toClient # << >> /\ queue' = Append(queue, t) /\ toClient' = Tail(toClient)
  BY DEF ReceiveThread
<1>2. /\ hidden' = hidden /\ shown' = shown /\ full' = full /\ registered' = registered
      /\ session' = session /\ toServer' = toServer
      /\ websocket' = websocket /\ socket' = socket /\ saved' = saved /\ seen' = seen
  BY DEF ReceiveThread
<1>3. toClient \in Seq(Messages) /\ Head(toClient) \in Messages
  BY <1>1, ConvQueue, HeadTailProperties
<1>4. t \in Tasks /\ t.op = "receive" /\ t.msg = Head(toClient)
  BY <1>3 DEF Task, Tasks, Ops
<1> HIDE DEF t
<1>5. queue \in Seq(Tasks) /\ Phase(queue, full) /\ ~Has(queue, "connect")
  BY <1>1, ConvQueue
<1>6. /\ Phase(queue', full)
      /\ \A op : Has(queue', op) <=> Has(queue, op) \/ t.op = op
      /\ \A ops : Without(queue', ops) <=> Without(queue, ops) /\ t.op \notin ops
      /\ \A msgs : Sends(queue', msgs) <=> Sends(queue, msgs) /\ (t.op = "send" => t.msg \in msgs)
      /\ ShowingIn(queue, toServer) => ShowingIn(queue', toServer)
      /\ ReportedIn(queue, toServer) => ReportedIn(queue', toServer)
      /\ PendingIn(queue, toClient') \/ t.msg \in Only("success")
            => PendingIn(queue', toClient')
  BY <1>1, <1>4, <1>5, AddNeutral
<1>7. ~Has(queue', "onConnect")
  BY <1>1, <1>4, <1>6 DEF ConvInv, Converging, Starting
<1>8. Starting' /\ Closed'
  BY <1>2, <1>4, <1>6, <1>7 DEF ConvInv, Converging, Starting, Closed
<1>9. Unreported'
  BY <1>2, <1>4, <1>6 DEF ConvInv, Converging, Unreported
<1>10. PendingIn(queue, toClient) => PendingIn(queue', toClient')
  <2>1. Travels(toClient, Only("success"))
           => Travels(toClient', Only("success")) \/ t.msg \in Only("success")
    BY <1>1, <1>3, <1>4, TravelsTail
  <2>2. PendingIn(queue, toClient)
           => PendingIn(queue, toClient') \/ t.msg \in Only("success")
    BY <2>1 DEF PendingIn
  <2> QED
    BY <1>6, <2>2
<1>11. ShowingIn(queue, toServer)' /\ Reported'
  BY <1>2, <1>6, <1>10, PrimeIn DEF ConvInv, Converging, Reported
<1> QED
  BY <1>2, <1>6, <1>8, <1>9, <1>11 DEF Converging

(* What holds before the server handles a message.                         *)
LEMMA ArrivedConv ==
    ASSUME ConvInv, toServer # << >>
    PROVE  /\ toServer \in Seq(Messages) /\ Head(toServer) \in Messages /\ toClient \in Seq(Messages)
           /\ socket /\ ~Has(queue, "onConnect")
           /\ \A msgs : Carries(toServer, msgs) =>
                 Carries(Tail(toServer), msgs) /\ Head(toServer) \in msgs
           /\ ~hidden => Delivers(queue, toServer, shown, Only("show"), Only("hide"))
           /\ ~hidden => ConnectSettles(queue)
<1>1. toServer \in Seq(Messages) /\ toClient \in Seq(Messages) /\ socket
  BY ConvQueue
<1>2. Head(toServer) \in Messages
  BY <1>1, HeadTailProperties
<1>3. ~Has(queue, "onConnect")
  BY DEF ConvInv, Converging, Starting
<1>4. \A msgs : Carries(toServer, msgs) =>
         Carries(Tail(toServer), msgs) /\ Head(toServer) \in msgs
  BY <1>1, CarriesTail
<1> QED
  BY <1>1, <1>2, <1>3, <1>4 DEF ConvInv, Converging, ShowingIn

(* A message the server's picture does not depend on is taken.             *)
LEMMA HandshakeConv ==
    ASSUME ConvInv, toServer # << >>, Take, Head(toServer).kind \in {"hello", "auth"},
           seen' = seen, shown' = shown,
           session' \in BOOLEAN, session => session',
           session' /\ ~session => websocket = "open" /\ PendingIn(queue, toClient'),
           PendingIn(queue, toClient) => PendingIn(queue, toClient')
    PROVE  Converging'
<1> USE DEF tcpVars, uiVars
<1>1. /\ toServer' = Tail(toServer) /\ queue' = queue /\ websocket' = websocket
      /\ hidden' = hidden /\ full' = full /\ registered' = registered
      /\ socket' = socket /\ saved' = saved
  BY DEF Take
<1>2. /\ toServer \in Seq(Messages) /\ Head(toServer) \in Messages
      /\ socket /\ ~Has(queue, "onConnect")
      /\ \A msgs : Carries(toServer, msgs) =>
            Carries(Tail(toServer), msgs) /\ Head(toServer) \in msgs
      /\ ~hidden => Delivers(queue, toServer, shown, Only("show"), Only("hide"))
      /\ ~hidden => ConnectSettles(queue)
  BY ArrivedConv
<1>3. Head(toServer) \in Unreporting
  BY <1>2 DEF Unreporting
<1>4. /\ Head(toServer) \notin Only("show") /\ Head(toServer) \notin Only("hide")
      /\ \A f, v : Head(toServer) \notin Current(f, v) /\ Head(toServer) \notin Outdated(f, v)
  BY <1>3, MessageSets
<1>5. \A now, good, bad :
         Delivers(queue, toServer, now, good, bad) /\ Head(toServer) \notin good
            => Delivers(queue, Tail(toServer), now, good, bad)
  BY <1>2, TakeDelivers
<1>6. ShowingIn(queue, toServer)'
  BY <1>1, <1>2, <1>4, <1>5 DEF ShowingIn
<1>7. ASSUME ReportedIn(queue, toServer) PROVE ReportedIn(queue, toServer)'
  <2>1. hidden => Delivers(queue, Tail(toServer), ~shown, Only("hide"), Only("show"))
    BY <1>4, <1>5, <1>7 DEF ReportedIn
  <2>2. ASSUME ~hidden, NEW f \in Fields
        PROVE  Delivers(queue, Tail(toServer), seen[f] = saved[f], Current(f, saved[f]),
                        Outdated(f, saved[f]))
    BY <1>4, <1>5, <1>7, <2>2 DEF ReportedIn
  <2> QED
    BY <1>1, <2>1, <2>2 DEF ReportedIn
<1>8. Reported'
  BY <1>1, <1>7 DEF ConvInv, Converging, Reported
<1>9. Starting' /\ Unreported'
  BY <1>1, <1>2 DEF ConvInv, Converging, Starting, Unreported
<1>10. Closed'
  BY <1>1, <1>2 DEF ConvInv, Converging, Closed
<1>11. Phase(queue, full)'
  BY <1>1, ConvQueue
<1> QED
  BY <1>6, <1>8, <1>9, <1>10, <1>11 DEF Converging

LEMMA OpensConv == ConvInv /\ ServerOpens => Converging'
<1> SUFFICES ASSUME ConvInv, ServerOpens PROVE Converging'
  OBVIOUS
<1>1. /\ toServer # << >> /\ Head(toServer).kind = "hello" /\ Take
      /\ toClient' = Append(toClient, Msg("opened"))
      /\ session' = session /\ seen' = seen /\ shown' = shown
  BY DEF ServerOpens, Arriving, serverVars
<1>2. toClient \in Seq(Messages) /\ Msg("opened") \in Messages
  BY ConvQueue, MessageSets DEF Kinds
<1>3. PendingIn(queue, toClient) => PendingIn(queue, toClient')
  BY <1>1, <1>2, TravelsAppend DEF PendingIn
<1>4. session' \in BOOLEAN
  BY <1>1 DEF ConvInv, ReporterInv, TypeOK
<1> QED
  BY <1>1, <1>3, <1>4, HandshakeConv

LEMMA AcceptsConv == ConvInv /\ ServerAccepts => Converging'
<1> SUFFICES ASSUME ConvInv, ServerAccepts PROVE Converging'
  OBVIOUS
<1>1. /\ toServer # << >> /\ Head(toServer).kind = "auth" /\ Take
      /\ toClient' = Append(toClient, Msg("success"))
      /\ session' = TRUE /\ seen' = seen /\ shown' = shown
  BY DEF ServerAccepts, Arriving
<1>2. /\ toClient \in Seq(Messages) /\ Msg("success") \in Messages
      /\ Msg("success") \in Only("success")
  BY ConvQueue, MessageSets DEF Kinds
<1>3. PendingIn(queue, toClient')
  BY <1>1, <1>2, TravelsAppend DEF PendingIn
<1>4. websocket = "open"
  <2>1. Head(toServer) \notin Only("hello")
    BY <1>1 DEF Only
  <2>2. socket /\ ~Carries(toServer, Only("hello"))
    BY <1>1, <2>1, ArrivedConv
  <2> QED
    BY <2>2 DEF ConvInv, Converging, Closed
<1> QED
  BY <1>1, <1>3, <1>4, HandshakeConv

(* A report is applied.                                                    *)
LEMMA AppliesConv == ConvInv /\ ServerApplies => Converging'
<1> SUFFICES ASSUME ConvInv, ServerApplies PROVE Converging'
  OBVIOUS
<1> USE DEF tcpVars, uiVars
<1> DEFINE m == Head(toServer)
<1>1. /\ toServer # << >> /\ m.kind \in {"set", "hide", "show"}
      /\ seen' = IF session /\ m.kind = "set" THEN [seen EXCEPT ![m.field] = m.version] ELSE seen
      /\ shown' = IF session /\ m.kind # "set" THEN m.kind = "show" ELSE shown
  BY DEF ServerApplies, Arriving
<1>2. /\ toServer' = Tail(toServer) /\ queue' = queue /\ websocket' = websocket
      /\ hidden' = hidden /\ full' = full /\ registered' = registered
      /\ socket' = socket /\ saved' = saved /\ toClient' = toClient /\ session' = session
  BY DEF ServerApplies, Take
<1>3. /\ toServer \in Seq(Messages) /\ m \in Messages
      /\ socket /\ ~Has(queue, "onConnect")
      /\ \A msgs : Carries(toServer, msgs) => Carries(Tail(toServer), msgs) /\ m \in msgs
      /\ ~hidden => Delivers(queue, toServer, shown, Only("show"), Only("hide"))
      /\ ~hidden => ConnectSettles(queue)
  BY <1>1, ArrivedConv
<1> HIDE DEF m
<1>4. websocket = "open" /\ full
  <2>1. m \notin Only("hello") /\ m \notin Unreporting
    BY <1>1 DEF Only, Unreporting
  <2>2. ~Carries(toServer, Only("hello")) /\ ~Carries(toServer, Unreporting)
    BY <1>3, <2>1
  <2> QED
    BY <1>3, <2>2 DEF ConvInv, Converging, Closed, Unreported
<1>5. ~session => shown /\ shown' = shown
  BY <1>1 DEF ConvInv, Converging, Closed
<1>6. Phase(queue, full)' /\ Starting' /\ Closed' /\ Unreported'
  BY <1>2, <1>3, <1>4, <1>5, ConvQueue
     DEF ConvInv, Converging, Starting, Closed, Unreported
<1>7. \A now, now1, good, bad :
         /\ Delivers(queue, toServer, now, good, bad)
         /\ m \in bad \/ (now => now1)
         /\ m \in good => now1
         => Delivers(queue, Tail(toServer), now1, good, bad)
  BY <1>1, <1>3, TakeDelivers DEF m
<1>8. ShowingIn(queue, toServer)'
  <2>1. m \in Only("hide") \/ (shown => shown')
    BY <1>1, <1>3 DEF Only
  <2>2. m \in Only("show") => shown'
    BY <1>1, <1>5 DEF Only
  <2>3. ~hidden => Delivers(queue, Tail(toServer), shown', Only("show"), Only("hide"))
    BY <1>3, <1>7, <2>1, <2>2
  <2> QED
    BY <1>2, <1>3, <2>3 DEF ShowingIn
<1>9. ASSUME session, ReportedIn(queue, toServer) PROVE ReportedIn(queue, toServer)'
  <2>1. hidden => Delivers(queue, Tail(toServer), ~shown', Only("hide"), Only("show"))
    <3>1. m \in Only("show") \/ (~shown => ~shown')
      BY <1>1, <1>3 DEF Only
    <3>2. m \in Only("hide") => ~shown'
      BY <1>1, <1>9 DEF Only
    <3> QED
      BY <1>7, <1>9, <3>1, <3>2 DEF ReportedIn
  <2>2. ASSUME ~hidden, NEW f \in Fields
        PROVE  Delivers(queue, Tail(toServer), seen'[f] = saved[f], Current(f, saved[f]),
                        Outdated(f, saved[f]))
    <3>1. f \in DOMAIN seen
      BY DEF ConvInv, ReporterInv, TypeOK
    <3>2. m \in Outdated(f, saved[f]) \/ (seen[f] = saved[f] => seen'[f] = saved[f])
      BY <1>1, <1>3, <3>1 DEF Outdated, Only
    <3>3. m \in Current(f, saved[f]) => seen'[f] = saved[f]
      BY <1>1, <1>9, <3>1 DEF Current, Only
    <3>4. Delivers(queue, toServer, seen[f] = saved[f], Current(f, saved[f]),
                   Outdated(f, saved[f]))
      BY <1>9, <2>2 DEF ReportedIn
    <3> QED
      BY <1>7, <3>2, <3>3, <3>4
  <2> QED
    BY <1>2, <2>1, <2>2 DEF ReportedIn
<1>10. Reported'
  BY <1>2, <1>9 DEF ConvInv, Converging, Reported
<1> QED
  BY <1>6, <1>8, <1>10 DEF Converging

(* Every step keeps the second invariant.                                  *)
LEMMA ConvInvStep == ConvInv /\ [Next]_vars => ConvInv'
<1> SUFFICES ASSUME ConvInv, [Next]_vars PROVE ConvInv'
  OBVIOUS
<1>1. ReporterInv'
  BY ReporterInvStep DEF ConvInv
<1>2. CASE UNCHANGED vars
  <2>1. Converging'
    BY <1>2 DEF vars, tcpVars, uiVars, netVars, serverVars, ConvInv, Converging, Starting,
                Closed, Unreported, ShowingIn, ReportedIn, Reported
  <2> QED
    BY <1>1, <2>1 DEF ConvInv
<1>3. ASSUME Next PROVE Converging'
  BY <1>3, RegisterConv, HideConv, ShowConv, ChangeConv, ConnectConv, FailConv, OnConnectConv,
     RegisteredConv, ReceiveConv, DropConv, UnheardConv, SuccessConv, EmitConv, SendConv,
     RetryConv, ReceiveThreadConv, FailingConv, OpensConv, AcceptsConv, AppliesConv
     DEF Next, Worker, Server
<1> QED
  BY <1>1, <1>2, <1>3 DEF ConvInv

(* What is wanted is reported or on its way, at all times, once the client *)
(* knows that it was accepted.                                             *)
THEOREM ReporterConverging == SafeSpec => []ConvInv
<1>1. Init => ConvInv
  BY InitReporterInv, InitConverging DEF ConvInv
<1> QED
  BY <1>1, ConvInvStep, PTL DEF SafeSpec

(* Once everything on its way has arrived, the server shows what the       *)
(* station wants, whatever was edited, hidden or lost on the way           *)
(* (FreeDVReporter.cpp 408-434, 653-729).                                  *)
THEOREM ConvergedWhenSettledHolds == SafeSpec => []ConvergedWhenSettled
<1>1. ConvInv => ConvergedWhenSettled
  <2> SUFFICES ASSUME ConvInv, Settled, full PROVE Converged
    BY DEF ConvergedWhenSettled
  <2>1. session /\ queue = << >> /\ toServer = << >> /\ toClient = << >> /\ socket
    BY ConvQueue DEF Settled
  <2>2. Len(queue) = 0 /\ Len(toServer) = 0 /\ Len(toClient) = 0
    BY <2>1
  <2>3. /\ \A op, good : ~Waits(queue, op, good)
        /\ \A good : ~Travels(toServer, good) /\ ~Travels(toClient, good)
        /\ ~Has(queue, "event")
    BY <2>2 DEF Waits, Travels, Has
  <2>4. \A now, good, bad : Delivers(queue, toServer, now, good, bad) => now
    BY <2>3 DEF Delivers
  <2>5. ReportedIn(queue, toServer)
    BY <2>1, <2>3 DEF ConvInv, Converging, Reported, PendingIn
  <2>6. hidden => ~shown
    BY <2>4, <2>5 DEF ReportedIn
  <2>7. ~hidden => shown
    BY <2>1, <2>4 DEF ConvInv, Converging, ShowingIn
  <2>8. ASSUME ~hidden PROVE seen = saved
    <3>1. \A f \in Fields : seen[f] = saved[f]
      BY <2>4, <2>5, <2>8 DEF ReportedIn
    <3>2. seen \in [Fields -> Versions \cup {0}] /\ saved \in [Fields -> Versions]
      BY DEF ConvInv, ReporterInv, TypeOK
    <3> QED
      BY <3>1, <3>2
  <2> QED
    BY <2>6, <2>7, <2>8 DEF Converged
<1>2. SafeSpec => []ConvInv
  BY ReporterConverging
<1> QED
  BY <1>1, <1>2, PTL
=============================================================================
