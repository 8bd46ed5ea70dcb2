---------------------------- MODULE ModesProofs ----------------------------
(***************************************************************************)
(* An mtime stands for one content, wherever it is found: so the fast path *)
(* of a snapshot, which compares mtimes only, misses no edit.              *)
(***************************************************************************)
EXTENDS Modes, TLAPS

\* The mtimes that are about, with the content each stands for.
Stamp(e) == << e.time, e.sha >>
Stamps == {Stamp(bucket)} \cup {Stamp(disk[d]) : d \in Device} \cup {Stamp(head[d]) : d \in Device}

OneContent == \A s, t \in Stamps : s[1] = t[1] => s[2] = t[2]
Past       == \A s \in Stamps : s[1] <= clock

Inv == TypeOK /\ OneContent /\ Past

\* Every mtime of a state has been there before, or is newer than all of them.
LEMMA StampsInit == Init => Inv
<1> SUFFICES ASSUME Init PROVE Inv
  OBVIOUS
<1>1. TypeOK
  BY DEF Init, TypeOK, Entry
<1>2. Stamps \subseteq {Stamp(bucket)}
  BY DEF Init, Stamps
<1>3. bucket.time = 0
  BY DEF Init
<1> QED
  BY <1>1, <1>2, <1>3 DEF Inv, OneContent, Past, Stamp, Init

\* A cycle moves entries between the file, HEAD and the bucket; it makes none.
LEMMA CycleStamps ==
  ASSUME Inv, NEW d \in Device, Cycle(d)
  PROVE  TypeOK' /\ Stamps' \subseteq Stamps /\ clock' = clock
<1> USE DEF Inv
<1>1. Found(d) \in {disk[d], head[d]} /\ Snapshot(d) \in {disk[d], head[d]}
  BY DEF Found, Snapshot
<1>2. CASE Ahead(d)
  <2>1. bucket' \in {disk[d], head[d]} /\ disk' = disk /\ clock' = clock
    BY <1>1, <1>2 DEF Ahead, Push
  <2>2. head' = [head EXCEPT ![d] = Snapshot(d)]
    BY <1>2 DEF Ahead
  <2>3. TypeOK'
    BY <1>1, <1>2, <2>1, <2>2 DEF TypeOK, Ahead, Push
  <2> QED
    BY <1>1, <2>1, <2>2, <2>3 DEF Stamps, TypeOK
<1>3. CASE Behind(d)
  <2>1. Applied(d, head[d], bucket) \in {disk[d], bucket}
    BY DEF Applied
  <2>2. /\ head' = [head EXCEPT ![d] = bucket]
        /\ disk' = [disk EXCEPT ![d] = Applied(d, head[d], bucket)]
        /\ bucket' = bucket /\ clock' = clock /\ behind' = behind \ {d}
    BY <1>3 DEF Behind
  <2> QED
    BY <2>1, <2>2 DEF Stamps, TypeOK
<1>4. CASE Diverged(d)
  <2> DEFINE e == Merged(head[d], bucket, Snapshot(d))
  <2>1. e \in {bucket, disk[d], head[d]}
    BY <1>1 DEF Merged
  <2>2. Applied(d, Snapshot(d), e) \in {disk[d], e}
    BY DEF Applied
  <2>3. /\ head' = [head EXCEPT ![d] = e]
        /\ disk' = [disk EXCEPT ![d] = Applied(d, Snapshot(d), e)]
        /\ bucket' = e /\ clock' = clock
        /\ behind' \in {Device \ {d}, behind}
    BY <1>4 DEF Diverged, Push
  <2> HIDE DEF e
  <2> QED
    BY <2>1, <2>2, <2>3 DEF Stamps, TypeOK
<1> QED
  BY <1>2, <1>3, <1>4 DEF Cycle

\* A user who touches the file leaves its mtime and content, or gives it a new mtime.
LEMMA TouchStamps ==
  ASSUME Inv, NEW d \in Device, Write(d) \/ Chmod(d)
  PROVE  /\ TypeOK' /\ clock' = clock + 1
         /\ \E c \in Sha : Stamps' \subseteq Stamps \cup {<< clock + 1, c >>}
<1> USE DEF Inv
<1>1. CASE Write(d)
  <2>1. PICK c \in Sha, m \in Mode : Touch(d, [sha |-> c, mode |-> m, time |-> clock + 1])
    BY <1>1 DEF Write
  <2> DEFINE e == [sha |-> c, mode |-> m, time |-> clock + 1]
  <2>2. e \in Entry /\ Stamp(e) = << clock + 1, c >>
    BY <2>1 DEF Entry, TypeOK, Stamp
  <2>3. /\ disk' = [disk EXCEPT ![d] = e] /\ clock' = clock + 1
        /\ UNCHANGED << head, bucket, behind >>
    BY <2>1 DEF Touch
  <2> HIDE DEF e
  <2> QED
    BY <2>2, <2>3 DEF Stamps, TypeOK
<1>2. CASE Chmod(d)
  <2>1. PICK m \in Mode : Touch(d, [disk[d] EXCEPT !.mode = m])
    BY <1>2 DEF Chmod
  <2> DEFINE e == [disk[d] EXCEPT !.mode = m]
  <2>2. e \in Entry /\ Stamp(e) = Stamp(disk[d]) /\ disk[d].sha \in Sha
    BY <2>1 DEF Entry, TypeOK, Stamp
  <2>3. /\ disk' = [disk EXCEPT ![d] = e] /\ clock' = clock + 1
        /\ UNCHANGED << head, bucket, behind >>
    BY <2>1 DEF Touch
  <2> HIDE DEF e
  <2> QED
    BY <2>2, <2>3 DEF Stamps, TypeOK
<1> QED
  BY <1>1, <1>2

LEMMA InvStep == Inv /\ [Next]_vars => Inv'
<1> SUFFICES ASSUME Inv, [Next]_vars PROVE Inv'
  OBVIOUS
<1>0. clock \in Nat /\ \A s \in Stamps : s[1] \in Nat
  BY DEF Inv, TypeOK, Stamps, Stamp, Entry
<1>1. CASE UNCHANGED vars
  BY <1>1 DEF Inv, TypeOK, OneContent, Past, Stamps, vars
<1>2. ASSUME NEW d \in Device, Write(d) \/ Chmod(d) PROVE Inv'
  <2>1. PICK c \in Sha : Stamps' \subseteq Stamps \cup {<< clock + 1, c >>}
    BY <1>2, TouchStamps
  <2>2. TypeOK' /\ clock' = clock + 1
    BY <1>2, TouchStamps
  <2>3. \A s \in Stamps : s[1] <= clock /\ s[1] # clock + 1
    BY <1>0 DEF Inv, Past
  <2>4. OneContent'
    BY <2>1, <2>3 DEF Inv, OneContent
  <2>5. Past'
    BY <1>0, <2>1, <2>2, <2>3 DEF Past
  <2> QED
    BY <2>2, <2>4, <2>5 DEF Inv
<1>3. ASSUME NEW d \in Device, Cycle(d) PROVE Inv'
  BY <1>3, CycleStamps DEF Inv, OneContent, Past
<1> QED
  BY <1>1, <1>2, <1>3 DEF Next

\* For any number of devices and any contents and modes: as long as no two writes have
\* the same mtime, what snapshotWorkingTree lists of a file is what the file holds.
THEOREM FastPath == Spec => []EditsSeen
<1>1. Inv => EditsSeen
  <2> SUFFICES ASSUME Inv, NEW d \in Device PROVE Found(d).sha = disk[d].sha
    BY DEF EditsSeen
  <2>1. Stamp(disk[d]) \in Stamps /\ Stamp(head[d]) \in Stamps
    BY DEF Stamps
  <2>2. disk[d].time = head[d].time => disk[d].sha = head[d].sha
    BY <2>1 DEF Inv, OneContent, Stamp
  <2> QED
    BY <2>2 DEF Found
<1> QED
  BY <1>1, StampsInit, InvStep, PTL DEF Spec
=============================================================================
