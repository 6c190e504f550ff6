---------------------------- MODULE StoreProofs -----------------------------
(***************************************************************************)
(* What becomes of the files in the download directory, for any number of  *)
(* workers, names and blocks.                                              *)
(*                                                                         *)
(* The argument is about who can still touch a file: a worker between its  *)
(* test for the name and its last use of it.  Either such a worker is a    *)
(* known rival of the one whose file it is, or there is none.              *)
(***************************************************************************)
EXTENDS FileStore, SequenceTheorems, TLAPS

FlushedBehind(w) == flushed[w] <= got[w]

\* Workers that are at one name at a time know of each other.
RivalsKnown(v, w) ==
  v # w /\ Active(v) /\ Active(w) /\ name[v] = name[w] => v \in rivals[w]

\* A name refers to what was there before, or to what a worker of that name made
\* and has not removed.
Made == {"writing", "failed", "stored", "acked", "killed"}
Creator(n) ==
  /\ dir[n] \in Workers => name[dir[n]] = n /\ pc[dir[n]] \in Made
  /\ dir[n] \in Names => dir[n] = n

\* A worker that is at a name finds there its own file, none, or one of a worker
\* with rivals.
OneOwner(v) ==
  Active(v) => /\ dir[name[v]] \notin Names
               /\ dir[name[v]] \in Workers \ {v} => rivals[dir[name[v]]] # {}

\* A stream writes to the worker's own inode, or to one of a worker with rivals.
Stream(v) ==
  os[v] # None => \/ os[v] = v
                  \/ os[v] \in Workers /\ rivals[os[v]] # {}

\* What a worker without rivals can rely on
Alone(w) ==
  rivals[w] = {} =>
    /\ pc[w] = "tested" => dir[name[w]] = None
    /\ pc[w] = "writing" => os[w] = w /\ dir[name[w]] = w /\ data[w] = FirstBlocks(w, flushed[w])
    /\ pc[w] \in {"stored", "acked"} => dir[name[w]] = w /\ data[w] = FirstBlocks(w, got[w])

\* A file that has been opened keeps its name, and only rivals can take that away.
RivalDropped(w) == \E v \in rivals[w] : pc[v] = "dropped"
OnlyRivalsAt(w) ==
  /\ dir[name[w]] # None
  /\ \A v \in Workers \ {w} : Active(v) /\ name[v] = name[w] => v \in rivals[w]
Named(w) ==
  pc[w] \in {"writing", "stored", "acked"} => RivalDropped(w) \/ OnlyRivalsAt(w)

\* A worker that has not opened its file has nothing yet, and no rivals before its
\* test for the name.
NotYet(w) ==
  /\ pc[w] = "idle" => rivals[w] = {}
  /\ pc[w] \in {"idle", "tested"} => got[w] = 0 /\ flushed[w] = 0

\* The inductive invariant
StoreInv ==
  /\ TypeOK
  /\ \A w \in Workers : NotYet(w) /\ FlushedBehind(w)
  /\ \A w \in Workers : OneOwner(w) /\ Stream(w) /\ Alone(w) /\ Named(w)
  /\ \A v, w \in Workers : RivalsKnown(v, w)
  /\ \A n \in Names : Creator(n)

-----------------------------------------------------------------------------
(* Steps *)

LEMMA InodesApart ==
  /\ None \notin Inodes /\ None \notin Workers /\ None \notin Names
  /\ \A w \in Workers : w \notin Names /\ w \in Inodes
BY NamesAssumption DEF Inodes

\* A step of one worker leaves the others where they are.
LEMMA Others ==
  ASSUME TypeOK, NEW w \in Workers, RecvFile(w), NEW u \in Workers, u # w
  PROVE  pc'[u] = pc[u] /\ got'[u] = got[u] /\ flushed'[u] = flushed[u] /\ os'[u] = os[u]
BY DEF TypeOK, RecvFile, Test, Open, Write, Flush, Close, FinalAck, Remove

\* The inode Open gets
Opened(w) == IF dir[name[w]] = None THEN w ELSE dir[name[w]]

LEMMA OpenEffect ==
  ASSUME TypeOK, NEW w \in Workers, Open(w)
  PROVE  /\ Opened(w) \in Inodes
         /\ dir' = [dir EXCEPT ![name[w]] = Opened(w)]
         /\ data' = [data EXCEPT ![Opened(w)] = <<>>]
         /\ os' = [os EXCEPT ![w] = Opened(w)]
         /\ pc' = [pc EXCEPT ![w] = "writing"] /\ pc[w] = "tested"
         /\ UNCHANGED <<up, name, got, flushed, rivals>>
BY InodesApart DEF TypeOK, Open, Opened

\* A name changes hands only as a worker at it opens or removes its file.
LEMMA DirStep ==
  ASSUME TypeOK, NEW w \in Workers, RecvFile(w), NEW n \in Names, dir'[n] # dir[n]
  PROVE  /\ n = name[w] /\ Active(w)
         /\ \/ Open(w) /\ dir[n] = None /\ dir'[n] = w /\ pc'[w] = "writing"
            \/ Remove(w) /\ dir'[n] = None /\ pc'[w] = "dropped"
<1>1. CASE Open(w)
  BY <1>1, OpenEffect DEF TypeOK, Opened, Active
<1>2. CASE Remove(w)
  BY <1>2 DEF TypeOK, Remove, Active
<1>3. ASSUME ~Open(w), ~Remove(w) PROVE FALSE
  BY <1>3 DEF RecvFile, Test, Write, Flush, Close, FinalAck
<1> QED BY <1>1, <1>2, <1>3

\* An inode changes only as it is opened or as a stream writes to it.
LEMMA DataStep ==
  ASSUME TypeOK, NEW w \in Workers, RecvFile(w), NEW i \in Inodes, data'[i] # data[i]
  PROVE  /\ Active(w)
         /\ (Open(w) /\ i = Opened(w)) \/ (i = os[w] /\ os[w] # None)
<1>1. CASE Open(w)
  BY <1>1, OpenEffect DEF TypeOK, Active
<1>2. CASE Flush(w) \/ Close(w)
  <2>1. data' = Flushed(w) /\ pc[w] = "writing" BY <1>2 DEF Flush, Close
  <2>2. os[w] # None BY <2>1 DEF TypeOK
  <2>3. i # os[w] => Flushed(w)[i] = data[i] BY DEF Flushed, TypeOK
  <2> QED BY <2>1, <2>2, <2>3 DEF Active
<1>3. ASSUME ~Open(w), ~Flush(w), ~Close(w) PROVE FALSE
  BY <1>3 DEF RecvFile, Test, Write, FinalAck, Remove
<1> QED BY <1>1, <1>2, <1>3

\* A worker gets at its name only by a test that finds nothing.
LEMMA ActiveStep ==
  ASSUME TypeOK, NEW w \in Workers, RecvFile(w), NEW u \in Workers, Active(u)', ~Active(u)
  PROVE  /\ u = w /\ Test(w) /\ dir[name[w]] = None
         /\ pc[w] = "idle" /\ pc'[w] = "tested" /\ dir' = dir /\ rivals'[w] = RivalsOf(w)
<1>1. u = w BY Others DEF Active
<1>2. CASE Test(w)
  BY <1>1, <1>2 DEF TypeOK, Test, Active
<1>3. CASE ~Test(w)
  BY <1>1, <1>3 DEF TypeOK, RecvFile, Open, Write, Flush, Close, FinalAck, Remove, Active
<1> QED BY <1>2, <1>3

\* Names are for good, and rivals are not forgotten.
LEMMA Growth ==
  ASSUME StoreInv, [Next]_vars
  PROVE  name' = name /\ \A w \in Workers : rivals[w] \subseteq rivals'[w]
<1>0. TypeOK BY DEF StoreInv
<1>1. CASE Kill \/ Restart \/ UNCHANGED vars BY <1>1 DEF Kill, Restart, vars
<1>2. ASSUME NEW w \in Workers, RecvFile(w)
      PROVE  name' = name /\ \A u \in Workers : rivals[u] \subseteq rivals'[u]
  <2>1. CASE Test(w)
    <3>1. name' = name /\ rivals[w] = {} BY <2>1 DEF Test, StoreInv, NotYet
    <3>2. CASE UNCHANGED rivals BY <3>1, <3>2
    <3>3. CASE rivals' = [v \in Workers |-> IF v = w THEN RivalsOf(w)
                                            ELSE IF v \in RivalsOf(w) THEN rivals[v] \cup {w}
                                            ELSE rivals[v]]
      BY <3>1, <3>3
    <3> QED BY <2>1, <3>2, <3>3 DEF Test
  <2>2. CASE ~Test(w)
    BY <1>2, <2>2 DEF RecvFile, Open, Write, Flush, Close, FinalAck, Remove
  <2> QED BY <2>1, <2>2
<1> QED BY <1>1, <1>2 DEF Next

\* Kill, Restart and steps of other programs: the files and the rivals stay, and no
\* worker gets at a name.
Outside == Kill \/ Restart \/ UNCHANGED vars

LEMMA OutsideStep ==
  ASSUME TypeOK, Outside
  PROVE  /\ UNCHANGED <<name, got, flushed, dir, data, rivals>>
         /\ \A w \in Workers :
              /\ pc'[w] = pc[w] \/ (pc'[w] = "killed" /\ (Active(w) \/ pc[w] = "stored"))
              /\ os'[w] = None \/ os'[w] = os[w]
              /\ Active(w)' => Active(w)
<1>1. CASE Kill
  <2>1. \A w \in Workers : pc'[w] = IF Active(w) \/ pc[w] = "stored" THEN "killed" ELSE pc[w]
    BY <1>1 DEF Kill
  <2>2. \A w \in Workers : os'[w] = None BY <1>1 DEF Kill
  <2>3. \A w \in Workers : Active(w)' => Active(w) BY <2>1 DEF Active
  <2> QED BY <1>1, <2>1, <2>2, <2>3 DEF Kill
<1>2. CASE Restart \/ UNCHANGED vars BY <1>2 DEF Restart, vars, Active
<1> QED BY <1>1, <1>2 DEF Outside

LEMMA Steps == [Next]_vars => Outside \/ \E w \in Workers : RecvFile(w)
BY DEF Next, Outside

-----------------------------------------------------------------------------
(* Types *)

LEMMA FunctionSeq ==
  ASSUME NEW S, NEW n \in Nat, NEW g \in [1..n -> S]
  PROVE  g \in Seq(S) /\ Len(g) = n
OBVIOUS

LEMMA FlushedType ==
  ASSUME TypeOK, NEW w \in Workers, os[w] \in Inodes
  PROVE  Flushed(w) \in [Inodes -> Seq(Blocks)]
<1> DEFINE old == data[os[w]]
           end == IF got[w] > Len(old) THEN got[w] ELSE Len(old)
           new == [i \in 1..end |-> IF i \in (flushed[w] + 1)..got[w] THEN <<w, i>>
                                    ELSE IF i <= Len(old) THEN old[i] ELSE Hole]
<1>1. old \in Seq(Blocks) /\ got[w] \in Nat /\ flushed[w] \in Nat
  BY BlocksAssumption, SMT DEF TypeOK
<1>2. Len(old) \in Nat /\ \A i \in 1..Len(old) : old[i] \in Blocks BY <1>1
<1>3. end \in Nat BY <1>1, <1>2
<1>4. new \in [1..end -> Blocks]
  <2> SUFFICES ASSUME NEW i \in 1..end
               PROVE  (IF i \in (flushed[w] + 1)..got[w] THEN <<w, i>>
                       ELSE IF i <= Len(old) THEN old[i] ELSE Hole) \in Blocks
    OBVIOUS
  <2> HIDE DEF old, end
  <2>1. i \in Nat BY <1>3
  <2>2. <<w, i>> \in Blocks /\ Hole \in Blocks BY <2>1, InodesApart DEF Blocks
  <2>3. i <= Len(old) => i \in 1..Len(old) BY <1>2, <1>3, SMT
  <2> QED BY <1>2, <2>2, <2>3
<1>5. new \in Seq(Blocks)
  <2> HIDE DEF new, end
  <2> QED BY <1>3, <1>4, FunctionSeq
<1>6. Flushed(w) = (IF flushed[w] = got[w] THEN data ELSE [data EXCEPT ![os[w]] = new])
  BY DEF Flushed
<1> HIDE DEF new
<1> QED BY <1>5, <1>6 DEF TypeOK

LEMMA TypeInit == Init => TypeOK
<1> SUFFICES ASSUME Init PROVE TypeOK OBVIOUS
<1> USE DEF Init
<1>1. \A i \in Inodes : <<<<i, 1>>>> \in Seq(Blocks) /\ <<>> \in Seq(Blocks)
  <2> SUFFICES ASSUME NEW i \in Inodes PROVE <<<<i, 1>>>> \in Seq(Blocks) /\ <<>> \in Seq(Blocks)
    OBVIOUS
  <2>1. <<i, 1>> \in Blocks BY DEF Blocks
  <2> QED BY <2>1
<1>2. data \in [Inodes -> Seq(Blocks)] BY <1>1
<1>3. dir \in [Names -> Inodes \cup {None}] BY DEF Inodes
<1>4. 0 \in 0..MaxBlocks BY BlocksAssumption, SMT
<1> QED BY <1>2, <1>3, <1>4 DEF TypeOK, Phases

LEMMA TypeStep == TypeOK /\ [Next]_vars => TypeOK'
<1> SUFFICES ASSUME TypeOK, [Next]_vars PROVE TypeOK' OBVIOUS
<1>1. CASE Outside
  BY <1>1, InodesApart DEF Outside, Kill, Restart, vars, TypeOK, Phases, Active
<1>2. ASSUME NEW w \in Workers, RecvFile(w) PROVE TypeOK'
  <2>1. CASE Test(w)
    <3>1. \E p \in Phases : p # "writing" /\ pc' = [pc EXCEPT ![w] = p]
      BY <2>1 DEF Test, Phases
    <3>2. pc' \in [Workers -> Phases] BY <3>1 DEF TypeOK
    <3>3. \A u \in Workers : pc'[u] = "writing" <=> pc[u] = "writing"
      BY <2>1, <3>1 DEF Test, TypeOK
    <3>4. rivals' \in [Workers -> SUBSET Workers]
      <4>1. CASE UNCHANGED rivals BY <4>1 DEF TypeOK
      <4>2. CASE ~UNCHANGED rivals
        <5>1. rivals' = [v \in Workers |-> IF v = w THEN RivalsOf(w)
                                           ELSE IF v \in RivalsOf(w) THEN rivals[v] \cup {w}
                                           ELSE rivals[v]]
          BY <2>1, <4>2 DEF Test
        <5>2. RivalsOf(w) \in SUBSET Workers BY DEF RivalsOf
        <5> QED BY <5>1, <5>2 DEF TypeOK
      <4> QED BY <4>1, <4>2
    <3> QED BY <2>1, <3>2, <3>3, <3>4 DEF Test, TypeOK
  <2>2. CASE Open(w)
    <3>1. Opened(w) \in Inodes /\ Opened(w) # None BY <2>2, OpenEffect, InodesApart
    <3>2. <<>> \in Seq(Blocks) OBVIOUS
    <3>3. pc' \in [Workers -> Phases]
      <4>1. pc' = [pc EXCEPT ![w] = "writing"] /\ "writing" \in Phases
        BY <2>2, OpenEffect DEF Phases
      <4> QED BY <4>1 DEF TypeOK
    <3>4. os' \in [Workers -> Inodes \cup {None}] /\ dir' \in [Names -> Inodes \cup {None}]
      <4>1. /\ os' = [os EXCEPT ![w] = Opened(w)]
            /\ dir' = [dir EXCEPT ![name[w]] = Opened(w)]
        BY <2>2, OpenEffect
      <4> QED BY <3>1, <4>1 DEF TypeOK
    <3>5. data' \in [Inodes -> Seq(Blocks)]
      <4>1. data' = [data EXCEPT ![Opened(w)] = <<>>] BY <2>2, OpenEffect
      <4> QED BY <3>2, <4>1 DEF TypeOK
    <3>6. \A u \in Workers : os'[u] # None <=> pc'[u] = "writing"
      <4>1. os' = [os EXCEPT ![w] = Opened(w)] /\ pc' = [pc EXCEPT ![w] = "writing"]
        BY <2>2, OpenEffect
      <4> QED BY <3>1, <4>1 DEF TypeOK
    <3> QED BY <2>2, <3>3, <3>4, <3>5, <3>6, OpenEffect DEF TypeOK
  <2>3. CASE Write(w)
    <3>1. got[w] + 1 \in 0..MaxBlocks BY <2>3, BlocksAssumption, SMT DEF Write, TypeOK
    <3> QED BY <2>3, <3>1 DEF Write, TypeOK
  <2>4. CASE Flush(w)
    <3>1. os[w] \in Inodes BY <2>4 DEF Flush, TypeOK
    <3>2. Flushed(w) \in [Inodes -> Seq(Blocks)] BY <3>1, FlushedType
    <3> QED BY <2>4, <3>2 DEF Flush, TypeOK
  <2>5. CASE Close(w)
    <3>1. os[w] \in Inodes BY <2>5 DEF Close, TypeOK
    <3>2. Flushed(w) \in [Inodes -> Seq(Blocks)] BY <3>1, FlushedType
    <3> QED BY <2>5, <3>2 DEF Close, TypeOK, Phases
  <2>6. CASE FinalAck(w) BY <2>6 DEF FinalAck, TypeOK, Phases
  <2>7. CASE Remove(w) BY <2>7 DEF Remove, TypeOK, Phases
  <2> QED BY <1>2, <2>1, <2>2, <2>3, <2>4, <2>5, <2>6, <2>7 DEF RecvFile
<1> QED BY <1>1, <1>2, Steps

-----------------------------------------------------------------------------
(* Who can touch a file *)

\* Nobody but its maker changes, moves or removes the file of a worker without
\* rivals.
LEMMA LeftAlone ==
  ASSUME StoreInv, NEW v \in Workers, NEW w \in Workers, v # w, RecvFile(v),
         rivals[w] = {}, NEW n \in Names, dir[n] = w
  PROVE  dir'[n] = w /\ data'[w] = data[w]
<1>0. TypeOK /\ OneOwner(v) /\ Stream(v) /\ Creator(n) BY DEF StoreInv
<1>1. Active(v) => dir[name[v]] # w BY <1>0 DEF OneOwner
<1>2. dir'[n] = w
  <2> SUFFICES ASSUME dir'[n] # dir[n] PROVE FALSE OBVIOUS
  <2>1. n = name[v] /\ Active(v) BY <1>0, DirStep
  <2> QED BY <1>1, <2>1
<1>3. data'[w] = data[w]
  <2> SUFFICES ASSUME data'[w] # data[w] PROVE FALSE OBVIOUS
  <2>1. Active(v) /\ ((Open(v) /\ w = Opened(v)) \/ (w = os[v] /\ os[v] # None))
    BY <1>0, DataStep, InodesApart
  <2>2. CASE w = Opened(v) BY <1>1, <2>1, <2>2 DEF Opened
  <2>3. CASE w = os[v] /\ os[v] # None BY <1>0, <2>3 DEF Stream
  <2> QED BY <2>1, <2>2, <2>3
<1> QED BY <1>2, <1>3

\* Nobody at all does so to a file that was there before.
LEMMA OldLeftAlone ==
  ASSUME StoreInv, NEW v \in Workers, RecvFile(v), NEW n \in Names, dir[n] \in Names
  PROVE  dir'[n] = dir[n] /\ data'[dir[n]] = data[dir[n]]
<1>0. TypeOK /\ OneOwner(v) /\ Stream(v) BY DEF StoreInv
<1>1. Active(v) => dir[name[v]] # dir[n] BY <1>0 DEF OneOwner
<1>2. dir'[n] = dir[n]
  <2> SUFFICES ASSUME dir'[n] # dir[n] PROVE FALSE OBVIOUS
  <2>1. n = name[v] /\ Active(v) BY <1>0, DirStep
  <2> QED BY <1>1, <2>1
<1>3. data'[dir[n]] = data[dir[n]]
  <2> SUFFICES ASSUME data'[dir[n]] # data[dir[n]] PROVE FALSE OBVIOUS
  <2>0. dir[n] \in Inodes /\ dir[n] \notin Workers BY InodesApart DEF Inodes
  <2>1. Active(v) /\ ((Open(v) /\ dir[n] = Opened(v)) \/ (dir[n] = os[v] /\ os[v] # None))
    BY <1>0, <2>0, DataStep
  <2>2. CASE dir[n] = Opened(v) BY <1>1, <2>0, <2>1, <2>2 DEF Opened
  <2>3. CASE dir[n] = os[v] /\ os[v] # None BY <1>0, <2>0, <2>3 DEF Stream
  <2> QED BY <2>1, <2>2, <2>3
<1> QED BY <1>2, <1>3

-----------------------------------------------------------------------------
(* The parts of the invariant, each against a step of a worker x *)

LEMMA NotYetStep ==
  ASSUME StoreInv, NEW x \in Workers, RecvFile(x), NEW w \in Workers
  PROVE  NotYet(w)' /\ FlushedBehind(w)'
<1>0. TypeOK /\ NotYet(w) /\ FlushedBehind(w) BY DEF StoreInv
<1>a. got[w] \in Nat /\ flushed[w] \in Nat BY BlocksAssumption, SMT DEF StoreInv, TypeOK
<1>1. CASE w = x
  <2>1. CASE Test(w)
    BY <1>0, <2>1 DEF Test, TypeOK, NotYet, FlushedBehind
  <2>2. CASE Open(w)
    BY <1>0, <2>2, OpenEffect DEF TypeOK, NotYet, FlushedBehind
  <2>3. CASE Write(w)
    <3>1. got'[w] = got[w] + 1 /\ flushed'[w] = flushed[w] /\ pc'[w] = "writing"
      BY <1>0, <2>3 DEF Write, TypeOK
    <3> QED BY <1>0, <1>a, <3>1, SMT DEF NotYet, FlushedBehind
  <2>4. CASE Flush(w) \/ Close(w)
    <3>1. got'[w] = got[w] /\ flushed'[w] = got[w] /\ pc'[w] \in {"writing", "stored", "failed"}
      BY <1>0, <2>4 DEF Flush, Close, TypeOK
    <3> QED BY <1>0, <1>a, <3>1, SMT DEF NotYet, FlushedBehind
  <2>5. CASE FinalAck(w) \/ Remove(w)
    BY <1>0, <2>5 DEF FinalAck, Remove, TypeOK, NotYet, FlushedBehind
  <2> QED BY <1>1, <2>1, <2>2, <2>3, <2>4, <2>5 DEF RecvFile
<1>2. CASE w # x
  <2>1. pc'[w] = pc[w] /\ got'[w] = got[w] /\ flushed'[w] = flushed[w] BY <1>0, <1>2, Others
  <2>2. pc[w] = "idle" => rivals'[w] = rivals[w]
    <3>1. CASE Test(x) BY <1>0, <1>2, <3>1 DEF Test, TypeOK, RivalsOf, Active
    <3>2. CASE ~Test(x)
      BY <3>2 DEF RecvFile, Open, Write, Flush, Close, FinalAck, Remove
    <3> QED BY <3>1, <3>2
  <2> QED BY <1>0, <2>1, <2>2 DEF NotYet, FlushedBehind
<1> QED BY <1>1, <1>2

LEMMA RivalsStep ==
  ASSUME StoreInv, NEW x \in Workers, RecvFile(x), NEW v \in Workers, NEW w \in Workers
  PROVE  RivalsKnown(v, w)'
<1> SUFFICES ASSUME v # w, Active(v)', Active(w)', name'[v] = name'[w]
             PROVE  v \in rivals'[w]
  BY DEF RivalsKnown
<1>0. TypeOK /\ RivalsKnown(v, w) BY DEF StoreInv
<1>1. name' = name /\ rivals[w] \subseteq rivals'[w] BY Growth DEF Next
<1>2. CASE Active(v) /\ Active(w) BY <1>0, <1>1, <1>2 DEF RivalsKnown
<1>3. CASE ~Active(w)
  <2>1. w = x /\ rivals'[w] = RivalsOf(w) BY <1>0, <1>3, ActiveStep
  <2>2. Active(v) BY <1>0, <2>1, ActiveStep
  <2> QED BY <1>1, <2>1, <2>2 DEF RivalsOf
<1>4. CASE ~Active(v)
  <2>1. v = x /\ Test(x) /\ dir[name[x]] = None BY <1>0, <1>4, ActiveStep
  <2>2. w \in RivalsOf(x)
    <3>1. Active(w) BY <1>0, <2>1, ActiveStep
    <3> QED BY <1>1, <2>1, <3>1 DEF RivalsOf
  <2>3. rivals'[w] = rivals[w] \cup {x} BY <2>1, <2>2 DEF Test
  <2> QED BY <2>1, <2>3
<1> QED BY <1>2, <1>3, <1>4

\* What a worker has made stays so, unless it removes it.
LEMMA MadeStays ==
  ASSUME TypeOK, NEW x \in Workers, RecvFile(x), NEW u \in Workers, pc[u] \in Made, ~Remove(u)
  PROVE  pc'[u] \in Made
<1>1. CASE u # x BY <1>1, Others
<1>2. CASE u = x
  BY <1>2 DEF TypeOK, RecvFile, Test, Open, Write, Flush, Close, FinalAck, Made
<1> QED BY <1>1, <1>2

LEMMA CreatorStep ==
  ASSUME StoreInv, NEW x \in Workers, RecvFile(x), NEW n \in Names
  PROVE  Creator(n)'
<1>0. TypeOK /\ Creator(n) BY DEF StoreInv
<1>1. name' = name BY Growth DEF Next
<1>2. CASE dir'[n] # dir[n]
  <2>1. n = name[x] /\ (dir'[n] = None \/ (dir'[n] = x /\ pc'[x] = "writing"))
    BY <1>0, <1>2, DirStep
  <2> QED BY <1>1, <2>1, InodesApart DEF Creator, Made
<1>3. CASE dir'[n] = dir[n]
  <2>1. ASSUME dir[n] \in Workers PROVE pc'[dir[n]] \in Made
    <3>1. name[dir[n]] = n /\ pc[dir[n]] \in Made BY <1>0, <2>1 DEF Creator
    <3>2. ~Remove(dir[n])
      <4>1. Remove(dir[n]) => dir'[n] = None BY <1>0, <3>1 DEF Remove, TypeOK
      <4> QED BY <1>3, <2>1, <4>1, InodesApart
    <3> QED BY <1>0, <2>1, <3>1, <3>2, MadeStays
  <2> QED BY <1>0, <1>1, <1>3, <2>1 DEF Creator
<1> QED BY <1>2, <1>3

LEMMA OwnerStep ==
  ASSUME StoreInv, NEW x \in Workers, RecvFile(x), NEW v \in Workers
  PROVE  OneOwner(v)'
<1> SUFFICES ASSUME Active(v)'
             PROVE  /\ dir'[name'[v]] \notin Names
                    /\ dir'[name'[v]] \in Workers \ {v} => rivals'[dir'[name'[v]]] # {}
  BY DEF OneOwner
<1>0. TypeOK /\ OneOwner(v) BY DEF StoreInv
<1>1. name' = name /\ \A u \in Workers : rivals[u] \subseteq rivals'[u] BY Growth DEF Next
<1>2. CASE ~Active(v)
  <2>1. dir'[name[v]] = None BY <1>0, <1>2, ActiveStep
  <2> QED BY <1>1, <2>1, InodesApart
<1>3. CASE Active(v) /\ dir'[name[v]] = dir[name[v]]
  BY <1>0, <1>1, <1>3 DEF OneOwner
<1>4. CASE Active(v) /\ dir'[name[v]] # dir[name[v]]
  <2>1. name[v] \in Names BY <1>0 DEF TypeOK
  <2>2. /\ name[v] = name[x] /\ Active(x)
        /\ dir'[name[v]] = None \/ dir'[name[v]] = x
    BY <1>0, <1>4, <2>1, DirStep
  <2>3. x # v => v \in rivals[x] BY <1>4, <2>2 DEF StoreInv, RivalsKnown
  <2> QED BY <1>1, <2>2, <2>3, InodesApart
<1> QED BY <1>2, <1>3, <1>4

LEMMA StreamStep ==
  ASSUME StoreInv, NEW x \in Workers, RecvFile(x), NEW v \in Workers
  PROVE  Stream(v)'
<1>0. TypeOK /\ Stream(v) /\ OneOwner(v) BY DEF StoreInv
<1>1. \A u \in Workers : rivals[u] \subseteq rivals'[u] BY Growth DEF Next
<1>2. CASE os'[v] = os[v] BY <1>0, <1>1, <1>2 DEF Stream
<1>3. CASE Open(v)
  <2>1. os'[v] = Opened(v) /\ Opened(v) \in Inodes /\ Active(v)
    BY <1>0, <1>3, OpenEffect DEF TypeOK, Active
  <2>2. CASE dir[name[v]] = None BY <2>1, <2>2 DEF Opened, Stream
  <2>3. CASE dir[name[v]] # None
    <3>1. os'[v] = dir[name[v]] /\ os'[v] \in Workers
      BY <1>0, <2>1, <2>3 DEF Opened, OneOwner, Inodes
    <3>2. os'[v] # v => rivals[os'[v]] # {} BY <1>0, <2>1, <3>1 DEF OneOwner
    <3> QED BY <1>1, <3>1, <3>2 DEF Stream
  <2> QED BY <2>2, <2>3
<1>4. CASE Close(v) BY <1>0, <1>4 DEF Close, TypeOK, Stream
<1>5. ASSUME os'[v] # os[v], ~Open(v), ~Close(v) PROVE FALSE
  <2>1. v = x BY <1>0, <1>5, Others
  <2> QED BY <1>5, <2>1 DEF RecvFile, Test, Write, Flush, FinalAck, Remove
<1> QED BY <1>2, <1>3, <1>4, <1>5

-----------------------------------------------------------------------------
(* What a worker writes *)

\* A stream that is emptied puts the blocks behind those it has written.
LEMMA FlushedAlone ==
  ASSUME TypeOK, NEW w \in Workers, FlushedBehind(w), os[w] = w,
         data[w] = FirstBlocks(w, flushed[w])
  PROVE  Flushed(w)[w] = FirstBlocks(w, got[w])
<1> DEFINE g == got[w]
           f == flushed[w]
           old == data[w]
           end == IF g > Len(old) THEN g ELSE Len(old)
           new == [i \in 1..end |-> IF i \in (f + 1)..g THEN <<w, i>>
                                    ELSE IF i <= Len(old) THEN old[i] ELSE Hole]
<1>1. g \in Nat /\ f \in Nat /\ f <= g BY BlocksAssumption, SMT DEF TypeOK, FlushedBehind
<1>2. Len(old) = f /\ \A i \in 1..f : old[i] = <<w, i>>
  <2>1. FirstBlocks(w, f) \in [1..f -> {<<w, i>> : i \in 1..f}] BY DEF FirstBlocks
  <2> HIDE DEF f
  <2>2. Len(FirstBlocks(w, f)) = f BY <1>1, <2>1, FunctionSeq
  <2> QED BY <2>2 DEF f, FirstBlocks
<1>3. CASE f = g
  <2>1. Flushed(w) = data BY <1>3 DEF Flushed
  <2> QED BY <1>3, <2>1
<1>4. CASE f # g
  <2>1. Flushed(w)[w] = new
    <3>1. Flushed(w) = [data EXCEPT ![w] = new] BY <1>4 DEF Flushed
    <3> HIDE DEF new
    <3> QED BY <3>1, InodesApart DEF TypeOK
  <2>2. end = g
    <3> HIDE DEF g, f, old
    <3> QED BY <1>1, <1>2, SMT
  <2>3. \A i \in 1..g : new[i] = <<w, i>>
    <3> SUFFICES ASSUME NEW i \in 1..g PROVE new[i] = <<w, i>> OBVIOUS
    <3>1. new[i] = IF i \in (f + 1)..g THEN <<w, i>>
                   ELSE IF i <= Len(old) THEN old[i] ELSE Hole
      BY <2>2
    <3>2. i \in (f + 1)..g \/ i \in 1..f
      <4> HIDE DEF g, f
      <4> QED BY <1>1, SMT
    <3>3. i \in 1..f => i <= Len(old)
      <4> HIDE DEF f, old
      <4> QED BY <1>1, <1>2, SMT
    <3> HIDE DEF new, g, f, old
    <3> QED BY <1>2, <3>1, <3>2, <3>3
  <2>4. new = [i \in 1..g |-> new[i]] BY <2>2
  <2> HIDE DEF new
  <2> QED BY <2>1, <2>3, <2>4 DEF FirstBlocks
<1> QED BY <1>3, <1>4

LEMMA AloneStep ==
  ASSUME StoreInv, NEW x \in Workers, RecvFile(x), NEW w \in Workers
  PROVE  Alone(w)'
<1>0. TypeOK /\ Alone(w) /\ NotYet(w) /\ FlushedBehind(w) BY DEF StoreInv
<1>1. name' = name /\ rivals[w] \subseteq rivals'[w] BY Growth DEF Next
<1> SUFFICES ASSUME rivals'[w] = {} PROVE Alone(w)' BY DEF Alone
<1>a. rivals[w] = {} BY <1>1
<1>b. name[w] \in Names BY <1>0 DEF TypeOK
<1>2. CASE w # x
  <2>1. /\ pc'[w] = pc[w] /\ got'[w] = got[w] /\ flushed'[w] = flushed[w] /\ os'[w] = os[w]
    BY <1>0, <1>2, Others
  <2>2. dir[name[w]] = w => dir'[name[w]] = w /\ data'[w] = data[w]
    BY <1>2, <1>a, <1>b, LeftAlone
  <2>3. pc[w] = "tested" => dir'[name[w]] = dir[name[w]] \/ dir'[name[w]] = None
    <3> SUFFICES ASSUME pc[w] = "tested", dir'[name[w]] # dir[name[w]], dir'[name[w]] # None
                 PROVE  FALSE
      OBVIOUS
    <3>1. name[w] = name[x] /\ Active(x) /\ Active(w) BY <1>0, <1>b, DirStep DEF Active
    <3>2. x \in rivals[w] BY <1>2, <3>1 DEF StoreInv, RivalsKnown
    <3> QED BY <1>a, <3>2
  <2> QED BY <1>0, <1>1, <1>a, <2>1, <2>2, <2>3 DEF Alone, FirstBlocks
<1>3. CASE w = x
  <2>1. CASE Test(w)
    BY <1>0, <1>1, <2>1 DEF Test, TypeOK, Alone
  <2>2. CASE Open(w)
    <3>1. pc[w] = "tested" BY <2>2 DEF Open
    <3>2. Opened(w) = w /\ flushed'[w] = 0
      BY <1>0, <1>a, <2>2, <3>1, OpenEffect DEF Opened, Alone, NotYet
    <3>3. os'[w] = w /\ dir'[name[w]] = w /\ data'[w] = <<>> /\ pc'[w] = "writing"
      BY <1>0, <1>b, <2>2, <3>2, OpenEffect, InodesApart DEF TypeOK
    <3>4. FirstBlocks(w, 0) = <<>> BY DEF FirstBlocks
    <3> QED BY <1>1, <3>2, <3>3, <3>4 DEF Alone, FirstBlocks
  <2>3. CASE Write(w)
    BY <1>0, <1>1, <1>a, <2>3 DEF Write, TypeOK, Alone, FirstBlocks
  <2>4. CASE Flush(w) \/ Close(w)
    <3>1. pc[w] = "writing" /\ data' = Flushed(w) /\ flushed'[w] = got[w] /\ got'[w] = got[w] /\ dir' = dir
      BY <1>0, <2>4 DEF Flush, Close, TypeOK
    <3>2. os[w] = w /\ dir[name[w]] = w /\ data[w] = FirstBlocks(w, flushed[w])
      BY <1>0, <1>a, <3>1 DEF Alone
    <3>3. data'[w] = FirstBlocks(w, got[w]) BY <1>0, <3>1, <3>2, FlushedAlone
    <3>4. pc'[w] \in {"stored", "failed"} \/ (pc'[w] = "writing" /\ os'[w] = os[w])
      BY <1>0, <2>4 DEF Flush, Close, TypeOK
    <3> QED BY <1>1, <3>1, <3>2, <3>3, <3>4 DEF Alone, FirstBlocks
  <2>5. CASE FinalAck(w)
    BY <1>0, <1>1, <1>a, <2>5 DEF FinalAck, TypeOK, Alone, FirstBlocks
  <2>6. CASE Remove(w)
    BY <1>0, <2>6 DEF Remove, TypeOK, Alone
  <2> QED BY <1>3, <2>1, <2>2, <2>3, <2>4, <2>5, <2>6 DEF RecvFile
<1> QED BY <1>2, <1>3

LEMMA NamedStep ==
  ASSUME StoreInv, NEW x \in Workers, RecvFile(x), NEW w \in Workers
  PROVE  Named(w)'
<1> SUFFICES ASSUME pc'[w] \in {"writing", "stored", "acked"}
             PROVE  RivalDropped(w)' \/ OnlyRivalsAt(w)'
  BY DEF Named
<1>0. TypeOK /\ Named(w) BY DEF StoreInv
<1>1. name' = name /\ rivals[w] \subseteq rivals'[w] BY Growth DEF Next
<1>b. name[w] \in Names BY <1>0 DEF TypeOK
<1>2. CASE pc[w] \in {"writing", "stored", "acked"} /\ RivalDropped(w)
  <2>1. PICK v \in rivals[w] : pc[v] = "dropped" BY <1>2 DEF RivalDropped
  <2>2. v \in Workers BY <1>0, <2>1 DEF TypeOK
  <2>3. pc'[v] = "dropped"
    <3>1. v # x
      BY <1>0, <2>1 DEF RecvFile, Test, Open, Write, Flush, Close, FinalAck, Remove
    <3> QED BY <1>0, <2>1, <2>2, <3>1, Others
  <2> QED BY <1>1, <2>1, <2>3 DEF RivalDropped
<1>3. CASE pc[w] \in {"writing", "stored", "acked"} /\ OnlyRivalsAt(w)
  <2>1. CASE dir'[name[w]] = None
    <3>1. Remove(x) /\ name[x] = name[w] /\ Active(x) /\ pc'[x] = "dropped"
      BY <1>0, <1>3, <1>b, <2>1, DirStep, InodesApart DEF OnlyRivalsAt
    <3>2. x # w BY <3>1
    <3>3. x \in rivals[w] BY <1>3, <3>1, <3>2 DEF OnlyRivalsAt
    <3> QED BY <1>1, <3>1, <3>3 DEF RivalDropped
  <2>2. CASE dir'[name[w]] # None
    <3> SUFFICES ASSUME NEW v \in Workers \ {w}, Active(v)', name[v] = name[w]
                 PROVE  v \in rivals'[w]
      BY <1>1, <2>2 DEF OnlyRivalsAt
    <3>1. Active(v) BY <1>0, <1>3, ActiveStep DEF OnlyRivalsAt
    <3> QED BY <1>1, <1>3, <3>1 DEF OnlyRivalsAt
  <2> QED BY <2>1, <2>2
<1>4. CASE pc[w] \notin {"writing", "stored", "acked"}
  <2>1. w = x BY <1>0, <1>4, Others
  <2>2. Open(w)
    BY <1>0, <1>4, <2>1 DEF TypeOK, RecvFile, Test, Write, Flush, Close, FinalAck, Remove
  <2>3. dir'[name[w]] # None /\ Active(w)
    BY <1>0, <1>b, <2>2, OpenEffect, InodesApart DEF TypeOK, Active
  <2> SUFFICES ASSUME NEW v \in Workers \ {w}, Active(v)', name[v] = name[w]
               PROVE  v \in rivals'[w]
    BY <1>1, <2>3 DEF OnlyRivalsAt
  <2>4. Active(v)
    <3>1. pc'[v] = pc[v] BY <1>0, <2>1, Others
    <3> QED BY <3>1 DEF Active
  <2> QED BY <1>1, <2>3, <2>4 DEF StoreInv, RivalsKnown
<1> QED BY <1>0, <1>2, <1>3, <1>4 DEF Named

-----------------------------------------------------------------------------
(* The invariant *)

LEMMA OutsideKeeps == StoreInv /\ Outside => StoreInv'
<1> SUFFICES ASSUME StoreInv, Outside PROVE StoreInv' OBVIOUS
<1>0. TypeOK /\ TypeOK' BY TypeStep DEF StoreInv, Outside, Next
<1>1. /\ UNCHANGED <<name, got, flushed, dir, data, rivals>>
      /\ \A w \in Workers :
           /\ pc'[w] = pc[w] \/ (pc'[w] = "killed" /\ (Active(w) \/ pc[w] = "stored"))
           /\ os'[w] = None \/ os'[w] = os[w]
           /\ Active(w)' => Active(w)
  BY <1>0, OutsideStep
<1>2. ASSUME NEW w \in Workers PROVE NotYet(w)' /\ FlushedBehind(w)'
  BY <1>1, <1>2 DEF StoreInv, NotYet, FlushedBehind
<1>3. ASSUME NEW w \in Workers PROVE OneOwner(w)'
  BY <1>1, <1>3 DEF StoreInv, OneOwner
<1>4. ASSUME NEW w \in Workers PROVE Stream(w)'
  BY <1>1, <1>4 DEF StoreInv, Stream
<1>5. ASSUME NEW w \in Workers PROVE Alone(w)'
  <2>1. pc'[w] = "writing" => os'[w] = os[w] BY <1>0, <1>1 DEF TypeOK
  <2> QED BY <1>1, <2>1 DEF StoreInv, Alone, FirstBlocks
<1>6. ASSUME NEW w \in Workers PROVE Named(w)'
  <2>1. pc'[w] \in {"writing", "stored", "acked"} => pc'[w] = pc[w] BY <1>1
  <2>2. RivalDropped(w) => RivalDropped(w)'
    <3>1. rivals'[w] = rivals[w] /\ rivals[w] \subseteq Workers BY <1>0, <1>1 DEF TypeOK
    <3>2. \A v \in Workers : pc[v] = "dropped" => pc'[v] = "dropped" BY <1>1 DEF Active
    <3> QED BY <3>1, <3>2 DEF RivalDropped
  <2>3. OnlyRivalsAt(w) => OnlyRivalsAt(w)' BY <1>1 DEF OnlyRivalsAt
  <2> QED BY <2>1, <2>2, <2>3 DEF StoreInv, Named
<1>7. ASSUME NEW v \in Workers, NEW w \in Workers PROVE RivalsKnown(v, w)'
  BY <1>1, <1>7 DEF StoreInv, RivalsKnown
<1>8. ASSUME NEW n \in Names PROVE Creator(n)'
  BY <1>1, <1>8 DEF StoreInv, Creator, Made
<1> QED BY <1>0, <1>2, <1>3, <1>4, <1>5, <1>6, <1>7, <1>8 DEF StoreInv

LEMMA InitStore == Init => StoreInv
<1> SUFFICES ASSUME Init PROVE StoreInv OBVIOUS
<1>1. TypeOK BY TypeInit
<1>2. ASSUME NEW w \in Workers
      PROVE  pc[w] = "idle" /\ got[w] = 0 /\ flushed[w] = 0 /\ os[w] = None /\ rivals[w] = {}
  BY DEF Init
<1>3. ASSUME NEW w \in Workers
      PROVE  NotYet(w) /\ FlushedBehind(w) /\ OneOwner(w) /\ Stream(w) /\ Alone(w) /\ Named(w)
  BY <1>2, SMT DEF NotYet, FlushedBehind, OneOwner, Stream, Alone, Named, Active
<1>4. ASSUME NEW v \in Workers, NEW w \in Workers PROVE RivalsKnown(v, w)
  BY <1>2 DEF RivalsKnown, Active
<1>5. ASSUME NEW n \in Names PROVE Creator(n)
  <2>1. dir[n] = n \/ dir[n] = None BY DEF Init
  <2> QED BY <2>1, InodesApart DEF Creator
<1> QED BY <1>1, <1>3, <1>4, <1>5 DEF StoreInv

LEMMA NextStore == StoreInv /\ [Next]_vars => StoreInv'
<1> SUFFICES ASSUME StoreInv, [Next]_vars PROVE StoreInv' OBVIOUS
<1>1. CASE Outside BY <1>1, OutsideKeeps
<1>2. ASSUME NEW x \in Workers, RecvFile(x) PROVE StoreInv'
  <2>1. TypeOK' BY TypeStep DEF StoreInv
  <2> QED BY <1>2, <2>1, NotYetStep, RivalsStep, CreatorStep, OwnerStep, StreamStep,
             AloneStep, NamedStep DEF StoreInv
<1> QED BY <1>1, <1>2, Steps

LEMMA SpecStore == Spec => []StoreInv
BY InitStore, NextStore, PTL DEF Spec

-----------------------------------------------------------------------------
\* The directory, the streams and the workers keep to their types.
THEOREM StoreTypeCorrect == Spec => []TypeOK
<1>1. StoreInv => TypeOK BY DEF StoreInv
<1> QED BY <1>1, SpecStore, PTL

\* A worker that met no other of its name keeps what recv_file promises: all it
\* received once it has acknowledged, and nothing once it has failed.
THEOREM AloneKept == Spec => []AloneKeepsItsFile
<1>1. ASSUME StoreInv, NEW w \in Workers, rivals[w] = {}, pc[w] = "dropped"
      PROVE  dir[name[w]] # w
  <2>1. name[w] \in Names BY <1>1 DEF StoreInv, TypeOK
  <2> QED BY <1>1, <2>1 DEF StoreInv, Creator, Made
<1>2. StoreInv => AloneKeepsItsFile BY <1>1 DEF StoreInv, Alone, AloneKeepsItsFile
<1> QED BY <1>2, SpecStore, PTL

\* An acknowledged file vanishes only by a rival that failed and removed it.
THEOREM OnlyRivalsRemove == Spec => []GoneByARival
<1>1. StoreInv => GoneByARival
  BY DEF StoreInv, Named, RivalDropped, OnlyRivalsAt, GoneByARival
<1> QED BY <1>1, SpecStore, PTL

\* Failed attempts leave nothing of what they made: what is found was made by a worker
\* of that name which is receiving it, has received it or was killed at it (recv_file).
THEOREM OnlyKillsLeaveParts == Spec => []PartsExplained
<1>1. StoreInv => PartsExplained BY DEF StoreInv, Creator, Made, PartsExplained
<1> QED BY <1>1, SpecStore, PTL

\* Nothing that happens later, no attempt, failure, kill or restart, touches a
\* settled file (the exists() test and the remove() of recv_file).
THEOREM SettledKept == Spec => SettledUntouched
<1>1. ASSUME StoreInv, [Next]_vars, NEW n \in Names, Settled(n)
      PROVE  dir'[n] = dir[n] /\ data'[dir[n]] = data[dir[n]]
  <2>1. CASE Outside BY <1>1, <2>1, OutsideStep DEF StoreInv
  <2>2. ASSUME NEW x \in Workers, RecvFile(x)
        PROVE  dir'[n] = dir[n] /\ data'[dir[n]] = data[dir[n]]
    <3>1. CASE dir[n] \in Old
      BY <1>1, <2>2, <3>1, OldLeftAlone, NamesAssumption
    <3>2. CASE dir[n] \in Workers /\ ~Active(dir[n]) /\ rivals[dir[n]] = {}
      <4>1. CASE x # dir[n] BY <1>1, <2>2, <3>2, <4>1, LeftAlone
      <4>2. CASE x = dir[n]
        <5>1. TypeOK /\ ~Active(x) BY <1>1, <3>2, <4>2 DEF StoreInv
        <5>2. dir'[n] = dir[n] BY <2>2, <5>1, DirStep
        <5>3. data'[x] = data[x] BY <2>2, <5>1, DataStep, InodesApart
        <5> QED BY <4>2, <5>2, <5>3
      <4> QED BY <4>1, <4>2
    <3> QED BY <1>1, <3>1, <3>2 DEF Settled
  <2> QED BY <1>1, <2>1, <2>2, Steps
<1>2. StoreInv /\ [Next]_vars =>
        [\A n \in Names : Settled(n) => dir'[n] = dir[n] /\ data'[dir[n]] = data[dir[n]]]_vars
  BY <1>1
<1> QED BY <1>2, SpecStore, PTL DEF Spec, SettledUntouched
=============================================================================
