------------------------------ MODULE FileStore ------------------------------
(***************************************************************************)
(* The download directory of xcd and the workers that receive files into   *)
(* it: recv_file of xcd_protocol_handler.hpp, one system call per step, for *)
(* several connections at once whose files may have the same name.  How a  *)
(* worker gets its blocks is module Transfer; here they just arrive.       *)
(*                                                                         *)
(* A name refers to an inode, and a stream writes to the inode it opened   *)
(* at its own offset, whatever the name refers to by now.  The inode that  *)
(* worker w creates is w itself; the one a file had before the server was  *)
(* started is its name.  Block i that w receives is <<w, i>>.              *)
(***************************************************************************)
EXTENDS Integers, Sequences

CONSTANTS
  Workers,    \* bound: the transfers
  Names,      \* the names clients give their files
  Old,        \* the names in the directory when the server is first started
  MaxBlocks,  \* bound: blocks of a file
  None, Hole

ASSUME NamesAssumption ==
  /\ Old \subseteq Names
  /\ Workers \cap Names = {}
  /\ None \notin Workers \cup Names /\ Hole \notin Workers \cup Names

ASSUME BlocksAssumption == MaxBlocks \in Nat

VARIABLES
  up,       \* the server process is running
  name,     \* the file name each worker receives
  pc,       \* where each worker is in recv_file and after it
  got,      \* blocks a worker has received
  flushed,  \* blocks its stream has written, the rest being in its buffer
  os,       \* the inode its stream has open
  dir,      \* the inode each name refers to
  data,     \* what each inode holds
  rivals    \* history: workers of the same name that were at it at the same time

vars == <<up, name, pc, got, flushed, os, dir, data, rivals>>

Inodes == Workers \cup Names

\* Between the test for the name and the last use of it
Active(w)   == pc[w] \in {"tested", "writing", "failed"}
RivalsOf(w) == {v \in Workers \ {w} : Active(v) /\ name[v] = name[w]}

\* What the stream of w has received but not written goes to the file, behind
\* what it has written before; a gap the file may have there reads as zeros.
Flushed(w) ==
  LET old == data[os[w]]
      end == IF got[w] > Len(old) THEN got[w] ELSE Len(old)
  IN  IF flushed[w] = got[w] THEN data
      ELSE [data EXCEPT ![os[w]] =
              [i \in 1..end |-> IF i \in (flushed[w] + 1)..got[w] THEN <<w, i>>
                                ELSE IF i <= Len(old) THEN old[i] ELSE Hole]]

-----------------------------------------------------------------------------
(* recv_file *)

\* slip: no test for the name
Test_missing(w) ==
  /\ up /\ pc[w] = "idle"
  /\ pc' = [pc EXCEPT ![w] = "tested"]
  /\ rivals' = [v \in Workers |-> IF v = w THEN RivalsOf(w)
                                  ELSE IF v \in RivalsOf(w) THEN rivals[v] \cup {w}
                                  ELSE rivals[v]]
  /\ UNCHANGED <<up, name, got, flushed, os, dir, data>>

\* `if(std::filesystem::exists(filePath))', once the name has been received
Test(w) ==
  /\ up /\ pc[w] = "idle"
  /\ IF dir[name[w]] # None
     THEN pc' = [pc EXCEPT ![w] = "refused"] /\ UNCHANGED rivals
     ELSE /\ pc' = [pc EXCEPT ![w] = "tested"]
          /\ rivals' = [v \in Workers |-> IF v = w THEN RivalsOf(w)
                                          ELSE IF v \in RivalsOf(w) THEN rivals[v] \cup {w}
                                          ELSE rivals[v]]
  /\ UNCHANGED <<up, name, got, flushed, os, dir, data>>

\* `std::ofstream os(filePath, ...)' creates the file, or empties the one that
\* has the name by now.
Open(w) ==
  /\ pc[w] = "tested"
  /\ LET i == IF dir[name[w]] = None THEN w ELSE dir[name[w]] IN
       /\ dir' = [dir EXCEPT ![name[w]] = i]
       /\ data' = [data EXCEPT ![i] = <<>>]
       /\ os' = [os EXCEPT ![w] = i]
  /\ pc' = [pc EXCEPT ![w] = "writing"]
  /\ UNCHANGED <<up, name, got, flushed, rivals>>

\* os.write() puts a block into the buffer of the stream.
Write(w) ==
  /\ pc[w] = "writing" /\ got[w] < MaxBlocks
  /\ got' = [got EXCEPT ![w] = @ + 1]
  /\ UNCHANGED <<up, name, pc, flushed, os, dir, data, rivals>>

\* The stream empties its buffer when it likes to.
Flush(w) ==
  /\ pc[w] = "writing" /\ flushed[w] < got[w]
  /\ data' = Flushed(w)
  /\ flushed' = [flushed EXCEPT ![w] = got[w]]
  /\ UNCHANGED <<up, name, pc, got, os, dir, rivals>>

\* slip: the stream is left to be closed some time later
Close_later(w) ==
  /\ pc[w] = "writing"
  /\ \E next \in {"stored", "failed"} : pc' = [pc EXCEPT ![w] = next]
  /\ UNCHANGED <<up, name, got, flushed, os, dir, data, rivals>>

\* os.close(), after the EOT frame or after a frame that could not be read.
Close(w) ==
  /\ pc[w] = "writing"
  /\ \E next \in {"stored", "failed"} : pc' = [pc EXCEPT ![w] = next]
  /\ data' = Flushed(w)
  /\ flushed' = [flushed EXCEPT ![w] = got[w]]
  /\ os' = [os EXCEPT ![w] = None]
  /\ UNCHANGED <<up, name, got, dir, rivals>>

\* STATE_FINAL_ACK
FinalAck(w) ==
  /\ pc[w] = "stored"
  /\ pc' = [pc EXCEPT ![w] = "acked"]
  /\ UNCHANGED <<up, name, got, flushed, os, dir, data, rivals>>

\* slip: what was written stays
Remove_forgotten(w) ==
  /\ pc[w] = "failed"
  /\ pc' = [pc EXCEPT ![w] = "dropped"]
  /\ UNCHANGED <<up, name, got, flushed, os, dir, data, rivals>>

\* `std::filesystem::remove(filePath)' removes what has the name by now.
Remove(w) ==
  /\ pc[w] = "failed"
  /\ dir' = [dir EXCEPT ![name[w]] = None]
  /\ pc' = [pc EXCEPT ![w] = "dropped"]
  /\ UNCHANGED <<up, name, got, flushed, os, data, rivals>>

RecvFile(w) ==
  \/ Test(w) \/ Open(w) \/ Write(w) \/ Flush(w) \/ Close(w) \/ FinalAck(w) \/ Remove(w)

-----------------------------------------------------------------------------
(* The process *)

\* sigint_handler, or a crash: the buffers of the streams are lost, the files
\* stay as they are.
Kill ==
  /\ up
  /\ up' = FALSE
  /\ pc' = [w \in Workers |-> IF Active(w) \/ pc[w] = "stored" THEN "killed" ELSE pc[w]]
  /\ os' = [w \in Workers |-> None]
  /\ UNCHANGED <<name, got, flushed, dir, data, rivals>>

Restart ==
  /\ ~up
  /\ up' = TRUE
  /\ UNCHANGED <<name, pc, got, flushed, os, dir, data, rivals>>

-----------------------------------------------------------------------------
Init ==
  /\ up = TRUE
  /\ name \in [Workers -> Names]
  /\ pc = [w \in Workers |-> "idle"]
  /\ got = [w \in Workers |-> 0] /\ flushed = got
  /\ os = [w \in Workers |-> None]
  /\ dir = [n \in Names |-> IF n \in Old THEN n ELSE None]
  /\ data = [i \in Inodes |-> IF i \in Old THEN <<<<i, 1>>>> ELSE <<>>]
  /\ rivals = [w \in Workers |-> {}]

Next == Kill \/ Restart \/ \E w \in Workers : RecvFile(w)

Spec == Init /\ [][Next]_vars

-----------------------------------------------------------------------------
(* Properties *)

Phases == {"idle", "refused", "tested", "writing", "failed", "stored", "acked",
           "dropped", "killed"}
Blocks == (Inodes \X Nat) \cup {Hole}

\* The values the variables take; a stream is open exactly while its worker
\* writes, also when a kill ends it.
TypeOK ==
  /\ up \in BOOLEAN
  /\ name \in [Workers -> Names]
  /\ pc \in [Workers -> Phases]
  /\ got \in [Workers -> 0..MaxBlocks]
  /\ flushed \in [Workers -> 0..MaxBlocks]
  /\ os \in [Workers -> Inodes \cup {None}]
  /\ dir \in [Names -> Inodes \cup {None}]
  /\ data \in [Inodes -> Seq(Blocks)]
  /\ rivals \in [Workers -> SUBSET Workers]
  /\ \A w \in Workers : os[w] # None <=> pc[w] = "writing"

FirstBlocks(w, n) == [i \in 1..n |-> <<w, i>>]

\* A worker that had its name to itself keeps what Transfer says of its file,
\* whatever other workers do with other names or did with this one before: what
\* its stream has written while it writes, all it received once the file is
\* acknowledged, for good, and nothing once it has failed.
AloneKeepsItsFile ==
  \A w \in Workers : rivals[w] = {} =>
    /\ pc[w] = "writing" => dir[name[w]] = w /\ data[w] = FirstBlocks(w, flushed[w])
    /\ pc[w] \in {"stored", "acked"} => dir[name[w]] = w /\ data[w] = FirstBlocks(w, got[w])
    /\ pc[w] = "dropped" => dir[name[w]] # w

\* Two workers that test for one name before either has created it both go on.
\* The acknowledged file of one is then gone only if the other failed and
\* removed the name it took for its own; nothing else makes a stored name vanish.
GoneByARival ==
  \A w \in Workers : pc[w] \in {"stored", "acked"} /\ dir[name[w]] = None =>
    \E v \in rivals[w] : pc[v] = "dropped"

\* What the server has acknowledged it has: "send final ACK to accknowledge
\* successful reception" (src/xcd_protocol_handler.hpp:300), also when "up to 10
\* clients can connect to the server and upload in parallel" (CHANGELOG.md:7).
\* It does not hold: see GoneByARival; the file may also be emptied by a rival that
\* opens it later, or hold what two workers wrote.
AckedStays ==
  \A w \in Workers : pc[w] = "acked" =>
    dir[name[w]] # None /\ data[dir[name[w]]] = FirstBlocks(w, got[w])

\* A file that was there before the server, or that a worker had to itself and
\* is done with, complete or as the part a killed server left
Settled(n) ==
  \/ dir[n] \in Old
  \/ dir[n] \in Workers /\ ~Active(dir[n]) /\ rivals[dir[n]] = {}

\* No later attempt, failing or not, and no kill or restart changes or removes a
\* settled file; so the part a killed server left blocks its name for good.
SettledUntouched ==
  [][\A n \in Names :
       Settled(n) => dir'[n] = dir[n] /\ data'[dir[n]] = data[dir[n]]]_vars

\* Whatever is found under a name a client gave was made by a worker of that name
\* that is still receiving it, received it completely or was killed at it; a worker
\* that failed, however many there were, leaves nothing of what it made.
PartsExplained ==
  \A n \in Names : LET w == dir[n] IN
    w \in Workers =>
      name[w] = n /\ pc[w] \in {"writing", "failed", "stored", "acked", "killed"}
=============================================================================
