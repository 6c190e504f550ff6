----------------------------- MODULE ConnProofs -----------------------------
(***************************************************************************)
(* The threads of the server keep their count, their managers and their    *)
(* descriptors, for any number of connections, clients and descriptor      *)
(* numbers.                                                                *)
(***************************************************************************)
EXTENDS ConnManager, FiniteSetTheorems, TLAPS

\* The connection the main thread holds is its own until it decides about it.
Waiting == accepted # NoConn => worker[accepted] = "accepted"

\* Two parts of Admission
AtMost == Cardinality(list) <= MaxClients
Exact  == list \cup deleted = {c \in Conns : worker[c] \in Started}

\* Where the clean-up is: it visits managers that are still there, under the lock,
\* and is with one that is done; nulls are in the list only as long.
Place ==
  /\ lock = "free" => scan = {} /\ list \cap deleted = {}
  /\ scan \subseteq list \ deleted
  /\ IF due = "visit" THEN visited = NoConn ELSE visited \in scan /\ IsDone(visited)
  /\ due = "delete" => \A fd \in Fds : fdTable[fd] # Sock(visited)
  /\ \A c \in deleted : worker[c] = "ended"

\* The two parts of NothingLeaked
SockKept(fd, c) ==
  fdTable[fd] = Sock(c) =>
    /\ sock[c] = fd
    /\ c = accepted \/ (c \in list \ deleted /\ worker[c] # "closed")
FileKept(fd, c) ==
  fdTable[fd] = File(c) => file[c] = fd /\ worker[c] \in {"keying", "receiving"}

\* The inductive invariant
ConnInv == TypeOK /\ Waiting /\ AtMost /\ Exact /\ Place /\ NothingLeaked

LEMMA LeakParts ==
  NothingLeaked <=> \A fd \in Fds : \A c \in Conns : SockKept(fd, c) /\ FileKept(fd, c)
BY DEF NothingLeaked, SockKept, FileKept

LEMMA LeakPartsPrimed ==
  ASSUME \A fd \in Fds : \A c \in Conns : SockKept(fd, c)' /\ FileKept(fd, c)'
  PROVE  NothingLeaked'
BY DEF NothingLeaked, SockKept, FileKept

\* What the entries of the table can be told by
LEMMA Kinds ==
  ASSUME NEW c, NEW d
  PROVE  /\ Sock(c) # Free /\ File(c) # Free /\ Sock(c) # File(d)
         /\ Sock(c) = Sock(d) => c = d
         /\ File(c) = File(d) => c = d
<1>1. Sock(c).what = "sock" /\ File(c).what = "file" /\ Free.what = "free" /\ File(d).what = "file"
  BY DEF Sock, File, Free
<1>2. Sock(c).conn = c /\ Sock(d).conn = d /\ File(c).conn = c /\ File(d).conn = d
  BY DEF Sock, File
<1> QED BY <1>1, <1>2

-----------------------------------------------------------------------------
(* The steps of a worker *)

Files == {"keying", "receiving"}
InUse == {"accepted", "serving", "keying", "keyed", "receiving", "received"}

\* The three kinds of them: what changes hands is at most one number.
Moves(c) ==
  /\ UNCHANGED <<file, fdTable>>
  /\ \/ worker[c] = "serving" /\ worker' = [worker EXCEPT ![c] = "done"]
     \/ worker[c] = "closed" /\ worker' = [worker EXCEPT ![c] = "done"]
     \/ worker[c] = "done" /\ worker' = [worker EXCEPT ![c] = "ended"]
OpensOne(c) ==
  /\ worker[c] \in {"serving", "keyed"}
  /\ \E fd \in Fds : /\ fdTable[fd] = Free
                     /\ fdTable' = [fdTable EXCEPT ![fd] = File(c)]
                     /\ file' = [file EXCEPT ![c] = fd]
  /\ \E p \in Files : worker' = [worker EXCEPT ![c] = p]
ClosesOne(c) ==
  /\ worker[c] \in Files
  /\ fdTable' = [fdTable EXCEPT ![file[c]] = Free] /\ file' = [file EXCEPT ![c] = NoFd]
  /\ \E p \in {"keyed", "received"} : worker' = [worker EXCEPT ![c] = p]
HangsUp(c) ==
  /\ worker[c] \in {"serving", "keyed", "received"}
  /\ fdTable' = [fdTable EXCEPT ![sock[c]] = Free] /\ file' = file
  /\ worker' = [worker EXCEPT ![c] = "closed"]

LEMMA ServeIs ==
  ASSUME NEW c \in Conns, Serve(c)
  PROVE  /\ UNCHANGED <<threadVars, sock>>
         /\ Moves(c) \/ OpensOne(c) \/ ClosesOne(c) \/ HangsUp(c)
<1>1. CASE Reject(c) \/ Finish(c) \/ Return(c)
  BY <1>1 DEF Reject, Finish, Return, Moves
<1>2. CASE OpenKey(c) \/ OpenOutput(c)
  BY <1>2 DEF OpenKey, OpenOutput, OpenFile, OpensOne, Open, IsLowestFree, Files
<1>3. CASE CloseKey(c) \/ CloseOutput(c)
  BY <1>3 DEF CloseKey, CloseOutput, CloseFile, ClosesOne, Close, Files
<1>4. CASE CloseSocket(c)
  BY <1>4 DEF CloseSocket, HangsUp, Close
<1> QED
  BY <1>1, <1>2, <1>3, <1>4 DEF Serve

\* A started thread stays started, one that is done stays done, and other threads
\* are where they were.
LEMMA ServeMoves ==
  ASSUME TypeOK, NEW c \in Conns, Serve(c)
  PROVE  /\ UNCHANGED <<threadVars, sock>>
         /\ worker[c] \in Started \ {"ended"} /\ worker'[c] \in Started
         /\ IsDone(c) => IsDone(c)'
         /\ worker' = [worker EXCEPT ![c] = worker'[c]]
         /\ \A e \in Conns \ {c} : worker'[e] = worker[e]
<1>1. /\ worker[c] \in Started \ {"ended"}
      /\ \E p \in Started : worker' = [worker EXCEPT ![c] = p] /\ (worker[c] = "done" => p = "ended")
  BY ServeIs DEF Moves, OpensOne, ClosesOne, HangsUp, Files, Started
<1> QED
  BY <1>1, ServeIs DEF TypeOK, IsDone

-----------------------------------------------------------------------------
(* Types *)

Entries == {Free} \cup {Sock(c) : c \in Conns} \cup {File(c) : c \in Conns}

LEMMA TypeInit == Init => TypeOK
BY DEF Init, TypeOK, Phases

LEMMA TypeStep == TypeOK /\ Place /\ [Next]_vars => TypeOK'
<1> SUFFICES ASSUME TypeOK, Place, [Next]_vars PROVE TypeOK' OBVIOUS
<1> USE DEF TypeOK, Open, Close
<1>1. ASSUME NEW c \in Conns, Accept(c) PROVE TypeOK'
  <2>1. Sock(c) \in Entries BY DEF Entries
  <2> QED BY <1>1, <2>1 DEF Accept, Phases, Entries
<1>2. ASSUME NEW c \in Conns, Serve(c) PROVE TypeOK'
  <2>1. File(c) \in Entries
    BY DEF Entries
  <2>2. fdTable' \in [Fds -> Entries] /\ file' \in [Conns -> Fds \cup {NoFd}]
    BY <1>2, <2>1, ServeIs DEF Moves, OpensOne, ClosesOne, HangsUp, Entries
  <2>3. worker' \in [Conns -> Phases] /\ UNCHANGED <<threadVars, sock>>
    BY <1>2, ServeMoves DEF Phases
  <2> QED
    BY <2>2, <2>3 DEF Entries, threadVars
<1>3. CASE TurnAway BY <1>3 DEF TurnAway, Phases
<1>4. CASE StartConnManager BY <1>4 DEF StartConnManager, Phases, Started
<1>5. CASE CleanUp
  <2>1. CASE StartScan BY <2>1 DEF StartScan
  <2>2. CASE EndScan BY <2>2 DEF EndScan
  <2>3. ASSUME NEW c \in Conns, Skip(c) PROVE TypeOK' BY <2>3 DEF Skip
  <2>4. ASSUME NEW c \in Conns, TestSocket(c) PROVE TypeOK' BY <2>4 DEF TestSocket
  <2>5. CASE CloseLeft BY <2>5 DEF CloseLeft
  <2>6. CASE Delete
    <3>1. visited \in Conns BY <2>6 DEF Delete, Place
    <3> QED BY <2>6, <3>1 DEF Delete
  <2> QED BY <1>5, <2>1, <2>2, <2>3, <2>4, <2>5, <2>6 DEF CleanUp
<1>6. CASE UNCHANGED vars BY <1>6 DEF vars, threadVars
<1> QED BY <1>1, <1>2, <1>3, <1>4, <1>5, <1>6 DEF Next

-----------------------------------------------------------------------------
(* The list *)

LEMMA ListFinite == ASSUME TypeOK PROVE IsFiniteSet(list) /\ Cardinality(list) \in Nat
<1>1. IsFiniteSet(list) BY ConnsAssumption, FS_Subset DEF TypeOK
<1> QED BY <1>1, FS_CardinalityType

LEMMA ListStep == ConnInv /\ [Next]_vars => (AtMost /\ Exact /\ Waiting)'
<1> SUFFICES ASSUME ConnInv, [Next]_vars PROVE AtMost' /\ Exact' /\ Waiting' OBVIOUS
<1>0. TypeOK /\ Waiting /\ AtMost /\ Exact /\ Place BY DEF ConnInv
<1>a. IsFiniteSet(list) /\ Cardinality(list) \in Nat BY <1>0, ListFinite
<1> USE DEF Waiting, AtMost, Exact
<1>1. ASSUME NEW c \in Conns, Accept(c) PROVE AtMost' /\ Exact' /\ Waiting'
  BY <1>0, <1>1 DEF TypeOK, Accept, Started
<1>2. ASSUME NEW c \in Conns, Serve(c) PROVE AtMost' /\ Exact' /\ Waiting'
  <2>1. /\ UNCHANGED <<accepted, list, deleted>>
        /\ worker[c] \in Started /\ worker'[c] \in Started
        /\ \A e \in Conns \ {c} : worker'[e] = worker[e]
    BY <1>0, <1>2, ServeMoves DEF threadVars
  <2>2. Exact' BY <1>0, <2>1
  <2>3. accepted # NoConn => accepted # c /\ accepted \in Conns
    BY <1>0, <2>1 DEF TypeOK, Started
  <2> QED BY <1>0, <2>1, <2>2, <2>3
<1>3. CASE TurnAway BY <1>0, <1>3, ConnsAssumption DEF TypeOK, TurnAway, Started
<1>4. CASE StartConnManager
  <2>1. accepted \in Conns /\ accepted \notin list /\ accepted \notin deleted
    BY <1>0, <1>4 DEF TypeOK, StartConnManager, Started
  <2>2. Cardinality(list') = Cardinality(list) + 1
    BY <1>a, <2>1, <1>4, FS_AddElement DEF StartConnManager
  <2>3. AtMost' BY <1>a, <2>2, <1>4, MaxAssumption, SMT DEF StartConnManager
  <2> QED BY <1>0, <2>1, <2>3, <1>4, ConnsAssumption DEF TypeOK, StartConnManager, Started
<1>5. CASE CleanUp
  <2>1. CASE \/ StartScan \/ CloseLeft \/ \E c \in Conns : Skip(c) \/ TestSocket(c)
    BY <1>0, <2>1 DEF StartScan, CloseLeft, Skip, TestSocket
  <2>2. CASE Delete
    <3>1. visited \in list /\ deleted' = deleted \cup {visited}
      BY <1>0, <2>2 DEF Delete, Place
    <3> QED BY <1>0, <2>2, <3>1 DEF Delete
  <2>3. CASE EndScan
    <3>1. list' = list \ deleted /\ UNCHANGED <<accepted, deleted, worker>> BY <2>3 DEF EndScan
    <3>2. Cardinality(list') <= Cardinality(list) /\ Cardinality(list') \in Nat
      BY <1>a, <3>1, FS_Subset, FS_CardinalityType
    <3>3. AtMost' BY <1>0, <1>a, <3>2, MaxAssumption, SMT
    <3> QED BY <1>0, <3>1, <3>3
  <2> QED BY <1>5, <2>1, <2>2, <2>3 DEF CleanUp
<1>6. CASE UNCHANGED vars BY <1>0, <1>6 DEF vars, threadVars
<1> QED BY <1>1, <1>2, <1>3, <1>4, <1>5, <1>6 DEF Next

\* The clean-up is where it should be.
LEMMA PlaceStep == ConnInv /\ [Next]_vars => Place'
<1> SUFFICES ASSUME ConnInv, [Next]_vars PROVE Place' OBVIOUS
<1>0. TypeOK /\ Waiting /\ Exact /\ Place /\ \A fd \in Fds : \A c \in Conns : SockKept(fd, c)
  BY LeakParts DEF ConnInv
<1>a. due # "visit" => visited \in Conns /\ worker[visited] \in {"done", "ended"}
  BY <1>0 DEF TypeOK, Place, IsDone
\* steps of the other threads
<1>b. ASSUME UNCHANGED <<deleted, lock, scan, visited, due>>, list' \cap deleted = list \cap deleted,
             list \subseteq list',
             \A c \in Conns : IsDone(c) => IsDone(c)',
             \A c \in Conns : worker[c] = "ended" => worker'[c] = "ended",
             \A fd \in Fds : fdTable'[fd] # fdTable[fd] =>
               \A c \in Conns : IsDone(c) => fdTable'[fd] # Sock(c)
      PROVE  Place'
  <2>1. IF due = "visit" THEN visited = NoConn ELSE visited \in scan /\ IsDone(visited)'
    BY <1>0, <1>a, <1>b DEF Place
  <2>2. ASSUME due = "delete", NEW fd \in Fds PROVE fdTable'[fd] # Sock(visited)
    BY <1>0, <1>a, <1>b, <2>2 DEF Place, IsDone
  <2>3. \A c \in deleted : worker'[c] = "ended"
    BY <1>0, <1>b DEF Place, TypeOK
  <2> QED
    BY <1>0, <1>b, <2>1, <2>2, <2>3 DEF Place, IsDone
<1>1. ASSUME NEW c \in Conns, Accept(c) PROVE Place'
  <2>1. PICK new \in Fds : fdTable' = [fdTable EXCEPT ![new] = Sock(c)]
    BY <1>1 DEF Accept, Open
  <2>2. ~IsDone(c) /\ worker[c] # "ended" /\ \A e \in Conns \ {c} : worker'[e] = worker[e]
    BY <1>0, <1>1 DEF Accept, IsDone, TypeOK
  <2>3. ASSUME NEW fd \in Fds, fdTable'[fd] # fdTable[fd], NEW e \in Conns, IsDone(e)
        PROVE  fdTable'[fd] # Sock(e)
    BY <1>0, <2>1, <2>2, <2>3, Kinds DEF TypeOK
  <2>4. UNCHANGED <<list, deleted, lock, scan, visited, due>>
    BY <1>1 DEF Accept
  <2> QED
    BY <1>b, <2>2, <2>3, <2>4 DEF IsDone
<1>2. ASSUME NEW c \in Conns, Serve(c) PROVE Place'
  <2>1. UNCHANGED <<list, deleted, lock, scan, visited, due>>
    BY <1>0, <1>2, ServeMoves DEF threadVars
  <2>2. /\ worker[c] # "ended" /\ (IsDone(c) => IsDone(c)')
        /\ \A e \in Conns \ {c} : worker'[e] = worker[e]
    BY <1>0, <1>2, ServeMoves
  <2>3. \A fd \in Fds : fdTable'[fd] \in {fdTable[fd], Free, File(c)}
    BY <1>0, <1>2, ServeIs DEF TypeOK, Moves, OpensOne, ClosesOne, HangsUp
  <2>4. ASSUME NEW fd \in Fds, fdTable'[fd] # fdTable[fd], NEW e \in Conns
        PROVE  fdTable'[fd] # Sock(e)
    BY <2>3, <2>4, Kinds
  <2> QED
    BY <1>b, <2>1, <2>2, <2>4 DEF IsDone
<1>3. CASE TurnAway
  <2>1. accepted \in Conns /\ worker[accepted] = "accepted"
    BY <1>0, <1>3 DEF TurnAway, TypeOK, Waiting
  <2>2. \A e \in Conns \ {accepted} : worker'[e] = worker[e]
    BY <1>0, <1>3 DEF TurnAway, TypeOK
  <2>3. \A fd \in Fds : fdTable'[fd] \in {fdTable[fd], Free}
    BY <1>0, <1>3 DEF TurnAway, TypeOK, Close
  <2>4. UNCHANGED <<list, deleted, lock, scan, visited, due>>
    BY <1>3 DEF TurnAway
  <2> QED
    BY <1>b, <2>1, <2>2, <2>3, <2>4, Kinds DEF IsDone
<1>4. CASE StartConnManager
  <2>1. accepted \in Conns /\ worker[accepted] = "accepted"
    BY <1>0, <1>4 DEF StartConnManager, TypeOK, Waiting
  <2>2. \A e \in Conns \ {accepted} : worker'[e] = worker[e]
    BY <1>0, <1>4 DEF StartConnManager, TypeOK
  <2>3. accepted \notin deleted
    BY <1>0, <2>1 DEF Exact, Started
  <2>4. UNCHANGED <<deleted, lock, scan, visited, due, fdTable>> /\ list' = list \cup {accepted}
    BY <1>4 DEF StartConnManager
  <2> QED
    BY <1>b, <2>1, <2>2, <2>3, <2>4 DEF IsDone
<1>5. CASE CleanUp
  <2>1. CASE StartScan BY <1>0, <2>1 DEF StartScan, Place, IsDone
  <2>2. CASE EndScan BY <1>0, <2>2 DEF EndScan, Place, IsDone
  <2>3. ASSUME NEW c \in Conns, Skip(c) PROVE Place' BY <1>0, <2>3 DEF Skip, Place, IsDone
  <2>4. ASSUME NEW c \in Conns, TestSocket(c) PROVE Place'
    <3>1. ASSUME due' = "delete", NEW fd \in Fds PROVE fdTable[fd] # Sock(c)
      <4>1. fdTable[sock[c]] = Free BY <2>4, <3>1 DEF TestSocket
      <4> QED BY <1>0, <2>4, <4>1, Kinds DEF SockKept
    <3> QED BY <1>0, <2>4, <3>1 DEF TestSocket, Place, IsDone
  <2>5. CASE CloseLeft
    <3>1. /\ visited \in scan /\ IsDone(visited) /\ visited \in Conns
          /\ fdTable' = [fdTable EXCEPT ![sock[visited]] = Free]
      BY <1>0, <2>5 DEF CloseLeft, Place, Close, TypeOK
    <3>2. ASSUME NEW fd \in Fds PROVE fdTable'[fd] # Sock(visited)
      BY <1>0, <3>1, Kinds DEF SockKept, TypeOK
    <3> QED BY <1>0, <2>5, <3>1, <3>2 DEF CloseLeft, Place, IsDone
  <2>6. CASE Delete BY <1>0, <2>6 DEF Delete, Place, IsDone
  <2> QED BY <1>5, <2>1, <2>2, <2>3, <2>4, <2>5, <2>6 DEF CleanUp
<1>6. CASE UNCHANGED vars BY <1>0, <1>6 DEF vars, threadVars, Place, IsDone
<1> QED BY <1>1, <1>2, <1>3, <1>4, <1>5, <1>6 DEF Next

-----------------------------------------------------------------------------
(* The descriptors *)

\* A number that is closed, or that refers to what it did: nothing else changes hands.
LEMMA KeptIfClosed ==
  ASSUME NEW fd \in Fds, NEW c \in Conns, SockKept(fd, c), FileKept(fd, c),
         fdTable'[fd] \in {fdTable[fd], Free},
         fdTable'[fd] = Sock(c) =>
           /\ sock'[c] = sock[c]
           /\ c = accepted' \/ (c \in list' \ deleted' /\ worker'[c] # "closed"),
         fdTable'[fd] = File(c) => file'[c] = file[c] /\ worker'[c] \in {"keying", "receiving"}
  PROVE  SockKept(fd, c)' /\ FileKept(fd, c)'
BY Kinds DEF SockKept, FileKept

LEMMA LeakStep == ConnInv /\ [Next]_vars => NothingLeaked'
<1> SUFFICES ASSUME ConnInv, [Next]_vars, NEW fd \in Fds, NEW d \in Conns
             PROVE  SockKept(fd, d)' /\ FileKept(fd, d)'
  BY LeakPartsPrimed
<1>0. TypeOK /\ Waiting /\ Exact /\ Place /\ SockKept(fd, d) /\ FileKept(fd, d)
  BY LeakParts DEF ConnInv
<1>1. ASSUME NEW c \in Conns, Accept(c) PROVE SockKept(fd, d)' /\ FileKept(fd, d)'
  <2>1. PICK new \in Fds : /\ fdTable' = [fdTable EXCEPT ![new] = Sock(c)]
                           /\ sock' = [sock EXCEPT ![c] = new]
    BY <1>1 DEF Accept, Open
  <2>2. /\ worker' = [worker EXCEPT ![c] = "accepted"] /\ accepted' = c
        /\ UNCHANGED <<list, deleted, file>>
        /\ worker[c] = "none" /\ accepted = NoConn
    BY <1>1 DEF Accept
  <2>3. d # accepted /\ c \notin list
    BY <1>0, <2>2, ConnsAssumption DEF Exact, Started
  <2>4. CASE fd = new
    <3>1. fdTable'[fd] = Sock(c) BY <1>0, <2>1, <2>4 DEF TypeOK
    <3>2. sock'[c] = fd BY <1>0, <2>1, <2>4 DEF TypeOK
    <3> QED BY <2>2, <3>1, <3>2, Kinds DEF SockKept, FileKept
  <2>5. CASE fd # new
    <3>1. fdTable'[fd] = fdTable[fd] BY <1>0, <2>1, <2>5 DEF TypeOK
    <3>2. c = d => fdTable[fd] # Sock(d) /\ fdTable[fd] # File(d)
      BY <1>0, <2>2, <2>3 DEF SockKept, FileKept
    <3>3. c # d => worker'[d] = worker[d] /\ sock'[d] = sock[d]
      BY <1>0, <2>1, <2>2 DEF TypeOK
    <3> QED BY <1>0, <2>2, <2>3, <3>1, <3>2, <3>3 DEF SockKept, FileKept
  <2> QED BY <2>4, <2>5
<1>2. ASSUME NEW c \in Conns, Serve(c) PROVE SockKept(fd, d)' /\ FileKept(fd, d)'
  <2>0. /\ UNCHANGED <<accepted, list, deleted, sock>>
        /\ c # d => worker'[d] = worker[d]
    BY <1>0, <1>2, ServeMoves DEF threadVars
  <2>a. ASSUME NEW p, worker' = [worker EXCEPT ![c] = p] PROVE worker'[c] = p
    BY <1>0, <2>a DEF TypeOK
  <2>1. CASE Moves(c)
    <3>1. /\ fdTable' = fdTable /\ file' = file /\ worker[c] \notin Files
          /\ worker'[c] # "closed"
      BY <1>0, <2>1, <2>a DEF Moves, Files
    <3> QED BY <1>0, <2>0, <3>1 DEF SockKept, FileKept, Files
  <2>2. CASE OpensOne(c)
    <3>1. PICK new \in Fds : /\ fdTable' = [fdTable EXCEPT ![new] = File(c)]
                             /\ file' = [file EXCEPT ![c] = new]
      BY <2>2 DEF OpensOne
    <3>2. worker[c] \notin Files /\ worker'[c] \in Files /\ worker[c] # "closed"
      BY <2>2, <2>a DEF OpensOne, Files
    <3>3. CASE fd = new
      <4>1. fdTable'[fd] = File(c) /\ file'[c] = fd BY <1>0, <3>1, <3>3 DEF TypeOK
      <4> QED BY <4>1, <3>2, Kinds DEF SockKept, FileKept, Files
    <3>4. CASE fd # new
      <4>1. fdTable'[fd] = fdTable[fd] BY <1>0, <3>1, <3>4 DEF TypeOK
      <4>2. c # d => file'[d] = file[d] BY <1>0, <3>1 DEF TypeOK
      <4>3. c = d => fdTable[fd] # File(d) BY <1>0, <3>2 DEF FileKept, Files
      <4> QED BY <1>0, <2>0, <3>2, <4>1, <4>2, <4>3 DEF SockKept, FileKept, Files
    <3> QED BY <3>3, <3>4
  <2>3. CASE ClosesOne(c)
    <3>1. fdTable'[fd] = (IF fd = file[c] THEN Free ELSE fdTable[fd])
      BY <1>0, <2>3 DEF TypeOK, ClosesOne
    <3>2. c # d => file'[d] = file[d] BY <1>0, <2>3 DEF TypeOK, ClosesOne
    <3>3. worker'[c] # "closed" BY <2>3, <2>a DEF ClosesOne
    <3>4. c = d => fdTable'[fd] # File(d) BY <1>0, <3>1, Kinds DEF FileKept
    <3> QED BY <1>0, <2>0, <3>1, <3>2, <3>3, <3>4, KeptIfClosed, Kinds DEF SockKept, FileKept
  <2>4. CASE HangsUp(c)
    <3>1. fdTable'[fd] = (IF fd = sock[c] THEN Free ELSE fdTable[fd])
      BY <1>0, <2>4 DEF TypeOK, HangsUp
    <3>2. file' = file /\ worker[c] \notin Files BY <2>4 DEF HangsUp, Files
    <3>3. c = d => fdTable'[fd] # Sock(d) BY <1>0, <3>1, Kinds DEF SockKept
    <3> QED BY <1>0, <2>0, <3>1, <3>2, <3>3, KeptIfClosed, Kinds DEF SockKept, FileKept, Files
  <2> QED BY <1>2, <2>1, <2>2, <2>3, <2>4, ServeIs
<1>3. CASE TurnAway
  <2>1. /\ fdTable' = [fdTable EXCEPT ![sock[accepted]] = Free]
        /\ worker' = [worker EXCEPT ![accepted] = "refused"]
        /\ UNCHANGED <<sock, file, list, deleted>> /\ accepted # NoConn
    BY <1>3 DEF TurnAway, Close
  <2>2. fdTable'[fd] = (IF fd = sock[accepted] THEN Free ELSE fdTable[fd])
    BY <1>0, <2>1 DEF TypeOK
  <2>3. d # accepted => worker'[d] = worker[d] BY <1>0, <2>1 DEF TypeOK
  <2>4. worker[accepted] = "accepted" BY <1>0, <2>1 DEF Waiting
  <2>5. d = accepted => fdTable'[fd] # Sock(d) /\ fdTable'[fd] # File(d)
    BY <1>0, <2>2, <2>4, Kinds DEF SockKept, FileKept
  <2> QED BY <1>0, <2>1, <2>2, <2>3, <2>5, KeptIfClosed, Kinds DEF SockKept, FileKept
<1>4. CASE StartConnManager
  <2>1. /\ worker' = [worker EXCEPT ![accepted] = "serving"]
        /\ UNCHANGED <<sock, file, fdTable, deleted>> /\ accepted # NoConn
        /\ list' = list \cup {accepted}
    BY <1>4 DEF StartConnManager
  <2>2. IF d = accepted THEN worker'[d] = "serving" ELSE worker'[d] = worker[d]
    BY <1>0, <2>1 DEF TypeOK
  <2>3. worker[accepted] = "accepted" /\ (d = accepted => d \notin deleted)
    BY <1>0, <2>1 DEF Waiting, Exact, Started
  <2> QED BY <1>0, <2>1, <2>2, <2>3 DEF SockKept, FileKept
<1>5. CASE CleanUp
  <2>1. CASE StartScan \/ EndScan \/ \E c \in Conns : Skip(c) \/ TestSocket(c)
    <3>1. UNCHANGED <<accepted, deleted, worker, sock, file, fdTable>> /\ list' \ deleted' = list \ deleted
      BY <2>1 DEF StartScan, EndScan, Skip, TestSocket
    <3> QED BY <1>0, <3>1 DEF SockKept, FileKept
  <2>2. CASE CloseLeft
    <3>1. UNCHANGED <<accepted, list, deleted, worker, sock, file>>
      BY <2>2 DEF CloseLeft
    <3>2. fdTable'[fd] = (IF fd = sock[visited] THEN Free ELSE fdTable[fd])
      BY <1>0, <2>2 DEF TypeOK, CloseLeft, Close
    <3> QED BY <1>0, <3>1, <3>2, KeptIfClosed, Kinds DEF SockKept, FileKept
  <2>3. CASE Delete
    <3>1. /\ UNCHANGED <<accepted, list, worker, sock, file, fdTable>>
          /\ deleted' = deleted \cup {visited}
          /\ fdTable[fd] # Sock(visited)
      BY <1>0, <2>3 DEF Delete, Place
    <3> QED BY <1>0, <3>1 DEF SockKept, FileKept
  <2> QED BY <1>5, <2>1, <2>2, <2>3 DEF CleanUp
<1>6. CASE UNCHANGED vars BY <1>0, <1>6 DEF vars, threadVars, SockKept, FileKept
<1> QED BY <1>1, <1>2, <1>3, <1>4, <1>5, <1>6 DEF Next

-----------------------------------------------------------------------------
(* Whose numbers are closed *)

\* A connection that uses no number anew keeps its own if no entry of it is touched.
LEMMA OwnKept ==
  ASSUME NEW e \in Conns, Owns(e),
         worker'[e] \in InUse => worker[e] \in InUse,
         worker'[e] \in Files => worker[e] \in Files /\ file'[e] = file[e],
         sock'[e] = sock[e],
         \A fd \in Fds :
           \/ fdTable'[fd] = fdTable[fd]
           \/ fdTable[fd] # Sock(e) /\ fdTable[fd] # File(e)
           \/ fdTable[fd] = Sock(e) /\ worker'[e] \notin InUse
           \/ fdTable[fd] = File(e) /\ worker'[e] \notin Files
  PROVE  Owns(e)'
<1>1. ASSUME worker'[e] \in InUse PROVE sock'[e] \in Fds /\ fdTable'[sock'[e]] = Sock(e)
  <2>1. sock[e] \in Fds /\ fdTable[sock[e]] = Sock(e)
    BY <1>1 DEF Owns, InUse
  <2> QED
    BY <1>1, <2>1, Kinds
<1>2. ASSUME worker'[e] \in Files PROVE file'[e] \in Fds /\ fdTable'[file'[e]] = File(e)
  <2>1. file[e] \in Fds /\ fdTable[file[e]] = File(e)
    BY <1>2 DEF Owns, Files
  <2> QED
    BY <1>2, <2>1, Kinds
<1> QED
  BY <1>1, <1>2 DEF Owns, InUse, Files

\* A worker whose numbers are its own takes none from another connection.
LEMMA ServeOwns ==
  ASSUME TypeOK, NEW c \in Conns, Serve(c), Owns(c), NEW e \in Conns, Owns(e)
  PROVE  Owns(e)'
<1>0. sock' = sock /\ (c # e => worker'[e] = worker[e])
  BY ServeMoves
<1>a. ASSUME NEW p, worker' = [worker EXCEPT ![c] = p] PROVE worker'[c] = p
  BY <1>a DEF TypeOK
<1>1. CASE Moves(c)
  <2>1. fdTable' = fdTable /\ file' = file /\ worker'[c] \notin InUse /\ worker'[c] \notin Files
    BY <1>1, <1>a DEF Moves, InUse, Files
  <2> QED
    BY <1>0, <2>1, OwnKept
<1>2. CASE OpensOne(c)
  <2>1. PICK fd \in Fds : /\ fdTable[fd] = Free
                          /\ fdTable' = [fdTable EXCEPT ![fd] = File(c)]
                          /\ file' = [file EXCEPT ![c] = fd]
    BY <1>2 DEF OpensOne
  <2>2. worker[c] \in InUse
    BY <1>2 DEF OpensOne, InUse
  <2>3. \A g \in Fds : fdTable'[g] = fdTable[g] \/ fdTable[g] = Free
    BY <2>1 DEF TypeOK
  <2>4. CASE e = c
    <3>1. sock[e] \in Fds /\ fdTable[sock[e]] = Sock(e)
      BY <2>2, <2>4 DEF Owns, InUse
    <3>2. sock'[e] \in Fds /\ fdTable'[sock'[e]] = Sock(e)
      BY <1>0, <2>3, <3>1, Kinds
    <3>3. file'[e] \in Fds /\ fdTable'[file'[e]] = File(e)
      BY <2>1, <2>4 DEF TypeOK
    <3> QED
      BY <3>2, <3>3 DEF Owns
  <2>5. CASE e # c
    <3>1. file'[e] = file[e]
      BY <2>1, <2>5 DEF TypeOK
    <3> QED
      BY <1>0, <2>3, <2>5, <3>1, OwnKept, Kinds
  <2> QED
    BY <2>4, <2>5
<1>3. CASE ClosesOne(c)
  <2>1. worker'[c] \notin Files /\ worker[c] \in InUse
    BY <1>3, <1>a DEF ClosesOne, Files, InUse
  <2>2. fdTable[file[c]] = File(c)
    BY <1>3 DEF Owns, ClosesOne, Files
  <2>3. \A g \in Fds : fdTable'[g] = fdTable[g] \/ fdTable[g] = File(c)
    BY <1>3, <2>2 DEF TypeOK, ClosesOne
  <2>4. c # e => file'[e] = file[e]
    BY <1>3 DEF TypeOK, ClosesOne
  <2> QED
    BY <1>0, <2>1, <2>3, <2>4, OwnKept, Kinds
<1>4. CASE HangsUp(c)
  <2>1. /\ worker[c] \in InUse /\ worker'[c] \notin InUse /\ worker'[c] \notin Files
        /\ file' = file
    BY <1>4, <1>a DEF HangsUp, InUse, Files
  <2>2. fdTable[sock[c]] = Sock(c)
    BY <2>1 DEF Owns, InUse
  <2>3. \A g \in Fds : fdTable'[g] = fdTable[g] \/ fdTable[g] = Sock(c)
    BY <1>4, <2>2 DEF TypeOK, HangsUp
  <2> QED
    BY <1>0, <2>1, <2>3, OwnKept, Kinds
<1> QED
  BY <1>1, <1>2, <1>3, <1>4, ServeIs

\* What the step that takes a number from a connection must be.
Taken ==
  \/ CloseLeft /\ fdTable[sock[visited]] \notin {Free, Sock(visited)}
  \/ \E d \in Conns : ~Owns(d) /\ (Serve(d) \/ (TurnAway /\ accepted = d))

LEMMA OwnStep ==
  ASSUME ConnInv, [Next]_vars, ~Taken, NEW e \in Conns, Owns(e)
  PROVE  Owns(e)'
<1>0. TypeOK /\ Waiting /\ Exact /\ Place
  BY DEF ConnInv
<1>1. ASSUME NEW c \in Conns, Accept(c) PROVE Owns(e)'
  <2>1. PICK fd \in Fds : /\ fdTable[fd] = Free
                          /\ fdTable' = [fdTable EXCEPT ![fd] = Sock(c)]
                          /\ sock' = [sock EXCEPT ![c] = fd]
    BY <1>1 DEF Accept, Open, IsLowestFree
  <2>2. worker' = [worker EXCEPT ![c] = "accepted"] /\ file' = file
    BY <1>1 DEF Accept
  <2>3. CASE e = c
    BY <1>0, <2>1, <2>2, <2>3 DEF TypeOK, Owns
  <2>4. CASE e # c
    <3>1. worker'[e] = worker[e] /\ sock'[e] = sock[e]
      BY <1>0, <2>1, <2>2, <2>4 DEF TypeOK
    <3>2. \A g \in Fds : fdTable'[g] = fdTable[g] \/ fdTable[g] = Free
      BY <1>0, <2>1 DEF TypeOK
    <3> QED
      BY <2>2, <3>1, <3>2, OwnKept, Kinds
  <2> QED
    BY <2>3, <2>4
<1>2. ASSUME NEW c \in Conns, Serve(c) PROVE Owns(e)'
  BY <1>0, <1>2, ServeOwns DEF Taken
<1>3. CASE TurnAway
  <2>1. /\ accepted \in Conns /\ worker[accepted] = "accepted"
        /\ worker' = [worker EXCEPT ![accepted] = "refused"]
        /\ fdTable' = [fdTable EXCEPT ![sock[accepted]] = Free]
        /\ sock' = sock /\ file' = file
    BY <1>0, <1>3 DEF TurnAway, Close, TypeOK, Waiting
  <2>2. fdTable[sock[accepted]] = Sock(accepted)
    BY <1>3, <2>1 DEF Taken, Owns
  <2>3. \A g \in Fds : fdTable'[g] = fdTable[g] \/ fdTable[g] = Sock(accepted)
    BY <1>0, <2>1, <2>2 DEF TypeOK
  <2>4. worker'[e] = (IF e = accepted THEN "refused" ELSE worker[e])
    BY <1>0, <2>1 DEF TypeOK
  <2> QED
    BY <2>1, <2>3, <2>4, OwnKept, Kinds DEF InUse, Files
<1>4. CASE StartConnManager
  <2>1. /\ accepted \in Conns /\ worker[accepted] = "accepted"
        /\ worker' = [worker EXCEPT ![accepted] = "serving"]
        /\ UNCHANGED <<sock, file, fdTable>>
    BY <1>0, <1>4 DEF StartConnManager, TypeOK, Waiting
  <2>2. worker'[e] = (IF e = accepted THEN "serving" ELSE worker[e])
    BY <1>0, <2>1 DEF TypeOK
  <2> QED
    BY <2>1, <2>2, OwnKept DEF InUse, Files
<1>5. CASE CleanUp
  <2>1. CASE StartScan \/ EndScan \/ Delete \/ \E c \in Conns : Skip(c) \/ TestSocket(c)
    <3>1. UNCHANGED <<worker, sock, file, fdTable>>
      BY <2>1 DEF StartScan, EndScan, Delete, Skip, TestSocket
    <3> QED
      BY <3>1, OwnKept
  <2>2. CASE CloseLeft
    <3>1. /\ visited \in Conns /\ worker[visited] \notin InUse /\ worker[visited] \notin Files
          /\ UNCHANGED <<worker, sock, file>>
          /\ fdTable' = [fdTable EXCEPT ![sock[visited]] = Free]
      BY <1>0, <2>2 DEF CloseLeft, Close, Place, IsDone, InUse, Files, TypeOK
    <3>2. fdTable[sock[visited]] \in {Free, Sock(visited)}
      BY <2>2 DEF Taken
    <3>3. \A g \in Fds : fdTable'[g] = fdTable[g] \/ fdTable[g] \in {Free, Sock(visited)}
      BY <1>0, <3>1, <3>2 DEF TypeOK
    <3> QED
      BY <3>1, <3>3, OwnKept, Kinds
  <2> QED
    BY <1>5, <2>1, <2>2 DEF CleanUp
<1>6. CASE UNCHANGED vars
  BY <1>6, OwnKept DEF vars
<1> QED
  BY <1>1, <1>2, <1>3, <1>4, <1>5, <1>6 DEF Next

-----------------------------------------------------------------------------
LEMMA InitConn == Init => ConnInv
<1> SUFFICES ASSUME Init PROVE ConnInv OBVIOUS
<1>1. TypeOK BY TypeInit
<1>2. Waiting BY DEF Init, Waiting
<1>3. AtMost BY FS_EmptySet, MaxAssumption, SMT DEF Init, AtMost
<1>4. Exact BY DEF Init, Exact, Started
<1>5. Place BY DEF Init, Place
<1>6. NothingLeaked BY Kinds DEF Init, NothingLeaked
<1> QED BY <1>1, <1>2, <1>3, <1>4, <1>5, <1>6 DEF ConnInv

LEMMA NextConn == ConnInv /\ [Next]_vars => ConnInv'
BY TypeStep, ListStep, PlaceStep, LeakStep DEF ConnInv

LEMMA SpecConn == Spec => []ConnInv
BY InitConn, NextConn, PTL DEF Spec

\* The threads of the server keep the variables they share within their types.
THEOREM ConnTypeCorrect == Spec => []TypeOK
<1>1. ConnInv => TypeOK BY DEF ConnInv
<1> QED BY <1>1, SpecConn, PTL

\* Never more places taken than MAX_CONNECTED_CLIENTS, and every manager that was
\* started has one until it is deleted (xcd.cpp).
THEOREM ConnAdmission == Spec => []Admission
<1>1. ConnInv => Admission BY DEF ConnInv, AtMost, Exact, Place, Admission
<1> QED BY <1>1, SpecConn, PTL

\* A manager is deleted only after its thread has returned, and not looked at again.
THEOREM ConnGoneIsUnused == Spec => []GoneIsUnused
<1>1. ConnInv => GoneIsUnused
  <2> SUFFICES ASSUME ConnInv, NEW c \in deleted
               PROVE  worker[c] = "ended" /\ c \notin scan /\ c # visited
    BY DEF GoneIsUnused
  <2>1. c \in Conns /\ c # NoConn
    BY ConnsAssumption DEF ConnInv, TypeOK
  <2> QED
    BY <2>1 DEF ConnInv, Place
<1> QED BY <1>1, SpecConn, PTL

\* Every open descriptor has someone who is going to close it, although the
\* clean-up may close one that is not its own.
THEOREM ConnNothingLeaked == Spec => []NothingLeaked
<1>1. ConnInv => NothingLeaked BY DEF ConnInv
<1> QED BY <1>1, SpecConn, PTL

\* No close() of mainLoop or of a worker hits a number that is not its own before its
\* own has been taken; only the one in CleanUpConnManagerList does, for a manager that
\* has closed its socket already.
THEOREM CleanUpAlone == Spec => OnlyCleanUpTakes
<1>1. ConnInv /\ [Next]_vars =>
        [\A c \in Conns : Owns(c) =>
           \/ Owns(c)'
           \/ CloseLeft /\ fdTable[sock[visited]] \notin {Free, Sock(visited)}
           \/ \E d \in Conns : ~Owns(d) /\ (Serve(d) \/ (TurnAway /\ accepted = d))]_vars
  BY OwnStep DEF Taken
<1> QED
  BY <1>1, SpecConn, PTL DEF Spec, OnlyCleanUpTakes
=============================================================================
