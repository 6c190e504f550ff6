---------------------------- MODULE ConnManager ----------------------------
(***************************************************************************)
(* The threads of the server xcd and the descriptors they share: mainLoop  *)
(* of xcd.cpp, which accepts connections and lists a ConnectionManager for *)
(* each, the worker thread of every ConnectionManager (xcd.hpp), and       *)
(* CleanUpConnManagerList (xcd.cpp), which every ten seconds clears the    *)
(* list.  What a worker does on its connection is module Transfer; here it *)
(* is the descriptors it opens and closes, by their number.                *)
(***************************************************************************)
EXTENDS Integers, FiniteSets

CONSTANTS
  Conns,       \* bound: the connections clients make
  Fds,         \* bound: descriptor numbers of the process beyond the standard ones
  MaxClients,  \* MAX_CONNECTED_CLIENTS, 10 in the code
  NoFd, NoConn

ASSUME ConnsAssumption == IsFiniteSet(Conns) /\ NoConn \notin Conns
ASSUME FdsAssumption   == Fds \subseteq Nat /\ NoFd \notin Fds
ASSUME MaxAssumption   == MaxClients \in Nat \ {0}

VARIABLES
  accepted,  \* clientSocket of mainLoop: a connection not listed yet
  list,      \* ConnectionManagerList
  deleted,   \* managers that are destroyed; their entries in the list are null
  worker,    \* where the thread of each connection is
  sock,      \* clientSocket of each ConnectionManager, kept to its end
  file,      \* descriptor of the key or output file a worker has open
  fdTable,   \* the kernel's table: what each number refers to
  lock,      \* holder of ListLock
  scan,      \* managers the clean-up thread has yet to visit
  visited,   \* the finished manager it is at
  due        \* what it does with that one next

threadVars == <<accepted, list, deleted, lock, scan, visited, due>>
vars == <<threadVars, worker, sock, file, fdTable>>

Free    == [what |-> "free", conn |-> NoConn]
Sock(c) == [what |-> "sock", conn |-> c]
File(c) == [what |-> "file", conn |-> c]

\* The kernel hands out the lowest free number.
IsLowestFree(fd) ==
  fdTable[fd] = Free /\ \A g \in Fds : fdTable[g] = Free => fd <= g
Open(fd, what) == fdTable' = [fdTable EXCEPT ![fd] = what]
\* close() of a number closes whatever the number refers to by now.
Close(fd)      == fdTable' = [fdTable EXCEPT ![fd] = Free]

-----------------------------------------------------------------------------
(* mainLoop *)

\* STATE_WAIT_FOR_CONNECTION
Accept(c) ==
  /\ accepted = NoConn
  /\ worker[c] = "none"
  /\ \E fd \in Fds :
       /\ IsLowestFree(fd)
       /\ Open(fd, Sock(c))
       /\ sock' = [sock EXCEPT ![c] = fd]
  /\ worker' = [worker EXCEPT ![c] = "accepted"]
  /\ accepted' = c
  /\ UNCHANGED <<list, deleted, file, lock, scan, visited, due>>

\* STATE_START_CONN_MANAGER, under the lock
TurnAway ==
  /\ accepted # NoConn /\ lock = "free"
  /\ Cardinality(list) >= MaxClients
  /\ Close(sock[accepted])
  /\ worker' = [worker EXCEPT ![accepted] = "refused"]
  /\ accepted' = NoConn
  /\ UNCHANGED <<list, deleted, sock, file, lock, scan, visited, due>>

\* slip: one manager too many
StartConnManager_offByOne ==
  /\ accepted # NoConn /\ lock = "free"
  /\ Cardinality(list) <= MaxClients
  /\ list' = list \cup {accepted}
  /\ worker' = [worker EXCEPT ![accepted] = "serving"]
  /\ accepted' = NoConn
  /\ UNCHANGED <<deleted, sock, file, fdTable, lock, scan, visited, due>>

StartConnManager ==
  /\ accepted # NoConn /\ lock = "free"
  /\ Cardinality(list) < MaxClients
  /\ list' = list \cup {accepted}
  /\ worker' = [worker EXCEPT ![accepted] = "serving"]
  /\ accepted' = NoConn
  /\ UNCHANGED <<deleted, sock, file, fdTable, lock, scan, visited, due>>

-----------------------------------------------------------------------------
(* ConnectionManager::mainLoop of one connection *)

\* The control frame is missing or invalid: the loop ends, the socket stays.
Reject(c) ==
  /\ worker[c] = "serving"
  /\ worker' = [worker EXCEPT ![c] = "done"]
  /\ UNCHANGED <<threadVars, sock, file, fdTable>>

OpenFile(c, phase) ==
  /\ \E fd \in Fds :
       /\ IsLowestFree(fd)
       /\ Open(fd, File(c))
       /\ file' = [file EXCEPT ![c] = fd]
  /\ worker' = [worker EXCEPT ![c] = phase]
  /\ UNCHANGED <<threadVars, sock>>
CloseFile(c, phase) ==
  /\ Close(file[c])
  /\ file' = [file EXCEPT ![c] = NoFd]
  /\ worker' = [worker EXCEPT ![c] = phase]
  /\ UNCHANGED <<threadVars, sock>>

\* readBinaryKey, if the transfer is encrypted
OpenKey(c)  == worker[c] = "serving" /\ OpenFile(c, "keying")
CloseKey(c) == worker[c] = "keying" /\ CloseFile(c, "keyed")

\* recv_file opens its output file, and closes it when the loop is over.
OpenOutput(c)  == worker[c] \in {"serving", "keyed"} /\ OpenFile(c, "receiving")
CloseOutput(c) == worker[c] = "receiving" /\ CloseFile(c, "received")

\* STATE_PM_CLOSE_CONN, also after a message or an error before the file
CloseSocket(c) ==
  /\ worker[c] \in {"serving", "keyed", "received"}
  /\ Close(sock[c])
  /\ worker' = [worker EXCEPT ![c] = "closed"]
  /\ UNCHANGED <<threadVars, sock, file>>

\* slip: the socket is closed a second time
Finish_closesAgain(c) ==
  /\ worker[c] = "closed"
  /\ worker' = [worker EXCEPT ![c] = "done"]
  /\ Close(sock[c])
  /\ UNCHANGED <<threadVars, sock, file>>

\* STATE_STOP_CONNECTION_MANAGER and done = true
Finish(c) ==
  /\ worker[c] = "closed"
  /\ worker' = [worker EXCEPT ![c] = "done"]
  /\ UNCHANGED <<threadVars, sock, file, fdTable>>

\* The thread is still there when it has set done, until its function returns.
Return(c) ==
  /\ worker[c] = "done"
  /\ worker' = [worker EXCEPT ![c] = "ended"]
  /\ UNCHANGED <<threadVars, sock, file, fdTable>>

Serve(c) ==
  \/ Reject(c) \/ OpenKey(c) \/ CloseKey(c) \/ OpenOutput(c) \/ CloseOutput(c)
  \/ CloseSocket(c) \/ Finish(c) \/ Return(c)

-----------------------------------------------------------------------------
(* CleanUpConnManagerList *)

IsDone(c) == worker[c] \in {"done", "ended"}

StartScan ==
  /\ lock = "free"
  /\ lock' = "cleanup"
  /\ scan' = list
  /\ UNCHANGED <<accepted, list, deleted, worker, sock, file, fdTable, visited, due>>

Skip(c) ==
  /\ due = "visit" /\ c \in scan /\ ~IsDone(c)
  /\ scan' = scan \ {c}
  /\ UNCHANGED <<accepted, list, deleted, lock, visited, due, worker, sock, file, fdTable>>

\* slip: the socket of a rejected connection is not closed
TestSocket_unclosed(c) ==
  /\ due = "visit" /\ c \in scan /\ IsDone(c)
  /\ visited' = c
  /\ due' = "delete"
  /\ UNCHANGED <<accepted, list, deleted, lock, scan, worker, sock, file, fdTable>>
\* slip: only managers whose socket is still open are deleted
TestSocket_ifOpen(c) ==
  /\ due = "visit" /\ c \in scan /\ IsDone(c)
  /\ IF fdTable[sock[c]] # Free
     THEN visited' = c /\ due' = "close" /\ scan' = scan
     ELSE scan' = scan \ {c} /\ UNCHANGED <<visited, due>>
  /\ UNCHANGED <<accepted, list, deleted, lock, worker, sock, file, fdTable>>
\* fcntl() only tells that the number is in use, not what it refers to.
TestSocket(c) ==
  /\ due = "visit" /\ c \in scan /\ IsDone(c)
  /\ visited' = c
  /\ due' = IF fdTable[sock[c]] # Free THEN "close" ELSE "delete"
  /\ UNCHANGED <<accepted, list, deleted, lock, scan, worker, sock, file, fdTable>>

CloseLeft ==
  /\ due = "close"
  /\ Close(sock[visited])
  /\ due' = "delete"
  /\ UNCHANGED <<accepted, list, deleted, lock, scan, visited, worker, sock, file>>

\* slip: a thread that is detached, not joined
Delete_unjoined ==
  /\ due = "delete"
  /\ deleted' = deleted \cup {visited}
  /\ scan' = scan \ {visited}
  /\ visited' = NoConn /\ due' = "visit"
  /\ UNCHANGED <<accepted, list, lock, worker, sock, file, fdTable>>
\* `delete cm' joins the thread before the manager is gone.
Delete ==
  /\ due = "delete" /\ worker[visited] = "ended"
  /\ deleted' = deleted \cup {visited}
  /\ scan' = scan \ {visited}
  /\ visited' = NoConn /\ due' = "visit"
  /\ UNCHANGED <<accepted, list, lock, worker, sock, file, fdTable>>

\* slip: the lock is kept
EndScan_locked ==
  /\ lock = "cleanup" /\ scan = {}
  /\ list' = list \ deleted
  /\ UNCHANGED <<accepted, deleted, lock, scan, visited, due, worker, sock, file, fdTable>>
\* slip: the null pointers stay in the list
EndScan_unremoved ==
  /\ lock = "cleanup" /\ scan = {}
  /\ list' = (list \ deleted) \cup (IF list \cap deleted = {} THEN {} ELSE {NoConn})
  /\ lock' = "free"
  /\ UNCHANGED <<accepted, deleted, scan, visited, due, worker, sock, file, fdTable>>
EndScan ==
  /\ lock = "cleanup" /\ scan = {}
  /\ list' = list \ deleted
  /\ lock' = "free"
  /\ UNCHANGED <<accepted, deleted, scan, visited, due, worker, sock, file, fdTable>>

CleanUp ==
  \/ StartScan \/ CloseLeft \/ Delete \/ EndScan
  \/ \E c \in Conns : Skip(c) \/ TestSocket(c)

-----------------------------------------------------------------------------
Init ==
  /\ accepted = NoConn
  /\ list = {} /\ deleted = {}
  /\ worker = [c \in Conns |-> "none"]
  /\ sock = [c \in Conns |-> NoFd]
  /\ file = [c \in Conns |-> NoFd]
  /\ fdTable = [fd \in Fds |-> Free]
  /\ lock = "free" /\ scan = {} /\ visited = NoConn /\ due = "visit"

Next ==
  \/ \E c \in Conns : Accept(c) \/ Serve(c)
  \/ TurnAway \/ StartConnManager
  \/ CleanUp

Spec == Init /\ [][Next]_vars

\* Between two scans the lock is free for ten seconds, so the main thread gets
\* it: strong fairness.  A worker may wait for its client for ever, and is only
\* expected to go on once it has received what it waits for.
FairSpec ==
  /\ Spec
  /\ SF_vars(TurnAway \/ StartConnManager)
  /\ WF_vars(CleanUp)
  /\ \A c \in Conns : WF_vars(Finish(c)) /\ WF_vars(Return(c))

-----------------------------------------------------------------------------
(* Properties *)

Started == {"serving", "keying", "keyed", "receiving", "received", "closed", "done", "ended"}
Phases  == {"none", "accepted", "refused"} \cup Started

\* The values the variables take.
TypeOK ==
  /\ accepted \in Conns \cup {NoConn}
  /\ list \subseteq Conns /\ deleted \subseteq Conns /\ scan \subseteq Conns
  /\ worker \in [Conns -> Phases]
  /\ sock \in [Conns -> Fds \cup {NoFd}]
  /\ file \in [Conns -> Fds \cup {NoFd}]
  /\ fdTable \in [Fds -> {Free} \cup {Sock(c) : c \in Conns} \cup {File(c) : c \in Conns}]
  /\ lock \in {"free", "cleanup"}
  /\ visited \in Conns \cup {NoConn}
  /\ due \in {"visit", "close", "delete"}

\* No more than MAX_CONNECTED_CLIENTS places are taken at any time.  A manager has
\* its place from the start of its thread until it is deleted, and none is held by
\* the null a deleted one leaves behind when somebody else looks at the list.
Admission ==
  /\ Cardinality(list) <= MaxClients
  /\ list \cup deleted = {c \in Conns : worker[c] \in Started}
  /\ lock = "free" => list \cap deleted = {}

\* Nobody uses a manager that is gone: its thread, which sets done and returns on
\* it, has ended, and the clean-up does not come to it again.
GoneIsUnused ==
  \A c \in deleted : worker[c] = "ended" /\ c \notin scan /\ c # visited

\* Every descriptor has a keeper that is going to close it: the socket of a
\* connection is open only while it is being accepted or its manager is there and
\* has not closed it, a file only while its worker reads or writes it.  So nothing
\* is leaked, and the process uses at most 2 * MaxClients + 1 numbers.
NothingLeaked ==
  \A fd \in Fds : \A c \in Conns :
    /\ fdTable[fd] = Sock(c) =>
         /\ sock[c] = fd
         /\ c = accepted \/ (c \in list \ deleted /\ worker[c] # "closed")
    /\ fdTable[fd] = File(c) => file[c] = fd /\ worker[c] \in {"keying", "receiving"}

\* The numbers a connection still uses are its own.
Owns(c) ==
  /\ worker[c] \in {"accepted", "serving", "keying", "keyed", "receiving", "received"} =>
       sock[c] \in Fds /\ fdTable[sock[c]] = Sock(c)
  /\ worker[c] \in {"keying", "receiving"} => file[c] \in Fds /\ fdTable[file[c]] = File(c)

\* Only the clean-up ever takes a number away from the connection that uses it, by
\* closing one that its manager has long closed.  No close() of the main thread or
\* of a worker hits a number of another connection, unless it is for a connection
\* that has itself been robbed before.
OnlyCleanUpTakes ==
  [][\A c \in Conns : Owns(c) =>
       \/ Owns(c)'
       \/ CloseLeft /\ fdTable[sock[visited]] \notin {Free, Sock(visited)}
       \/ \E d \in Conns : ~Owns(d) /\ (Serve(d) \/ (TurnAway /\ accepted = d))]_vars

\* A connection that was accepted is turned away or served, and a manager whose
\* thread is done is deleted and gives its place in the list back.
AcceptedSettles == \A c \in Conns : worker[c] = "accepted" ~> worker[c] # "accepted"
SlotsComeBack   == \A c \in Conns : worker[c] = "done" ~> c \in deleted \ list

\* The clean-up thread is there "to continuously clear out finished connection
\* threads" (xcd.cpp:188): the socket of a connection that is being served stays
\* its own.
LiveSocketKept ==
  \A c \in Conns : worker[c] \in Started \ {"closed", "done", "ended"} =>
    fdTable[sock[c]] = Sock(c)
=============================================================================
