# xchange in TLA+

xchange forwards a message or a file from a client, `xcc`, to a server, `xcd`,
over one TCP connection. This directory models both programs in TLA+: the
protocol they speak, the bytes and calls it is carried by, what the ciphers and
the bandwidth limit do to it, what the server keeps of it, and the threads and
descriptors the server manages its connections with. TLC checks the models on
small instances, TLAPS proves theorems about them for all instances.

`PROJECT.json` ties every definition to the lines of code it stands for, and
lists the runs, the hazards they are aimed at and the theorems.

    tlc -config TransferFaults.cfg MCTransfer.tla      # and the other .cfg files
    tlapm TransferProofs.tla                           # and the other *Proofs modules

## The system

### Components

| Component | State | Operations | Hard behaviour |
|---|---|---|---|
| Client protocol handler, `xcc_protocol_handler.hpp` | state of `ctrl_loop`, `frameCounter`, the source stream, `error` | get type, set key, send control frame, await ACK, send file or message, await final ACK | waits that run out, a source whose last read is empty, a server that closes early |
| Server protocol handler, `xcd_protocol_handler.hpp` | state of `ctrl_loop`, type, output file | read IV and key, accept, receive file or message, final ACK, close | a stream that ends or is damaged at any frame, dropping what was received |
| Frames, `socketIO_handler.hpp`, `xcc.hpp` | `frame_order_nbr`, control frame, buffers, `enc` and `dec` | send and read control, data and ACK frames, verify | order numbers that roll over, counters that must keep in step |
| Ciphers, `crypto_handler.hpp` and the three cipher handlers | key, IV, session key | encrypt, decrypt, set IV, read key | the IV is incremented on both sides independently |
| Socket I/O, `xchange.hpp` (`sio`) | counters local to a call | read or write exactly n bytes | partial transfers, timeouts, peers that are gone |
| Connection manager, `xcd.hpp` | control frame, `done`, its thread | receive and check the control frame, run the handler | one version of the control frame is checked, the other chooses the cipher; ends on its own while the clean-up looks at it |
| Server main loop and clean-up, `xcd.cpp` | the list of managers, its lock | accept, turn away, start, delete finished managers | two threads and ten workers share a list and the descriptor table |
| Stored files, `recv_file` | the download directory | create, write, remove | a file of the same name, a full disk, a kill |
| Bandwidth limit, `sendFile` | frame budget, start of the bucket | sleep between frames | an unsigned budget that wraps, conversions that narrow |
| Command lines, conversions, help texts | none | parse | none |

### How they interact

The client connects; the server's accepting thread puts a new manager into the
list, or closes the connection if ten are there. From then on client and worker
thread share only the connection:

    client                                    server
      control frame (two versions, flags,    ->  whitelist, versions, flags, id;
        id) [+ IV]                               IV, key
                                             <-  ACK
      file: name (order 0), blocks 1..n, EOT ->  order, checksum or MAC, write
      message: one frame (order 1), EOT      ->  the frame; the EOT stays unread
                                             <-  ACK, 5 s sleep, close

On the server the workers share the descriptor table, the download directory
and the message file; the clean-up thread closes and deletes what is done.

### What makes each component correct

- Transfer: the client reports a success only after the whole payload is
  stored, in order and undamaged; at no time is there anything but a prefix of
  the source in the file; a transfer that fails leaves no file and touches no
  older one; nothing is kept that did not come through the client's own cipher, with
  one key on both sides, or that the whitelist excludes;
  the two ACKs cannot be confused; both programs end; what nothing stands
  against succeeds.
- Connection management: at most ten managers, none forgotten, none deleted while its
  thread runs or used afterwards, no descriptor leaked or closed under its owner, finished places come back.
- Socket I/O: frames arrive whole and in order, or the read fails; a reader
  notices that its peer is gone.
- Ciphers: no IV twice under one session key, no frame without a whole key, both
  ends in step.
- Stored files: what one worker has to itself nobody else touches; what is
  settled stays.
- Bandwidth limit: a bound on what passes, at any pace of the network.

## The modules

| Module | What it is |
|---|---|
| `Transfer` | client, server and connection of one transfer; the properties |
| `MCTransfer` | the transfers TLC explores, by family |
| `Upload` | the contract: what the two ends may see of a transfer |
| `TransferProofs` | type correctness of `Transfer` |
| `DeliveryProofs` | the safety properties of `Transfer`, and that it keeps the contract and comes nearer to its end |
| `ConnManager` | accepting thread, workers and clean-up of the server |
| `MCConnManager` | its small instances |
| `ConnProofs` | its type correctness, admission, deletion and descriptors, and who takes them |
| `FileStore` | the download directory and the workers that share it |
| `MCFileStore` | its symmetry |
| `StoreProofs` | all safety properties of `FileStore` |
| `SocketIO` | one direction of a connection, byte by byte |
| `FrameLink` | the contract of `SocketIO`: a connection of whole frames |
| `SocketProofs` | types, bounds and stream of `SocketIO`, that it implements `FrameLink`, and what is left to do |
| `Cipher` | keys, salts and IVs of client and server over several transfers |
| `Throttle` | the bandwidth limit |
| `SendLoop` | `sendFile`, which puts every frame through both |
| `MCSendLoop` | its small instances |
| `KeyProofs` | no frame without a whole key, no nonce twice, both IVs in step |
| `ThrottleProofs` | the bound of the limit |
| `Recursion` | induction and recursive functions, for the proofs |

`Transfer` takes a connection of whole frames for granted; `SocketIO` is what
provides one, and `FrameLink` the interface between the two. Likewise
`Transfer` has one worker and one file, `FileStore` the directory with several;
`Transfer` counts the increments of an IV, `Cipher` makes them byte by byte.

### Transfer

**Data.** Block *i* of a file is the sequence `<<i>>`, the file name `<<0>>`, an
empty frame `<<>>`; a message is one block. A file has `full` blocks of the
full size and, if `tail`, a shorter last one: this is what decides whether the
last read of `sendFile` finds anything. The constant of the transfer, `cfg`,
holds what users and machines bring along: mode, source, encryption, the
server's whitelist, both key files, an existing file of the name, the directory,
the room on the disk, whether there was a free place, and whether the waits may run
out on a peer that is alive (`slow`). `Init` chooses it freely from `Configs`.

**Client.** `cState` is the state of `ctrl_loop`, with the steps of `sendFile`
and `sendMessage` between `STATE_RCV_INIT_ACK` and `STATE_RCV_FINAL_ACK`:
`Prepare`, `SendCtrl`, `RcvInitAck`, `OpenSource`, `SendName`, `SendBlock`,
`SendText`, `SendEot`, `RcvFinalAck`, and the ways out, `WriteFails` and
`AckTimeout`. `Stop` is the end of the program, which closes the socket.

**Server.** `sState` covers `ConnectionManager::mainLoop` and `ctrl_loop` with
the loops of `recv_file` and `recv_message`: `RcvCtrlFrame`, `ReadIvAndKey`,
`AcceptConnection`, `RcvFilename`, `RcvBlock`, `RcvMessage`, `FinalAck`,
`CloseConn`; `Reap` is the clean-up closing the socket of a rejected
connection. `ReadDataFrame` and `Outcome` are the function of that name: one
frame is read, decrypted (`Opens`), verified (`Verified`), counted, and told to
be data, end or error.

**The control frame.** It names its cipher twice, by a protocol version `pv` and a
security version `sv`, and a third time by a flag. The client looks up `pv` from
`sv` (`proVersionLookupMap`). The server (`ctrlFrameValid`) asks the whitelist for
`sv`, wants `pv` to be any that it knows, one of two flags, and a transmission id
above 0; then it looks up the cipher of the connection from `pv`
(`secVersionLookupMap`, `IoCipher`), and the flag decides whether it reads an IV
(`Encrypted`). Nothing compares the three. Where flag and cipher disagree, the server
asks a decryption that was never made for the size of its IV (`NoDecryption`). Where the cipher
is not that of the client, frames and IV have other sizes than the server expects: it may wait
for the rest of an IV (`ReadIvAndKey`), or go on reading into the next frame (`ReadOn`).

**Connection.** `c2s` is the sequence of frames on their way to the server, at
most `Cap` in the buffers; `acks` counts the ACKs on their way back, which are
all alike. Closing a socket with unread data resets a TCP connection, and a
reset may destroy what the other side has not read: `ClientHangsUp`,
`ServerHangsUp` and `SendAck` leave that open. A write to a closed server is
lost without an error or fails.

**Faults.** README.md:38 promises integrity and order beyond what TCP gives, so
`ChannelFault` damages, loses, repeats or reorders data frames, and may damage
the IV and the control frame, up to `MaxFaults` times. A damaged data frame is taken
to be noticed by fletcher16 or the MAC. The control frame has no checksum:
`DamagedCtrl` replaces either version, by a known or an unknown one, or the id. Its
flags, which choose between message and file, and ACKs, whose bytes are all the same,
are taken to arrive as sent. `ClientCrash` and `ServerKill` may come at any time; the
server's leaves the part of the file that had been flushed.

**Time.** There are two waits of 5 s: the client's for an ACK and the server's
before it closes. `slow` lets them run out at any moment. Without it
the network is prompt: the client's wait runs out only if the server can no longer
answer, and the server's not before the client has read the ACK.

### Upload

Two variables: the payload is with the server or not, and the client has
reported nothing yet, a success or a failure. Delivery happens once and for
good, and a success is reported only after it; a failure says nothing about the
delivery. `Transfer` implements it (`ImplementsUpload`) with `delivered` and
`outcome` computed from its own state, where the disk works.

### ConnManager

`Accept`, `TurnAway` and `StartConnManager` are `mainLoop` of `xcd.cpp`.
`Reject`, `OpenKey`, `CloseKey`, `OpenOutput`, `CloseOutput` and `CloseSocket` are what a
worker does to the descriptor table, `Finish` is its `done = true`, and `Return` the
end of its thread, which comes later; everything else it does is `Transfer`.
`StartScan`, `Skip`, `TestSocket`, `CloseLeft`, `Delete` and `EndScan` are
`CleanUpConnManagerList`, under the lock: a manager that is done is tested with
`fcntl`, its socket is closed if the number is in use, and `delete` joins the thread
before the manager is gone, each in a step of its own. A deleted manager is a null in the
list (`deleted`) until `EndScan` removes it. `fdTable` is the kernel's: `accept`
and `open` take the lowest free number, `close` frees whatever the number
stands for at that moment. One disjunct per system call is what makes the reuse
of a number visible.

### FileStore

`recv_file` as a worker of several goes through it, one system call per step:
`Test` (`std::filesystem::exists`), `Open` (the `ofstream`, which creates or
empties), `Write` into the buffer of the stream, `Flush` when the stream likes
to, `Close`, then `FinalAck` or `Remove`. `Kill` is `sigint_handler` or a crash:
buffers are lost, files stay; `Restart` serves the same directory again.
`dir` maps names to inodes and `data` inodes to blocks, so that a stream goes on
writing to what it opened after the name has gone to somebody else. `rivals` is
a history variable: the workers of the same name that a worker overlapped with
between its test for the name and its last use of it.

Two workers of one name that both test before either opens write into one
file. The later one to open empties it, even if it has been acknowledged to the other's client,
and one that fails removes it. CHANGELOG.md:7 promises uploads in parallel, and
the comment at xcd_protocol_handler.hpp:300 that the final ACK acknowledges a
successful reception: together they say that an acknowledged file is there and is what
was sent (`AckedStays`), and that does not hold (`StoreLost`). README.md:48 says that there are no
concurrent connections at all, which is older than the threads. The other
properties say what does hold of the code: a worker without rivals is safe
(`AloneKeepsItsFile`), a rival that failed is the only thing that makes an acknowledged name
vanish (`GoneByARival`), what is found was made by a worker of that name that has not failed and removed it
(`PartsExplained`, tied to the inode found there), and what is settled stays
(`SettledUntouched`). The last has a price: the part a killed server leaves
blocks its name for good.

### SocketIO and FrameLink

`StartWrite`, `Write`, `WriteInterrupted` and `WriteBroken` are the loop of
`write_to_socket`, `Peek`, `PeekShort`, `Recv`, `RecvNothing` and
`RecvInterrupted` that of `read_from_socket` as `ReadDataFrame` calls it, one
system call per step, with the counters of the code: `resend_count` against
`MAX_RESEND`, `retry_count_err` against `MAX_SEND_RETRY_ON_ERR`, and the one
`retry_counter` of the reader that serves both empty reads and errors. Byte *p*
of frame *f* is `<<f, p>>`. A plain header is looked at with `MSG_PEEK` and read
again with its data; a look that was broken off is repeated from the start and
put behind its own first bytes, and such a header may say anything.
`disturbed` is a history variable: a read was broken off, or a reset destroyed
bytes.

`FrameLink` has five variables: frames sent, frames delivered, whether either
end is still there, and `disturbed`. `SocketIO` implements it, liveness
included: frames arrive whole and in order; a frame that was given up half-way
never arrives; undisturbed, all that were written arrive; the reader notices
that the sender is gone.

Three observations on the code, which the model follows. The size of the send
queue is held unsigned, so the test for an error of `getsockopt` never holds
(`StartWrite` allows both outcomes). The branch that would go on after `recv`
returned -1, and add it to what has been received, is never taken, because the
counter starts above `MAX_READ_RETRY_ON_ERR` (`ReadInBounds`). And a look that is
broken off makes the reader want more bytes than will come, so that it waits for
its peer to leave.

### Cipher, Throttle and SendLoop

`Cipher` is `enc` of the client and `dec` of the server over several transfers:
the constructors (`NewSession`), `readKeyFromFile` on both sides, the IV behind
the control frame, `encrypt`, `decrypt`, and a channel that loses a frame or
damages the IV. `incrementIV` works on bytes, as the three copies in the cipher
handlers do: their loop goes on from byte to byte as long as the byte before
turned to 0, so it increments each byte that only bytes of 255 precede. The session key comes from key file and IV (`deriveKey`). ChaCha20
leaves the session key alone (`Unset`) if the file is too short, the other two derive one
from what they could read: `readKey` keeps this difference, and
`KeyedFramesOnly` says that it never matters: each step that encrypts a frame uses a
whole key, mixed with the IV of this very transfer. `spoiled` is a history variable: the
channel has damaged the IV of this transfer. `OpensInStep` says of each frame on its way
that it opens exactly if it is the next one, both sides read the same key and the IV was not
damaged; so it fails if the IV is sent too late, when it is no longer the salt of the session
key, and not only if a counter drifts. HKDF and the ciphers are ideal, and
random IVs are taken not to repeat. A transfer has fewer frames than the IV has
values (`CipherAssumption`: its frame counter has 2^32 values, an IV of 12 bytes
256^12). `setKey`, which would use 12 of the 24 bytes
of an IV of XChaCha20, is never called and left out.

`Throttle` has the arithmetic of the limit (`bytesPerBucket`, cut from 64 bits to
an int, and `framesPerBucket`, a `uint32_t`), the budget that wraps at 0 and is
set again (`FramePassed`, `Refill`), the clock and the sleep (`WakeUp`).
`SendLoop` EXTENDS both and is `sendFile`: the name goes out before the clock
starts, every data frame goes through cipher and budget, the EOT frame only
through the cipher.

The limit lets one frame more than the budget pass in each bucket, hence up to
twice the bytes asked for if a bucket has one frame; `RateBound` is that bound.
`main` refuses a limit below one frame per second, `sendFile` one below a frame
per bucket, so that limits between the two fail only after the server has
accepted (`OpenFile`); very large limits are cut to an int, and `Sane` excludes
them from the bound.

## The runs

| Run | Properties | Bounds |
|---|---|---|
| `TransferFaults` | `TypeOK`, `AckedDelivery`, `StoredPrefix`, `NoLeftovers`, `OnlyAdmitted`, `AcksApart`, `Lockstep`, `RolloverRefused`, `EveryStepCounts` | up to 10 blocks, a frame counter modulo 10, 3 frames in the buffers, 2 faults, late answers |
| `TransferRefines` | `ImplementsUpload`, `Terminates`, `HonestSucceeds` | up to 3 blocks, 2 frames in the buffers, 1 fault, late and prompt answers |
| `ConnThreads` | `TypeOK`, `Admission`, `GoneIsUnused`, `NothingLeaked`, `OnlyCleanUpTakes`, `AcceptedSettles`, `SlotsComeBack` | 3 connections, 2 places, 5 descriptor numbers |
| `StoreShared` | `TypeOK`, `AloneKeepsItsFile`, `GoneByARival`, `PartsExplained`, `SettledUntouched` | 3 workers, 2 names, one of them taken before, 2 blocks, any number of kills; symmetric workers |
| `SocketFrames` | `TypeOK`, `ReadInBounds`, `NothingSkipped`, `ImplementsFrameLink`, `EveryCallCounts` | 3 frames, headers of 3 bytes, data of up to 2, 5 bytes in the buffers, 3 interrupts, limits of 1 to 3 |
| `SendFrames` | `TypeOK`, `NonceOnce`, `OpensInStep`, `KeyedFramesOnly`, `RateBound` | 2 transfers of up to 6 frames, bytes of 2 values, IVs of 3 and 4 bytes, 1 loss or damage, 4 limits, 2 buckets; symmetric keys |
| `TransferEverySize` | `EverySizeSucceeds` fails | no fault at all |
| `TransferDisk` | `AckMeansStored` fails | no fault at all |
| `TransferSilent` | `ServerGivesUp` fails | one transfer |
| `TransferWhitelist` | `OnlyWhitelisted` fails | plain clients, a whitelist without plain, 1 fault |
| `ConnReuse` | `LiveSocketKept` fails | 2 connections |
| `StoreLost` | `AckedStays` fails | 2 workers |

**Why these bounds are enough.** The interesting sizes of a file are none, a
tail only, full blocks only, and both; the longest here, with name and EOT, has
12 frames, more than the counter has values, so the client's counter rolls over
and goes on while the server has still to read up to the rollover. The
assumption on `CounterMod` keeps what it stands for: fewer frames are in flight
than the counter tells apart, as with 2^32. Two faults reach every pair such as a
lost and a repeated frame. Three connections on two places give a manager that is
finished but not deleted, one that is served, and one that is turned away or
takes over a number. In `StoreShared` three workers on two names give two rivals and
a third that comes later, or one with another name; two blocks give a part that
was written and one that was not. In `SocketFrames` a frame is longer than what
is written at once, two frames do not fit into the buffers together, and three
interrupts are one more than the writer's limit allows; the retry limits keep
the order they have in the code (`RetriesAssumption`). In `SendFrames` one IV
wraps around within a transfer, another meets the first one's range after a few
steps, and the longer one carries through all of its bytes; the limits are none,
one and two frames per bucket, and one that is cut below a frame. `Fds` (3 to 7) has the
`2 * MaxClients + 1` numbers that can be in use, so `Accept` is never short of
one. Symmetry is used for the two runs of `FileStore` and for `SendFrames`, which
have no liveness properties.

**What they show.** A transfer keeps its contract on every working disk whatever
the channel does: no wrong, missing, repeated or damaged block ever reaches the
file, and no success is reported without the payload. A failure may be reported
of a payload that was stored (the ACK came late): the contract allows it and the
code does it. On a connection of bytes, with calls that are cut short anywhere, both loops keep
whole frames whole. These statements of the repository do not hold; each has a run that finds it
violated:

- *A file whose size is a multiple of the block size cannot be sent.* After the
  last full block the stream is still good, the loop of `sendFile` runs once
  more, and the empty frame it sends is an error to `ReadDataFrame`. The same
  goes for an empty file (`TransferEverySize`).
- *The final ACK does not mean that the file is stored.* The output stream is
  never checked (`TransferDisk`).
- *The server never gives up on a silent client.* Only the client sets
  `SO_RCVTIMEO`; the comment in `read_from_socket` says otherwise
  (`TransferSilent`). A client does this when it reads its standard input.
- *The whitelist does not choose the cipher.* A control frame that arrives with a listed
  security version and the protocol version `PV_00_01` gets plain data stored
  (`TransferWhitelist`), against README.md:35 and CHANGELOG.md:23. The client never
  sends such a frame, so in the model it takes damage to one. What does hold is
  `OnlyAdmitted`: a mixed-up cipher never opens what the client encrypted, and unless the
  security version itself was damaged, the cipher is on the list.
- *An acknowledged file can be lost in parallel uploads of one name* (`StoreLost`, see
  FileStore above), against CHANGELOG.md:7 and the comment on the final ACK. The run also shows
  two connections at work at once, which README.md:48 denies.
- *The clean-up can close a live connection.* It closes a descriptor number that
  the worker has already closed and the kernel has given to somebody else
  (`ConnReuse`). It is the only one to start this: whatever the interleaving, no `close` of
  the accepting thread or of a worker hits a number in use by another, unless it acts for a
  connection that has been robbed itself (`OnlyCleanUpTakes`, which speaks of every such loss,
  not only the first).

Every property of a passing run has a definition, marked `slip`, that changes
the model as a mistake in the code would, and under which TLC finds the property
violated.

### Fairness

`FairSpec` of `Transfer`: weak fairness of the client's steps and of the
server's. Both programs are loops that run until they block; a step that stays
possible is taken in the end. Crashes and faults are never forced.
`ServerFairSpec` drops the client's half, since a client that reads its
standard input, or is stopped, need not go on. `FairSpec` of `ConnManager`: the
clean-up thread goes on, a worker that has closed its socket sets `done` and returns, and the
accepting thread gets a lock that is free for ten seconds between two scans
again and again (strong fairness). A worker that serves a client is not
assumed to end, because its client may be silent. `SocketIO`: weak fairness of
the writer's steps and of the reader's, for the same reason as above; that a
sender which has written everything closes in the end (`Finish`) is the client's
5 s wait for the final ACK. Signals, resets and crashes are never forced.

## The proofs

Everything here holds for all values of the constants that the assumptions of
the modules allow: every set of transfers, size, capacity, number of faults and
modulus, every number of connections, workers, names, keys and limits.

| Theorem | States | Rests on |
|---|---|---|
| `TypeCorrect` | `Spec => []TypeOK` | `TypeInv` |
| `AdmissionCorrect` | `Spec => []OnlyAdmitted` | `AdmitInv` |
| `DeliveryCorrect` | `Spec => []AckedDelivery` | `DeliveryInv` |
| `PrefixCorrect` | `Spec => []StoredPrefix` | `DeliveryInv` |
| `LeftoversCorrect` | `Spec => []NoLeftovers` | `DeliveryInv` |
| `AcksCorrect` | `Spec => []AcksApart` | `DeliveryInv` |
| `RolloverCorrect` | `Spec => []RolloverRefused` | `DeliveryInv` |
| `LockstepCorrect` | `Spec => []Lockstep` | `StepsInv` |
| `UploadCorrect` | `Spec /\ DiskWorks => Contract!SafetySpec` | `DeliveryInv` |
| `StepsCount` | `Spec => EveryStepCounts`, an action property | `TurnInv` |
| `ConnTypeCorrect`, `ConnAdmission`, `ConnGoneIsUnused`, `ConnNothingLeaked` | `TypeOK`, `Admission`, `GoneIsUnused`, `NothingLeaked` of `ConnManager` | `ConnInv` |
| `CleanUpAlone` | `Spec => OnlyCleanUpTakes`, an action property | `ConnInv` |
| `StoreTypeCorrect`, `AloneKept`, `OnlyRivalsRemove`, `OnlyKillsLeaveParts` | `TypeOK`, `AloneKeepsItsFile`, `GoneByARival`, `PartsExplained` of `FileStore` | `StoreInv` |
| `SettledKept` | `Spec => SettledUntouched`, an action property | `StoreInv` |
| `NoFrameUnkeyed` | `Spec => KeyedFramesOnly` of `SendLoop`, an action property | `KeyInv` |
| `NonceNeverReused` | `Spec => []NonceOnce` of `SendLoop` | `CountInv` |
| `CountersInStep` | `Spec => []OpensInStep` of `SendLoop` | `CountInv` |
| `SendLoopTypeCorrect` | `Spec => []TypeOK` of `SendLoop` | `CountInv`, `ThrottleInv` |
| `LimitKept` | `Spec => []RateBound` of `SendLoop`, for limits the conversion does not cut | `ThrottleInv` |
| `SocketTypeCorrect`, `BufferKept` | `TypeOK`, `ReadInBounds` of `SocketIO` | `BoundsInv` |
| `FrameLinkCorrect` | `Spec => Link!SafetySpec` of `SocketIO`: the refinement of `FrameLink` without its liveness | `BoundsInv`, `LinkInv` |
| `StreamKept` | `Spec => []NothingSkipped` of `SocketIO` | `BoundsInv`, `LinkInv` |
| `CallsCount` | `Spec => EveryCallCounts` of `SocketIO`, an action property | `BoundsInv` |

The five invariants of `Transfer` are layers of one: each has the one before as a conjunct, and
each is proved inductive on its own (`...Init`, `...Step`).

**`TypeInv`** = `TypeOK /\ Wire`. `TypeOK` is not inductive: what the server reads has the right type only
because of what the client has sent before. The strengthening `Wire` says what
the connection carries in each state of the server: the control frame and
perhaps the IV before the server has read them, nothing while it accepts, and
data frames afterwards; and that the client cannot be past the initial ACK
before it was sent. `ClientStepType`, `ServerStepType` and `ChannelFaultType`
preserve the two together.

**`AdmitInv`** adds `Admitted` and `FileKept`. A server past the control frame
holds what this client sent but for the versions and the id a fault may have damaged
(`Sent`), and has found its security version in the whitelist. Whatever is kept of a
client came after a frame that `Opens`, and a frame opens only under the cipher it was sealed with: so
the cipher looked up from the protocol version is the client's, even if the
frame was damaged, and for an encrypted connection there is one key on both sides
(`Entitled`). `FileKept` ties `file`, `stored` and `printed` to the state of the server.

**`TurnInv`** adds `Turns`, the order of the two ACKs: there is never more than one,
and one that is there when the client is past its initial ACK is the final one,
because the server has got to `Confirm`. It also records what each state of the
client says about `read` and `frameCounter`, and that nothing is in flight
while the client has not started and the server waits for its name.

**`DeliveryInv`** adds three parts.
`Flight`: every intact frame on its way is one the client made for this file,
frame number *p* with order number `Order(p)`, which wraps around. An order
number alone does not tell *p* from *p* + `CounterMod`. What tells them apart is
that the client cannot be far ahead: `read` is at most the server's counter plus
the frames in the buffers plus the faults, hence less than `CounterMod` ahead
(`AheadBound`, the use of `BoundsAssumption`). So the frame the server accepts
is the one that is due, and an EOT is accepted only when it is frame number
`full + 2` (`HeadFrame`).
`Saved`: the file is a prefix of the source, and as long as the server has
counted unless the disk is full.
`Final`: a final ACK, on its way or read, was sent for a whole payload
(`EotComplete`), a success was reported for one, and a complete file needed
fewer than `CounterMod` frames.

`UploadCorrect` is the refinement without fairness: the initial states map to
that of `Upload`, a step of the client changes at most the outcome
(`ClientReports`), a step of the server at most the delivery, and never back
(`ServerDelivers`).

**`StepsInv`** adds `Steps`: on an undisturbed connection the client has sent as many
frames more than the server has taken as there are in the buffers, and its IV is
ahead by the same number. Both start at 0 (`FileKept`, `Turns`), a frame sent adds one to
each (`SentApart`), and a frame the server goes on after was verified, so it moved the
server's counter and its IV together. `Flight` turns the number of frames into the
client's frame counter, which may have rolled over.

**`ConnInv`** adds two parts to the properties. `Waiting`: the connection the main
thread holds is "accepted", so it is not in the list when the list is counted.
`Place`: the clean-up visits managers that are still there, under the lock, is with
one that is done, and has seen to its socket before it deletes it; nulls are in the
list only as long as it holds the lock. It gives `GoneIsUnused`, and
it is why a deleted manager leaves no descriptor behind. `NothingLeaked` survives the clean-up's
wrong `close` because a closed number leaks nothing; what is lost there is `LiveSocketKept`.
`CleanUpAlone` says who loses it: as long as a connection owns its numbers (`Owns`), every
other close goes to a number of the thread that closes it.

**`StoreInv`** is about who can still touch a file: a worker that is active,
between its test for the name and its last use of it. Active workers of one name
are rivals (`RivalsKnown`); an active worker finds under its name its own file,
none, or one of a worker with rivals (`OneOwner`); its stream writes to its own
inode or to one of a worker with rivals (`Stream`). So no step of another
worker changes the file of one without rivals (`LeftAlone`), or one that was there
before (`OldLeftAlone`), and the rest is what the worker itself does (`Alone`).
`Named` is what makes `GoneByARival` inductive: either a rival has failed, or
the name is there and only rivals are at it.

**`KeyInv`** ties the session key of `enc` to the phase of the client
(`KeyOfPhase`): until the key is derived `enc` holds the IV it was made with, which is
the salt of this transfer, and a client that goes on has a key from a whole file and that salt.

**`CountInv`** adds to `KeyInv` that both IVs are counters. An IV stands for a number,
the sum of its bytes at their places (`IsValue`, `value`), and `incrementIV` adds 1 to
it, or turns the largest into 0 (`IncrementCounts`); both follow byte by byte, from what
happens to the lowest *n* bytes (`NextByteCounts`). `Orbit(iv)` is the sequence of IVs a
counter that starts at `iv` goes through; its values are consecutive numbers modulo the
number of IVs, so the first `MaxFrames` of them differ (`OrbitApart`). This is where
the assumption on `MaxFrames` is needed. The invariant says where on which orbit each
IV is: that of `enc`, and the one in every frame on its way, on the orbit of the salt,
as far as their frame numbers (`ClientCounts`, `WireCounts`); that of `dec` on the orbit of the IV
that arrived, damaged or not, as far as frames were opened (`ServerCounts`). In the log of
all frames (`LogCounts`) two of one transfer differ in the IV, two of different transfers
in the salt of the key (`SaltsApart`). `OpensInStep` follows: `dec` holds the salt exactly if the IV was not
spoiled, the IV due is on the orbit of the IV that `dec` started with, and an equal session
key means an equal key file and an equal salt.

**Induction over data.** The provers cannot use the induction theorems of the library,
which are about predicates. `Recursion` states them about sets: a set that holds 0, and
with each number the next one, holds all of them (`SetInduction`), from the fact that
`<` is well-founded; and a function that starts with a value and goes on with a given
step exists and is unique (`RecursionExists`, `FollowsUnique`). This covers the powers and the value of an IV,
its orbit, and the stream of a connection.

**`ThrottleInv`** counts buckets: there is an *r* such that *r* buckets have ended,
each took at least its time, and each let its budget and one frame more pass
(`Begun`). The bound follows by arithmetic (`RateArithmetic`).

**`BoundsInv`** adds to the types that a writer in the middle of a call is below
its limits and has a part of a frame to go (`WriterInv`), and that the reader's
counter counts down only once the sender has gone (`ReaderInv`). That is why the
retry counter of `read_from_socket`, which starts above its own limit, can never
let a call go on with the error value added to what it has received.

**`LinkInv`** says what is on its way. `OrderInv`: there are offsets, one for each
frame written and the current one, such that each byte between the reader and
the writer stands where its frame and its place in the frame put it (`InOrder`).
The offsets are a witness and not computed, so the invariant needs no recursion over the
stream: writing a piece keeps them (`MoreInOrder`), a complete frame adds one
(`FrameInOrder`), taking a frame over drops the front (`RestInOrder`), and the
first bytes are always those of the next frame (`FrontInOrder`). From it follow
the two halves of the refinement: what is long enough to be verified as frame
`delivered + 1` was written completely (`VerifiedLength`, `NextFrame`), and what an
undisturbed reader reads is verified (`WholeIsVerified`), as the header it has looked
at is that of the frame (`HeaderInv`). A look cut short by the end of the stream finds
less than a header, so no complete frame is left (`NothingLeft`), and
after a reset the reader can only fail (`Dying`).
`NothingSkipped` speaks of the concatenation of all frames, `Stream`, which is recursive. It
follows from `OrderInv` by induction, from the frame being written back to the last
one delivered (`StreamContinues`): the first bytes on their way are a whole frame, and what is behind
them continues the stream that is longer by this frame (`EarlierContinues`).

**Measures.** `StepsCount` and `CallsCount` are the part of termination that can be
proved. `WorkLeft` is a number that each step makes smaller: states ahead, blocks to
read, frames on their way and faults to come for a transfer; bytes of frames, calls, empty
reads and interrupts for the two loops of a connection. For `Transfer` a step of the
client puts up to two frames on the connection, which is why its states and blocks count
three times; the types are needed, and of `TurnInv` that nothing of a message was read before it is sent. For `SocketIO` the limits of the retries must hold: `BoundsInv` is what
excludes the branch of `read_from_socket` that raises its counter and lowers what it has
received, which would leave more to do. The products in the measure are linear in
what a step changes (`TimesFewer`). What is left of `Terminates` and of the liveness of
`FrameLink` is that a fair step is possible until the end, and that stays with TLC.

Every invariant and every action property of the runs is the subject of a theorem.
Only model-checked are the properties with liveness, which are out of the
prover's reach: `Terminates`, `HonestSucceeds`, `AcceptedSettles`, `SlotsComeBack`, and of
`ImplementsUpload` and `ImplementsFrameLink` the fairness of the abstract
specification; their safety is `UploadCorrect` and `FrameLinkCorrect`.

## Not modelled

- The algorithms of libcrypto++, HKDF and fletcher16. The checksum counts modulo
  255, so it takes a byte 0x00 for 0xFF, and a plain header is outside of it:
  `Transfer` takes a damaged frame to be noticed, which is an assumption on the
  channel there.
- Flags of the control frame that were damaged on their way, and what a server with the wrong cipher
  makes of the bytes: such a frame is taken not to open.
- The parsing of command lines (the port is narrowed to 16 bits before it is
  tested, xcc.cpp:238), of addresses and whitelists, which keep no state; log and
  help texts.
- The message file: workers append to one stream without a lock, and their lines
  may mix.

## Plan

1. Done: the modules above and their runs; theorems for all their safety properties.
2. Nothing else that keeps state is left, except the message file named above.
3. To prove: more of what the code does behind the statements that fail, as far
   as it is a safety property.
