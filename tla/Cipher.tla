------------------------------- MODULE Cipher -------------------------------
(***************************************************************************)
(* The ciphers of xchange over several encrypted transfers: the enc of the *)
(* client and the dec of the server, their initialization vectors byte by  *)
(* byte, and the session keys derived from them.  The classes for          *)
(* ChaCha20, XChaCha20 and AES-GCM, chosen by crypto_handler.hpp, differ   *)
(* in sizes and in what a key file that cannot be read does to the key.    *)
(*                                                                         *)
(* HKDF and the ciphers are ideal: a session key is the pair of key and    *)
(* salt it comes from, and a frame opens with the session key and the IV   *)
(* it was encrypted with, and no other.                                    *)
(***************************************************************************)
EXTENDS Integers, Sequences

CONSTANTS
  Base,         \* values of a byte, 256
  IVSize,       \* bytes of an IV, by cipher: 24 for XChaCha20, 12 for the others
  Salts,        \* bound: the IVs the random generator comes up with, by cipher
  KeyFiles,     \* contents of the key files
  MaxSessions,  \* bound: transfers
  MaxFrames,    \* bound: frames of a transfer; the frame counter ends it at 2^32
  MaxLosses     \* bound: frames and IVs the channel spoils

Unreadable == "unreadable"
NoKey      == "none"
Unset      == <<>>   \* the session key of an object that has read no key
Ciphers    == {"chacha20", "xchacha20", "aes"}
IVs(c)     == [1..IVSize[c] -> 0..(Base - 1)]
Zeros(c)   == [i \in 1..IVSize[c] |-> 0]

\* The values n bytes can have
Powers[n \in Nat] == IF n = 0 THEN 1 ELSE Base * Powers[n - 1]

ASSUME CipherAssumption ==
  /\ Base \in Nat \ {0, 1} /\ IVSize \in [Ciphers -> Nat \ {0}]
  /\ Salts \in [Ciphers -> SUBSET UNION {IVs(c) : c \in Ciphers}]
  /\ \A c \in Ciphers : Salts[c] \subseteq IVs(c)
  /\ KeyFiles \cap {Unreadable, NoKey} = {}
  /\ MaxSessions \in Nat \ {0} /\ MaxLosses \in Nat
  \* fewer frames than there are IVs
  /\ MaxFrames \in Nat /\ \A c \in Ciphers : MaxFrames < Powers[IVSize[c]]

VARIABLES
  cipher,     \* SECURITY_VERSION of the transfer
  ckey, skey, \* what the key files of client and server were found to hold
  salts,      \* IVs enc objects have been created with, the last one now
  enc, dec,   \* iv and sessionKey of the two
  cphase,     \* client: "new", "keyed", "sending", "stopped"
  sphase,     \* server: "new", "salted", "ready", "closed"
  wire,       \* the IV, then the frames on their way
  encrypted,  \* frames encrypted in this transfer
  opened,     \* frames opened in it
  losses,
  spoiled,    \* history: the IV of this transfer was damaged on its way
  log         \* history: session key and IV of every frame ever encrypted

cipherVars == <<cipher, ckey, skey, salts, enc, dec, cphase, sphase, wire,
                encrypted, opened, losses, spoiled, log>>

salt == salts[Len(salts)]

-----------------------------------------------------------------------------
(* Shared functions *)

\* slip: the carry is dropped
incrementIV_noCarry(iv) == [iv EXCEPT ![1] = (@ + 1) % Base]

\* numArr[0] is the lowest byte.  A byte that becomes 0 carries into the next one,
\* so a byte is incremented when all before it were at their largest value.
incrementIV(iv) ==
  [i \in DOMAIN iv |->
     IF \A j \in 1..(i - 1) : iv[j] = Base - 1 THEN (iv[i] + 1) % Base ELSE iv[i]]

\* slip: a salt that is not used
deriveKey_unsalted(key, iv) == <<key>>
deriveKey(key, iv) == <<key, iv>>

\* slip: the session key of the first transfer is derived again
Derived_firstSalt(object, file) == [object EXCEPT !.sessionKey = deriveKey(file, salts[1])]

\* readKey of each cipher.  If the file is too short, ChaCha20 leaves the session
\* key alone, and the others derive one from what could be read.
Derived(object, file) == [object EXCEPT !.sessionKey = deriveKey(file, object.iv)]
ReadKey_ChaCha20(object, file) ==
  IF file = Unreadable THEN object ELSE Derived(object, file)
ReadKey_XChaCha20(object, file) == Derived(object, file)
ReadKey_AES_GCM(object, file)   == Derived(object, file)

readKey(object, file) ==
  CASE cipher = "chacha20"  -> ReadKey_ChaCha20(object, file)
    [] cipher = "xchacha20" -> ReadKey_XChaCha20(object, file)
    [] cipher = "aes"       -> ReadKey_AES_GCM(object, file)

-----------------------------------------------------------------------------
(* A transfer *)

\* The constructors: enc with a random IV, dec with zeros (ChaCha20: with what the
\* memory held, which is never used).  Random IVs are taken not to repeat.
Constructed(c, iv) ==
  /\ enc' = [iv |-> iv, sessionKey |-> Unset]
  /\ dec' = [iv |-> Zeros(c), sessionKey |-> Unset]
  /\ salts' = Append(salts, iv)

NewSession ==
  /\ cphase = "stopped" /\ Len(salts) < MaxSessions
  /\ cipher' \in Ciphers
  /\ \E iv \in Salts[cipher'] \ {salts[i] : i \in 1..Len(salts)} : Constructed(cipher', iv)
  /\ ckey' = NoKey /\ skey' = NoKey
  /\ cphase' = "new" /\ sphase' = "new" /\ wire' = <<>>
  /\ encrypted' = 0 /\ opened' = 0 /\ spoiled' = FALSE
  /\ UNCHANGED <<losses, log>>

\* slip: the result of readKey is not looked at
EncReadKeyFromFile_unchecked ==
  /\ cphase = "new"
  /\ ckey' \in KeyFiles \cup {Unreadable}
  /\ enc' = readKey(enc, ckey')
  /\ cphase' = "keyed"
  /\ UNCHANGED <<cipher, skey, salts, dec, sphase, wire, encrypted, opened, losses, spoiled, log>>

\* STATE_SET_CHACHA20_KEY, for every cipher
EncReadKeyFromFile ==
  /\ cphase = "new"
  /\ ckey' \in KeyFiles \cup {Unreadable}
  /\ enc' = readKey(enc, ckey')
  /\ cphase' = IF ckey' = Unreadable THEN "stopped" ELSE "keyed"
  /\ UNCHANGED <<cipher, skey, salts, dec, sphase, wire, encrypted, opened, losses, spoiled, log>>

\* slip: the IV is sent as the first frame will use it
SendCtrlFrameEncrypted_incremented ==
  /\ cphase = "keyed"
  /\ wire' = <<[iv |-> incrementIV(enc.iv)]>>
  /\ cphase' = "sending"
  /\ UNCHANGED <<cipher, ckey, skey, salts, enc, dec, sphase, encrypted, opened, losses, spoiled, log>>

\* The IV follows the control frame, as it is now.
SendCtrlFrameEncrypted ==
  /\ cphase = "keyed"
  /\ wire' = <<[iv |-> enc.iv]>>
  /\ cphase' = "sending"
  /\ UNCHANGED <<cipher, ckey, skey, salts, enc, dec, sphase, encrypted, opened, losses, spoiled, log>>

SetIVFromSocket ==
  /\ sphase = "new" /\ wire # <<>>
  /\ dec' = [dec EXCEPT !.iv = wire[1].iv]
  /\ wire' = Tail(wire)
  /\ sphase' = "salted"
  /\ UNCHANGED <<cipher, ckey, skey, salts, enc, cphase, encrypted, opened, losses, spoiled, log>>

\* STATE_READ_KEY_FILE, and the ACK that lets the client go on
DecReadKeyFromFile ==
  /\ sphase = "salted"
  /\ skey' \in KeyFiles \cup {Unreadable}
  /\ dec' = readKey(dec, skey')
  /\ IF skey' = Unreadable THEN sphase' = "closed" /\ cphase' = "stopped"
     ELSE sphase' = "ready" /\ UNCHANGED cphase
  /\ UNCHANGED <<cipher, ckey, salts, enc, wire, encrypted, opened, losses, spoiled, log>>

\* The IV is incremented, then used; the frame is padded to its full size.
encrypt ==
  /\ cphase = "sending" /\ sphase \notin {"new", "salted"} /\ encrypted < MaxFrames
  /\ enc' = [enc EXCEPT !.iv = incrementIV(@)]
  /\ encrypted' = encrypted + 1
  /\ wire' = Append(wire, [sessionKey |-> enc.sessionKey, iv |-> enc'.iv, nr |-> encrypted'])
  /\ log' = Append(log, <<enc.sessionKey, enc'.iv>>)
  /\ UNCHANGED <<cipher, ckey, skey, salts, dec, cphase, sphase, opened, losses, spoiled>>

\* The IV of dec is incremented for every frame, and a frame that does not open
\* ends the transfer.
decrypt ==
  /\ sphase = "ready" /\ wire # <<>>
  /\ dec' = [dec EXCEPT !.iv = incrementIV(@)]
  /\ IF wire[1].sessionKey = dec.sessionKey /\ wire[1].iv = dec'.iv
     THEN opened' = opened + 1 /\ UNCHANGED sphase
     ELSE sphase' = "closed" /\ UNCHANGED opened
  /\ wire' = Tail(wire)
  /\ UNCHANGED <<cipher, ckey, skey, salts, enc, cphase, encrypted, losses, spoiled, log>>

\* The channel loses a frame, or damages the IV.
SpoilWire ==
  /\ wire # <<>> /\ losses < MaxLosses
  /\ losses' = losses + 1
  /\ IF sphase = "new"
     THEN \E iv \in IVs(cipher) \ {salt} : wire' = <<[iv |-> iv]>> /\ spoiled' = TRUE
     ELSE /\ \E i \in 1..Len(wire) : wire' = SubSeq(wire, 1, i - 1) \o SubSeq(wire, i + 1, Len(wire))
          /\ UNCHANGED spoiled
  /\ UNCHANGED <<cipher, ckey, skey, salts, enc, dec, cphase, sphase, encrypted, opened, log>>

\* The client has sent what it had, has failed, or has been killed.
StopClient ==
  /\ cphase # "stopped"
  /\ cphase' = "stopped"
  /\ UNCHANGED <<cipher, ckey, skey, salts, enc, dec, sphase, wire, encrypted, opened, losses, spoiled, log>>

CipherInit ==
  /\ cipher \in Ciphers
  /\ ckey = NoKey /\ skey = NoKey
  /\ \E iv \in Salts[cipher] : salts = <<iv>> /\ enc = [iv |-> iv, sessionKey |-> Unset]
  /\ dec = [iv |-> Zeros(cipher), sessionKey |-> Unset]
  /\ cphase = "new" /\ sphase = "new" /\ wire = <<>>
  /\ encrypted = 0 /\ opened = 0 /\ losses = 0 /\ spoiled = FALSE /\ log = <<>>

\* Reading keys and IVs, and what the server and the channel do
Handshake == EncReadKeyFromFile \/ SendCtrlFrameEncrypted
ServerSide == SetIVFromSocket \/ DecReadKeyFromFile \/ decrypt

-----------------------------------------------------------------------------
CipherTypeOK ==
  /\ cipher \in Ciphers
  /\ ckey \in KeyFiles \cup {Unreadable, NoKey} /\ skey \in KeyFiles \cup {Unreadable, NoKey}
  /\ salts \in Seq(UNION {Salts[c] : c \in Ciphers}) /\ Len(salts) \in 1..MaxSessions
  /\ enc.iv \in IVs(cipher) /\ dec.iv \in IVs(cipher)
  /\ cphase \in {"new", "keyed", "sending", "stopped"}
  /\ sphase \in {"new", "salted", "ready", "closed"}
  /\ encrypted \in 0..MaxFrames /\ opened \in 0..encrypted
  /\ losses \in 0..MaxLosses /\ spoiled \in BOOLEAN

\* No two frames, of one transfer or of several, are ever encrypted with the same
\* session key and IV, as long as the random IVs differ: what the counter in the
\* IV and the salt of the session key are for.
NonceOnce == \A i, j \in 1..Len(log) : log[i] = log[j] => i = j

\* A frame on its way opens next if and only if it is the next one the client
\* encrypted, the keys are the same and the IV was not damaged: the IV is sent when
\* it still is what the session key was derived with (SendCtrlFrameEncrypted), and
\* from there the IVs of the two sides, incremented byte by byte on their own, work
\* as one counter.
OpensInStep ==
  sphase = "ready" =>
    \A i \in 1..Len(wire) :
      wire[i].sessionKey = dec.sessionKey /\ wire[i].iv = incrementIV(dec.iv)
        <=> ckey = skey /\ ~spoiled /\ wire[i].nr = opened + 1

\* No frame is encrypted with anything but a key that was read as a whole, mixed
\* with the IV of its own transfer, although two of the three ciphers derive a
\* session key even if the file could not be read.
KeyedFramesOnly ==
  [][log' # log => \E k \in KeyFiles : log'[Len(log')][1] = deriveKey(k, salt)]_cipherVars
=============================================================================
