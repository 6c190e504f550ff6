----------------------------- MODULE KeyProofs ------------------------------
(***************************************************************************)
(* No frame leaves the client under a key that was not read as a whole, no *)
(* two frames under the same key and IV, and the IVs of client and server  *)
(* work as one counter: for every size of a byte and an IV, every set of   *)
(* key files, and any number of transfers, frames and losses.              *)
(***************************************************************************)
EXTENDS ThrottleProofs, Recursion, SequenceTheorems

\* The session keys that may encrypt: a key file mixed with the IV of this transfer
ProperKeys == {deriveKey(k, salt) : k \in KeyFiles}

SomeIV   == UNION {IVs(c) : c \in Ciphers}
SomeKey  == {deriveKey(k, iv) : k \in KeyFiles \cup {Unreadable}, iv \in SomeIV} \cup {Unset}
SomeNonce == SomeKey \X SomeIV

KeyTypes ==
  /\ cipher \in Ciphers
  /\ salts \in Seq(SomeIV) /\ salts # <<>>
  /\ enc \in [iv : SomeIV, sessionKey : SomeKey]
  /\ log \in Seq(SomeNonce)

\* What the client knows of its key in each phase: enc keeps the IV it was made
\* with until the key has been derived, and the key from then on.
KeyOfPhase ==
  /\ cphase = "new" => enc.iv = salt
  /\ cphase \in {"keyed", "sending"} => enc.sessionKey \in ProperKeys

\* The inductive invariant
KeyInv == KeyTypes /\ KeyOfPhase

-----------------------------------------------------------------------------
(* IVs, keys and their types *)

LEMMA SaltIsAnIV ==
  ASSUME NEW c \in Ciphers, NEW iv \in Salts[c] PROVE iv \in SomeIV
BY CipherAssumption DEF SomeIV

LEMMA IncrementType ==
  ASSUME NEW iv \in SomeIV PROVE incrementIV(iv) \in SomeIV
<1>1. PICK c \in Ciphers : iv \in [1..IVSize[c] -> 0..(Base - 1)] BY DEF SomeIV, IVs
<1>2. DOMAIN iv = 1..IVSize[c] /\ Base \in Nat \ {0} BY <1>1, CipherAssumption
<1>3. ASSUME NEW i \in DOMAIN iv
      PROVE  (iv[i] + 1) % Base \in 0..(Base - 1) /\ iv[i] \in 0..(Base - 1)
  <2>1. iv[i] \in 0..(Base - 1) BY <1>1, <1>2, <1>3
  <2> QED BY <2>1, <1>2, SMT
<1>4. incrementIV(iv) \in IVs(c) BY <1>2, <1>3 DEF incrementIV, IVs
<1> QED BY <1>4 DEF SomeIV

LEMMA SameSalts ==
  ASSUME UNCHANGED salts PROVE ProperKeys' = ProperKeys /\ salt' = salt
BY DEF ProperKeys, salt, deriveKey

-----------------------------------------------------------------------------
(* Keyed frames *)

\* readKey of any cipher yields a session key, and a proper one from a whole file.
LEMMA ReadKeyProper ==
  ASSUME KeyTypes, NEW file \in KeyFiles \cup {Unreadable}, enc.iv = salt
  PROVE  /\ readKey(enc, file) \in [iv : SomeIV, sessionKey : SomeKey]
         /\ file # Unreadable => readKey(enc, file).sessionKey \in ProperKeys
<1>1. enc \in [iv : SomeIV, sessionKey : SomeKey] BY DEF KeyTypes
<1>2. readKey(enc, file) \in {enc, Derived(enc, file)}
  BY DEF KeyTypes, Ciphers, readKey, ReadKey_ChaCha20, ReadKey_XChaCha20, ReadKey_AES_GCM
<1>3. file # Unreadable => readKey(enc, file) = Derived(enc, file)
  BY DEF KeyTypes, Ciphers, readKey, ReadKey_ChaCha20, ReadKey_XChaCha20, ReadKey_AES_GCM
<1>4. Derived(enc, file) = [iv |-> enc.iv, sessionKey |-> deriveKey(file, enc.iv)]
  BY <1>1 DEF Derived
<1>5. deriveKey(file, enc.iv) \in SomeKey BY <1>1 DEF SomeKey
<1>6. Derived(enc, file) \in [iv : SomeIV, sessionKey : SomeKey] BY <1>1, <1>4, <1>5
<1>7. ASSUME file # Unreadable PROVE Derived(enc, file).sessionKey \in ProperKeys
  <2>1. file \in KeyFiles BY <1>7
  <2>2. deriveKey(file, salt) \in ProperKeys BY <2>1 DEF ProperKeys
  <2> QED BY <2>2, <1>4
<1> QED BY <1>1, <1>2, <1>3, <1>6, <1>7

\* A step that leaves enc and the log alone, and does not go back in the phases
LEMMA EncKept ==
  ASSUME KeyInv, UNCHANGED <<cipher, salts, enc, log>>,
         cphase' = cphase \/ cphase' = "stopped" \/ (cphase = "keyed" /\ cphase' = "sending")
  PROVE  KeyInv'
<1>1. ProperKeys' = ProperKeys /\ salt' = salt BY SameSalts
<1> QED BY <1>1 DEF KeyInv, KeyTypes, KeyOfPhase

LEMMA ReadStep == ASSUME KeyInv, EncReadKeyFromFile PROVE KeyInv'
<1>1. UNCHANGED <<cipher, salts, log>> /\ cphase = "new" BY DEF EncReadKeyFromFile
<1>2. ProperKeys' = ProperKeys /\ salt' = salt BY <1>1, SameSalts
<1>3. ckey' \in KeyFiles \cup {Unreadable} /\ enc' = readKey(enc, ckey')
  BY DEF EncReadKeyFromFile
<1>4. enc.iv = salt /\ KeyTypes BY <1>1 DEF KeyInv, KeyOfPhase
<1>5. /\ enc' \in [iv : SomeIV, sessionKey : SomeKey]
      /\ ckey' # Unreadable => enc'.sessionKey \in ProperKeys
  BY <1>3, <1>4, ReadKeyProper
<1>6. cphase' = (IF ckey' = Unreadable THEN "stopped" ELSE "keyed")
  BY DEF EncReadKeyFromFile
<1> QED BY <1>1, <1>2, <1>5, <1>6 DEF KeyInv, KeyTypes, KeyOfPhase

LEMMA EncryptStep == ASSUME KeyInv, encrypt PROVE KeyInv'
<1>1. UNCHANGED <<cipher, salts, cphase>> /\ cphase = "sending" BY DEF encrypt
<1>2. ProperKeys' = ProperKeys BY <1>1, SameSalts
<1>3. enc \in [iv : SomeIV, sessionKey : SomeKey] BY DEF KeyInv, KeyTypes
<1>4. enc' = [enc EXCEPT !.iv = incrementIV(enc.iv)] BY DEF encrypt
<1>5. incrementIV(enc.iv) \in SomeIV BY <1>3, IncrementType
<1>6. /\ enc' \in [iv : SomeIV, sessionKey : SomeKey]
      /\ enc'.sessionKey = enc.sessionKey /\ enc'.iv = incrementIV(enc.iv)
  <2> DEFINE next == incrementIV(enc.iv)
  <2>1. next \in SomeIV /\ enc' = [enc EXCEPT !.iv = next] BY <1>4, <1>5
  <2> HIDE DEF next
  <2>2. enc' \in [iv : SomeIV, sessionKey : SomeKey] /\ enc'.sessionKey = enc.sessionKey /\ enc'.iv = next
    BY <2>1, <1>3
  <2> QED BY <2>2 DEF next
<1>7. enc.sessionKey \in ProperKeys BY <1>1 DEF KeyInv, KeyOfPhase
<1> DEFINE entry == <<enc.sessionKey, enc'.iv>>
<1>8. entry \in SomeNonce /\ entry[1] = enc.sessionKey BY <1>3, <1>6 DEF SomeNonce
<1>9. log \in Seq(SomeNonce) /\ log' = Append(log, entry) BY DEF KeyInv, KeyTypes, encrypt
<1> HIDE DEF entry
<1>10. /\ log' \in Seq(SomeNonce) /\ Len(log') = Len(log) + 1
       /\ \A i \in 1..Len(log) : log'[i] = log[i]
       /\ log'[Len(log) + 1] = entry
  BY <1>8, <1>9, AppendProperties
<1> QED BY <1>1, <1>2, <1>6, <1>7, <1>10 DEF KeyInv, KeyTypes, KeyOfPhase

LEMMA SessionStep == ASSUME KeyInv, NewSession PROVE KeyInv'
<1>1. cipher' \in Ciphers /\ cphase' = "new" /\ log' = log BY DEF NewSession
<1>2. PICK iv \in Salts[cipher'] : Constructed(cipher', iv) BY DEF NewSession
<1>3. iv \in SomeIV BY <1>1, <1>2, SaltIsAnIV
<1>4. enc' = [iv |-> iv, sessionKey |-> Unset] /\ salts' = Append(salts, iv)
  BY <1>2 DEF Constructed
<1>5. salts' \in Seq(SomeIV) /\ salts' # <<>> /\ salt' = iv
  BY <1>3, <1>4, AppendProperties DEF KeyInv, KeyTypes, salt
<1>6. enc' \in [iv : SomeIV, sessionKey : SomeKey]
  <2>1. Unset \in SomeKey BY DEF SomeKey
  <2> QED BY <2>1, <1>3, <1>4
<1> QED BY <1>1, <1>4, <1>5, <1>6 DEF KeyInv, KeyTypes, KeyOfPhase

LEMMA InitKeys == Init => KeyInv
<1> SUFFICES ASSUME Init PROVE KeyInv OBVIOUS
<1>1. cipher \in Ciphers /\ cphase = "new" /\ log = <<>> BY DEF Init, CipherInit
<1>2. PICK iv \in Salts[cipher] : salts = <<iv>> /\ enc = [iv |-> iv, sessionKey |-> Unset]
  BY DEF Init, CipherInit
<1>3. iv \in SomeIV BY <1>1, <1>2, SaltIsAnIV
<1>4. Unset \in SomeKey BY DEF SomeKey
<1>5. salts \in Seq(SomeIV) /\ salts # <<>> /\ Len(salts) = 1 /\ salts[1] = iv
  BY <1>2, <1>3
<1>6. log \in Seq(SomeNonce) BY <1>1
<1> QED BY <1>1, <1>2, <1>3, <1>4, <1>5, <1>6 DEF KeyInv, KeyTypes, KeyOfPhase, salt

LEMMA NextKeys == KeyInv /\ [Next]_vars => KeyInv'
<1> SUFFICES ASSUME KeyInv, [Next]_vars PROVE KeyInv' OBVIOUS
<1>1. CASE Connect
  <2>1. CASE EncReadKeyFromFile BY <2>1, ReadStep
  <2>2. CASE SendCtrlFrameEncrypted BY <2>2, EncKept DEF SendCtrlFrameEncrypted
  <2> QED BY <1>1, <2>1, <2>2 DEF Connect, Handshake
<1>2. CASE OpenFile
  <2>1. UNCHANGED <<cipher, salts, enc, log>> /\ (cphase' = cphase \/ cphase' = "stopped")
    BY <1>2 DEF OpenFile, StopClient, cipherVars
  <2> QED BY <2>1, EncKept
<1>3. CASE SendName BY <1>3, EncryptStep DEF SendName
<1>4. CASE SendBlock BY <1>4, EncryptStep DEF SendBlock
<1>5. CASE SendEot BY <1>5, EncryptStep DEF SendEot
<1>6. CASE PassTime BY <1>6, EncKept DEF PassTime, cipherVars
<1>7. CASE Stop BY <1>7, EncKept DEF Stop, StopClient
<1>8. CASE Server
  <2>1. UNCHANGED <<cipher, salts, enc, log>> /\ (cphase' = cphase \/ cphase' = "stopped")
    BY <1>8 DEF Server, ServerSide, SetIVFromSocket, DecReadKeyFromFile, decrypt, SpoilWire
  <2> QED BY <2>1, EncKept
<1>9. CASE NextTransfer BY <1>9, SessionStep DEF NextTransfer
<1>10. CASE UNCHANGED vars BY <1>10, EncKept DEF vars, cipherVars
<1> QED BY <1>1, <1>2, <1>3, <1>4, <1>5, <1>6, <1>7, <1>8, <1>9, <1>10 DEF Next, Client

\* A step that encrypts uses a proper key.
LEMMA EncryptKeyed == ASSUME KeyInv, encrypt PROVE log'[Len(log')][1] \in ProperKeys
<1> DEFINE entry == <<enc.sessionKey, enc'.iv>>
<1>1. log' = Append(log, entry) /\ cphase = "sending" BY DEF encrypt
<1>2. enc.sessionKey \in ProperKeys BY <1>1 DEF KeyInv, KeyOfPhase
<1>3. entry[1] = enc.sessionKey OBVIOUS
<1>4. entry \in SomeNonce
  <2>1. enc \in [iv : SomeIV, sessionKey : SomeKey] BY DEF KeyInv, KeyTypes
  <2>2. enc' \in [iv : SomeIV, sessionKey : SomeKey] BY EncryptStep DEF KeyInv, KeyTypes
  <2> QED BY <2>1, <2>2 DEF SomeNonce
<1> HIDE DEF entry
<1>5. log \in Seq(SomeNonce) BY DEF KeyInv, KeyTypes
<1>6. Len(log') = Len(log) + 1 /\ log'[Len(log) + 1] = entry BY <1>1, <1>4, <1>5, AppendProperties
<1> QED BY <1>2, <1>3, <1>6

\* Every frame is encrypted with a key read as a whole and mixed with the IV of its
\* own transfer, although ChaCha20 alone leaves the key unset when a file cannot be
\* read (readKey of the cipher classes, xcc's STATE_SET_CHACHA20_KEY).
THEOREM NoFrameUnkeyed == Spec => KeyedFramesOnly
<1> DEFINE Keyed == log' # log => \E k \in KeyFiles : log'[Len(log')][1] = deriveKey(k, salt)
<1>1. Spec => []KeyInv BY InitKeys, NextKeys, PTL DEF Spec
<1>2. KeyInv /\ [Next]_vars => [Keyed]_cipherVars
  <2> SUFFICES ASSUME KeyInv, [Next]_vars, log' # log PROVE Keyed
    BY DEF cipherVars
  <2>1. encrypt
    BY DEF Next, Client, Connect, Handshake, OpenFile, SendName, SendBlock, PassTime, SendEot,
      Stop, Server, NextTransfer, EncReadKeyFromFile, SendCtrlFrameEncrypted, StopClient,
      ServerSide, SetIVFromSocket, DecReadKeyFromFile, decrypt, SpoilWire, NewSession, vars, cipherVars
  <2> QED BY <2>1, EncryptKeyed DEF ProperKeys
<1> HIDE DEF Keyed
<1>3. Spec => [][Keyed]_cipherVars BY <1>1, <1>2, PTL DEF Spec
<1> QED BY <1>3 DEF KeyedFramesOnly, Keyed

-----------------------------------------------------------------------------
(* The IV as a number *)

LEMMA PowersIs ==
  Powers[0] = 1 /\ \A n \in Nat : Powers[n] \in Nat /\ Powers[n + 1] = Base * Powers[n]
<1> DEFINE Is(g) == g = [n \in Nat |-> IF n = 0 THEN 1 ELSE Base * g[n - 1]]
           go == [p \in Nat \X Nat |-> Base * p[2]]
<1>1. Base \in Nat
  BY CipherAssumption
<1>2. go \in [Nat \X Nat -> Nat] /\ \A n, x \in Nat : go[<<n, x>>] = Base * x
  <2>1. \A x \in Nat : Base * x \in Nat
    BY <1>1, SMT
  <2>2. \A p \in Nat \X Nat : p[2] \in Nat
    OBVIOUS
  <2>3. go \in [Nat \X Nat -> Nat]
    BY <2>1, <2>2
  <2>4. ASSUME NEW n \in Nat, NEW x \in Nat PROVE go[<<n, x>>] = Base * x
    <3>1. <<n, x>> \in Nat \X Nat /\ <<n, x>>[2] = x
      OBVIOUS
    <3> QED
      BY <3>1, Zenon
  <2> QED
    BY <2>3, <2>4, Zenon
<1> HIDE DEF go
<1>3. PICK f : Runs(f, Nat, 1, go)
  BY <1>2, RecursionExists
<1>4. \A n \in Nat : f[n] = IF n = 0 THEN 1 ELSE Base * f[n - 1]
  <2> SUFFICES ASSUME NEW n \in Nat, n # 0 PROVE f[n] = Base * f[n - 1]
    BY <1>3 DEF Runs
  <2>1. n - 1 \in Nat /\ (n - 1) + 1 = n
    OBVIOUS
  <2>2. f[n] = go[<<n, f[n - 1]>>] /\ f[n - 1] \in Nat
    BY <1>3, <2>1 DEF Runs
  <2> QED
    BY <1>2, <2>2
<1>5. Is(f)
  BY <1>3, <1>4 DEF Runs
<1>6. Powers = CHOOSE g : Is(g)
  BY DEF Powers
<1> HIDE DEF Is
<1>7. Is(Powers)
  BY <1>5, <1>6
<1>8. \A n \in Nat : Powers[n] = IF n = 0 THEN 1 ELSE Base * Powers[n - 1]
  BY <1>7 DEF Is
<1>9. Powers[0] = 1 /\ \A n \in Nat : Powers[n + 1] = Base * Powers[n]
  BY <1>8
<1> DEFINE T == {n \in Nat : Powers[n] \in Nat}
<1>10. 0 \in T /\ \A n \in Nat : n \in T => n + 1 \in T
  BY <1>1, <1>9
<1> HIDE DEF T
<1>11. \A n \in Nat : n \in T
  BY <1>10, SetInduction
<1> QED
  BY <1>9, <1>11 DEF T

\* v[i] is the number the first i bytes of iv make up.
IsValue(iv, v) ==
  /\ v \in [Nat -> Nat] /\ v[0] = 0
  /\ \A i \in DOMAIN iv : v[i] = v[i - 1] + iv[i] * Powers[i - 1]

LEMMA ValueExists ==
  ASSUME NEW iv \in SomeIV PROVE \E v : IsValue(iv, v)
<1>1. PICK c \in Ciphers : iv \in [1..IVSize[c] -> 0..(Base - 1)]
  BY DEF SomeIV, IVs
<1>2. DOMAIN iv = 1..IVSize[c] /\ Base \in Nat
  BY <1>1, CipherAssumption
<1> DEFINE term(i) == iv[i] * Powers[i - 1]
           go == [p \in Nat \X Nat |-> IF p[1] \in DOMAIN iv THEN p[2] + term(p[1]) ELSE p[2]]
<1>3. ASSUME NEW i \in DOMAIN iv PROVE term(i) \in Nat /\ i \in Nat /\ i - 1 \in Nat /\ (i - 1) + 1 = i
  <2>1. i \in Nat /\ i - 1 \in Nat /\ (i - 1) + 1 = i
    BY <1>2, CipherAssumption
  <2>2. Powers[i - 1] \in Nat
    BY <2>1, PowersIs
  <2>3. iv[i] \in Nat
    BY <1>1, <1>2, <1>3
  <2> QED
    BY <2>1, <2>2, <2>3
<1> HIDE DEF term
<1>4. go \in [Nat \X Nat -> Nat]
  BY <1>3
<1>5. \A i \in DOMAIN iv, x \in Nat : go[<<i, x>>] = x + term(i)
  BY <1>3
<1> HIDE DEF go
<1>6. PICK f : Runs(f, Nat, 0, go)
  BY <1>4, RecursionExists
<1>7. ASSUME NEW i \in DOMAIN iv PROVE f[i] = f[i - 1] + term(i)
  <2>1. i - 1 \in Nat /\ (i - 1) + 1 = i
    BY <1>3
  <2>2. f[i] = go[<<i, f[i - 1]>>] /\ f[i - 1] \in Nat
    BY <1>6, <2>1 DEF Runs
  <2> QED
    BY <1>5, <1>7, <2>2
<1>8. IsValue(iv, f)
  BY <1>6, <1>7 DEF IsValue, term, Runs
<1> QED
  BY <1>8

value(iv) == CHOOSE v : IsValue(iv, v)

LEMMA ValueIs == ASSUME NEW iv \in SomeIV PROVE IsValue(iv, value(iv))
BY ValueExists DEF value

-----------------------------------------------------------------------------
(* One increment *)

\* Below the end of the IV a carry out of i bytes leaves 0 in them; without one
\* they count up.
LEMMA DigitCarries ==
  ASSUME NEW b \in Nat, NEW p \in Nat, NEW x, x = b - 1, b # 0
  PROVE  (p - 1) + x * p = b * p - 1
<1>1. x * p = b * p - p
  BY SMT
<1> DEFINE bp == b * p
           xp == x * p
<1>2. bp \in Int /\ xp \in Int /\ xp = bp - p
  BY <1>1, SMT
<1> HIDE DEF bp, xp
<1>3. (p - 1) + xp = bp - 1
  BY <1>2
<1> QED
  BY <1>3 DEF bp, xp

LEMMA DigitBound ==
  ASSUME NEW b \in Nat, NEW p \in Nat, NEW x \in 0..(b - 1), NEW v \in Nat, v < p
  PROVE  v + x * p < b * p
<1>1. b - 1 - x \in Nat /\ b = x + 1 + (b - 1 - x)
  OBVIOUS
<1> DEFINE r == b - 1 - x
           xp == x * p
           rp == r * p
           bp == b * p
<1>2. r \in Nat /\ b = x + 1 + r /\ x \in Nat
  BY <1>1
<1> HIDE DEF r
<1>3. bp = xp + p + rp /\ xp \in Nat /\ rp \in Nat
  BY <1>2, SMT
<1> HIDE DEF xp, rp, bp
<1>4. v + xp < bp
  BY <1>3
<1> QED
  BY <1>4 DEF xp, bp

LEMMA DigitNext ==
  ASSUME NEW p \in Nat, NEW x \in Nat, NEW v, v = p - 1
  PROVE  (x + 1) * p = (v + x * p) + 1
<1> DEFINE xp == x * p
           np == (x + 1) * p
<1>1. np = xp + p /\ xp \in Nat
  BY SMT
<1> HIDE DEF xp, np
<1>2. np = (v + xp) + 1
  BY <1>1
<1> QED
  BY <1>2 DEF xp, np

\* The bytes up to i are all at their largest value.
Full(iv, i) == \A j \in 1..i : iv[j] = Base - 1

LEMMA IncrementOf ==
  ASSUME NEW c \in Ciphers, NEW iv \in IVs(c)
  PROVE  /\ incrementIV(iv) \in IVs(c) /\ IVs(c) \subseteq SomeIV
         /\ \A i \in 1..IVSize[c] :
              /\ iv[i] \in 0..(Base - 1)
              /\ ~Full(iv, i - 1) => incrementIV(iv)[i] = iv[i]
              /\ Full(iv, i - 1) /\ iv[i] = Base - 1 => incrementIV(iv)[i] = 0
              /\ Full(iv, i - 1) /\ iv[i] # Base - 1 => incrementIV(iv)[i] = iv[i] + 1
<1>1. iv \in [1..IVSize[c] -> 0..(Base - 1)] /\ DOMAIN iv = 1..IVSize[c]
  BY DEF IVs
<1>2. Base \in Nat \ {0, 1}
  BY CipherAssumption
<1>3. ASSUME NEW i \in 1..IVSize[c]
      PROVE  /\ iv[i] \in 0..(Base - 1) /\ (iv[i] + 1) % Base \in 0..(Base - 1)
             /\ iv[i] = Base - 1 => (iv[i] + 1) % Base = 0
             /\ iv[i] # Base - 1 => (iv[i] + 1) % Base = iv[i] + 1
  <2>1. iv[i] \in 0..(Base - 1)
    BY <1>1
  <2> DEFINE x == iv[i]
  <2>2. x \in 0..(Base - 1)
    BY <2>1
  <2> HIDE DEF x
  <2>3. /\ (x + 1) % Base \in 0..(Base - 1)
        /\ x = Base - 1 => (x + 1) % Base = 0
        /\ x # Base - 1 => (x + 1) % Base = x + 1
    BY <1>2, <2>2, SMT
  <2> QED
    BY <2>2, <2>3 DEF x
<1> DEFINE byte(i) == IF Full(iv, i - 1) THEN (iv[i] + 1) % Base ELSE iv[i]
<1>4. incrementIV(iv) = [i \in 1..IVSize[c] |-> byte(i)]
  BY <1>1 DEF incrementIV, Full
<1>5. \A i \in 1..IVSize[c] : byte(i) \in 0..(Base - 1)
  BY <1>3
<1>6. incrementIV(iv) \in IVs(c)
  <2> HIDE DEF byte
  <2> QED
    BY <1>4, <1>5 DEF IVs
<1>7. \A i \in 1..IVSize[c] : incrementIV(iv)[i] = byte(i)
  <2> HIDE DEF byte
  <2> QED
    BY <1>4
<1>8. IVs(c) \subseteq SomeIV
  BY DEF SomeIV
<1> QED
  BY <1>3, <1>6, <1>7, <1>8

\* The number an IV of cipher c makes up
Number(c, iv) == value(iv)[IVSize[c]]

\* incrementIV counts: it adds 1, and turns the largest number into 0.
Counted(iv, next, i) ==
  /\ value(iv)[i] < Powers[i]
  /\ Full(iv, i)  => value(iv)[i] = Powers[i] - 1 /\ value(next)[i] = 0
  /\ ~Full(iv, i) => value(next)[i] = value(iv)[i] + 1

LEMMA NextByteCounts ==
  ASSUME NEW c \in Ciphers, NEW iv \in IVs(c), NEW i \in Nat, i + 1 <= IVSize[c],
         Counted(iv, incrementIV(iv), i)
  PROVE  Counted(iv, incrementIV(iv), i + 1)
<1> DEFINE next == incrementIV(iv)
           k == i + 1
           v == value(iv)
           w == value(next)
           p == Powers[i]
           x == iv[k]
<1>1. k \in 1..IVSize[c] /\ k - 1 = i /\ k \in Nat /\ IVSize[c] \in Nat
  BY CipherAssumption
<1>2. Base \in Nat \ {0, 1}
  BY CipherAssumption
<1>3. /\ next \in IVs(c) /\ IVs(c) \subseteq SomeIV
      /\ x \in 0..(Base - 1)
      /\ ~Full(iv, i) => next[k] = x
      /\ Full(iv, i) /\ x = Base - 1 => next[k] = 0
      /\ Full(iv, i) /\ x # Base - 1 => next[k] = x + 1
  BY <1>1, IncrementOf
<1>4. DOMAIN iv = 1..IVSize[c] /\ DOMAIN next = 1..IVSize[c]
  BY <1>3 DEF IVs
<1>5. IsValue(iv, v) /\ IsValue(next, w)
  <2>1. iv \in SomeIV /\ next \in SomeIV
    BY <1>3
  <2> QED
    BY <2>1, ValueIs
<1>6. v[k] = v[i] + x * p /\ w[k] = w[i] + next[k] * p /\ v[i] \in Nat
  BY <1>1, <1>4, <1>5 DEF IsValue
<1>7. p \in Nat /\ Powers[k] = Base * p
  BY PowersIs
<1>8. Full(iv, k) <=> Full(iv, i) /\ x = Base - 1
  BY <1>1 DEF Full
<1>9. /\ v[i] < p
      /\ Full(iv, i)  => v[i] = p - 1 /\ w[i] = 0
      /\ ~Full(iv, i) => w[i] = v[i] + 1
  BY DEF Counted
<1> DEFINE vi == v[i]
           wi == w[i]
           y == next[k]
<1>10. vi \in Nat /\ v[k] = vi + x * p /\ w[k] = wi + y * p
  BY <1>6
<1>11. v[k] < Powers[k]
  <2>1. vi < p /\ x \in 0..(Base - 1)
    BY <1>3, <1>9
  <2> HIDE DEF vi, p, x, v, k
  <2>2. vi + x * p < Base * p
    BY <2>1, <1>2, <1>7, <1>10, DigitBound
  <2> QED
    BY <2>2, <1>7, <1>10
<1>12. CASE Full(iv, i) /\ x = Base - 1
  <2>1. vi = p - 1 /\ wi = 0 /\ y = 0
    BY <1>3, <1>9, <1>12
  <2>2. v[k] = Powers[k] - 1
    <3> HIDE DEF vi, p, x, v, w, k, wi, y
    <3>1. (p - 1) + x * p = Base * p - 1
      BY <1>2, <1>7, <1>12, DigitCarries
    <3> QED
      BY <3>1, <2>1, <1>7, <1>10
  <2>3. w[k] = 0
    <3> HIDE DEF vi, p, x, v, w, k, wi, y
    <3>1. y * p = 0
      BY <2>1, <1>7
    <3> QED
      BY <3>1, <2>1, <1>10
  <2> QED
    BY <2>2, <2>3, <1>8, <1>11, <1>12 DEF Counted
<1>13. CASE Full(iv, i) /\ x # Base - 1
  <2>1. vi = p - 1 /\ wi = 0 /\ y = x + 1 /\ x \in Nat
    BY <1>2, <1>3, <1>9, <1>13
  <2>2. w[k] = v[k] + 1
    <3> HIDE DEF vi, p, x, v, w, k, wi, y
    <3>1. (x + 1) * p = (vi + x * p) + 1
      BY <2>1, <1>7, DigitNext
    <3>2. y * p = (x + 1) * p
      BY <2>1
    <3> DEFINE yp == y * p
               xp == x * p
    <3>3. yp = (vi + xp) + 1 /\ w[k] = wi + yp /\ v[k] = vi + xp /\ xp \in Nat
      BY <3>1, <3>2, <2>1, <1>7, <1>10, SMT
    <3> HIDE DEF yp, xp
    <3> QED
      BY <3>3, <2>1, <1>10
  <2> QED
    BY <2>2, <1>8, <1>11, <1>13 DEF Counted
<1>14. CASE ~Full(iv, i)
  <2>1. wi = vi + 1 /\ y = x /\ x \in Nat
    BY <1>2, <1>3, <1>9, <1>14
  <2>2. w[k] = v[k] + 1
    <3> HIDE DEF vi, p, x, v, w, k, wi, y
    <3> DEFINE xp == x * p
    <3>1. w[k] = wi + xp /\ v[k] = vi + xp /\ xp \in Nat
      BY <2>1, <1>7, <1>10, SMT
    <3> HIDE DEF xp
    <3> QED
      BY <3>1, <2>1, <1>10
  <2> QED
    BY <2>2, <1>8, <1>11, <1>14 DEF Counted
<1> QED
  BY <1>12, <1>13, <1>14

LEMMA IncrementCounts ==
  ASSUME NEW c \in Ciphers, NEW iv \in IVs(c)
  PROVE  /\ Number(c, iv) \in 0..(Powers[IVSize[c]] - 1)
         /\ \/ Number(c, incrementIV(iv)) = Number(c, iv) + 1
            \/ /\ Number(c, iv) = Powers[IVSize[c]] - 1
               /\ Number(c, incrementIV(iv)) = 0
<1> DEFINE next == incrementIV(iv)
           T == {i \in Nat : i <= IVSize[c] => Counted(iv, next, i)}
<1>1. IVSize[c] \in Nat
  BY CipherAssumption
<1>2. next \in SomeIV /\ iv \in SomeIV
  BY IncrementOf
<1>3. IsValue(iv, value(iv)) /\ IsValue(next, value(next))
  BY <1>2, ValueIs
<1>4. 0 \in T
  <2>1. Full(iv, 0)
    BY DEF Full
  <2> QED
    BY <2>1, <1>3, PowersIs DEF Counted, IsValue
<1>5. ASSUME NEW i \in Nat, i \in T PROVE i + 1 \in T
  <2> SUFFICES ASSUME i + 1 <= IVSize[c] PROVE Counted(iv, next, i + 1)
    OBVIOUS
  <2>1. i <= IVSize[c]
    BY <1>1
  <2>2. Counted(iv, next, i)
    BY <1>5, <2>1
  <2> QED
    BY <2>2, NextByteCounts
<1> HIDE DEF T
<1>6. \A i \in Nat : i \in T
  BY <1>4, <1>5, SetInduction
<1>7. Counted(iv, next, IVSize[c])
  BY <1>1, <1>6 DEF T
<1>8. value(iv)[IVSize[c]] \in Nat /\ Powers[IVSize[c]] \in Nat
  BY <1>1, <1>3, PowersIs DEF IsValue
<1> QED
  BY <1>7, <1>8 DEF Counted, Number

-----------------------------------------------------------------------------
(* The IVs a salt leads to *)

\* The IVs a counter that starts with iv goes through
Increment == [p \in Nat \X SomeIV |-> incrementIV(p[2])]
Orbit(iv) == CHOOSE f : Runs(f, SomeIV, iv, Increment)

LEMMA OrbitIs ==
  ASSUME NEW iv \in SomeIV
  PROVE  /\ Orbit(iv)[0] = iv
         /\ \A n \in Nat : Orbit(iv)[n] \in SomeIV /\ Orbit(iv)[n + 1] = incrementIV(Orbit(iv)[n])
<1>1. Increment \in [Nat \X SomeIV -> SomeIV]
  BY IncrementType DEF Increment
<1>2. ASSUME NEW n \in Nat, NEW x \in SomeIV PROVE Increment[<<n, x>>] = incrementIV(x)
  <2>1. <<n, x>> \in Nat \X SomeIV /\ <<n, x>>[2] = x
    OBVIOUS
  <2> QED
    BY <2>1, Zenon DEF Increment
<1> DEFINE f == Orbit(iv)
<1>3. Runs(f, SomeIV, iv, Increment)
  <2>1. \E g : Runs(g, SomeIV, iv, Increment)
    BY <1>1, RecursionExists
  <2> QED
    BY <2>1 DEF Orbit
<1> HIDE DEF f
<1>4. f[0] = iv
  BY <1>3 DEF Runs
<1>5. ASSUME NEW n \in Nat PROVE f[n] \in SomeIV /\ f[n + 1] = incrementIV(f[n])
  <2>1. f[n] \in SomeIV /\ f[n + 1] = Increment[<<n + 1, f[n]>>] /\ n + 1 \in Nat
    BY <1>3 DEF Runs
  <2> QED
    BY <2>1, <1>2
<1> QED
  BY <1>4, <1>5 DEF f

LEMMA OrbitIn ==
  ASSUME NEW c \in Ciphers, NEW iv \in IVs(c)
  PROVE  \A n \in Nat : Orbit(iv)[n] \in IVs(c)
<1>1. iv \in SomeIV
  BY IncrementOf
<1>2. /\ Orbit(iv)[0] = iv
      /\ \A n \in Nat : Orbit(iv)[n + 1] = incrementIV(Orbit(iv)[n])
  BY <1>1, OrbitIs
<1> DEFINE T == {n \in Nat : Orbit(iv)[n] \in IVs(c)}
<1>3. 0 \in T
  BY <1>2
<1>4. ASSUME NEW n \in Nat, n \in T PROVE n + 1 \in T
  BY <1>2, <1>4, IncrementOf
<1> HIDE DEF T
<1>5. \A n \in Nat : n \in T
  BY <1>3, <1>4, SetInduction
<1> QED
  BY <1>5 DEF T

\* The IV after n frames is n further on, or has run over the end once.
LEMMA OrbitCounts ==
  ASSUME NEW c \in Ciphers, NEW iv \in IVs(c), NEW m \in 0..Powers[IVSize[c]]
  PROVE  Number(c, Orbit(iv)[m]) \in
           {Number(c, iv) + m, (Number(c, iv) + m) - Powers[IVSize[c]]}
<1> DEFINE P == Powers[IVSize[c]]
           start == Number(c, iv)
           at(n) == Number(c, Orbit(iv)[n])
           T == {n \in Nat : n <= P => at(n) = start + n \/ at(n) = (start + n) - P}
<1>1. iv \in SomeIV /\ P \in Nat
  <2>1. IVSize[c] \in Nat
    BY CipherAssumption
  <2> QED
    BY <2>1, IncrementOf, PowersIs
<1>2. Orbit(iv)[0] = iv /\ \A n \in Nat : Orbit(iv)[n + 1] = incrementIV(Orbit(iv)[n])
  BY <1>1, OrbitIs
<1>3. start \in 0..(P - 1)
  BY IncrementCounts
<1>4. ASSUME NEW n \in Nat
      PROVE  /\ at(n) \in 0..(P - 1)
             /\ at(n + 1) = at(n) + 1 \/ (at(n) = P - 1 /\ at(n + 1) = 0)
  <2>1. Orbit(iv)[n] \in IVs(c)
    BY OrbitIn
  <2> QED
    BY <2>1, <1>2, IncrementCounts
<1>5. at(0) = start
  BY <1>2
<1> HIDE DEF at, start, P
<1>6. 0 \in T
  BY <1>3, <1>5, <1>1
<1>7. ASSUME NEW n \in Nat, n \in T PROVE n + 1 \in T
  <2> DEFINE a == at(n)
             b == at(n + 1)
  <2>1. /\ a \in 0..(P - 1)
        /\ b = a + 1 \/ (a = P - 1 /\ b = 0)
    BY <1>4
  <2>2. n <= P => a = start + n \/ a = (start + n) - P
    BY <1>7
  <2> HIDE DEF a, b
  <2>3. n + 1 <= P => b = start + (n + 1) \/ b = (start + (n + 1)) - P
    BY <1>1, <1>3, <2>1, <2>2
  <2> QED
    BY <2>3 DEF b
<1> HIDE DEF T
<1>8. \A n \in Nat : n \in T
  BY <1>6, <1>7, SetInduction
<1>9. m \in Nat /\ m <= P
  BY <1>1 DEF P
<1> QED
  BY <1>8, <1>9 DEF T, P, at, start

\* The IVs of the frames of one transfer are all different.
LEMMA OrbitApart ==
  ASSUME NEW c \in Ciphers, NEW iv \in IVs(c), NEW m \in 0..MaxFrames, NEW n \in 0..MaxFrames,
         Orbit(iv)[m] = Orbit(iv)[n]
  PROVE  m = n
<1> DEFINE P == Powers[IVSize[c]]
           start == Number(c, iv)
           x == Number(c, Orbit(iv)[m])
           y == Number(c, Orbit(iv)[n])
<1>1. MaxFrames \in Nat /\ MaxFrames < P
  BY CipherAssumption
<1>2. P \in Nat
  <2>1. IVSize[c] \in Nat
    BY CipherAssumption
  <2> QED
    BY <2>1, PowersIs
<1>3. m \in 0..P /\ n \in 0..P
  BY <1>1, <1>2
<1>4. /\ x = start + m \/ x = (start + m) - P
      /\ y = start + n \/ y = (start + n) - P
  BY <1>3, OrbitCounts
<1>5. x = y
  OBVIOUS
<1>6. start \in Nat
  BY IncrementCounts
<1> HIDE DEF x, y, start, P
<1> QED
  BY <1>1, <1>2, <1>4, <1>5, <1>6

-----------------------------------------------------------------------------
(* The counters of both sides *)

Frame == [sessionKey : SomeKey, iv : SomeIV, nr : Nat]

\* enc.iv is as many increments from the salt as frames have been encrypted, none
\* of them before the IV has been sent.
ClientCounts ==
  /\ salt \in IVs(cipher) /\ encrypted \in 0..MaxFrames
  /\ enc.iv = Orbit(salt)[encrypted]
  /\ cphase \in {"new", "keyed"} => wire = <<>> /\ sphase = "new" /\ encrypted = 0 /\ ~spoiled
  /\ cphase \in {"keyed", "sending"} => ckey \in KeyFiles /\ enc.sessionKey = deriveKey(ckey, salt)

\* Until the key has been read nothing but the IV is on its way; from then on dec.iv
\* is as many increments from the IV that arrived as frames have been opened.  That
\* one is the salt unless it has been spoiled.
ServerCounts ==
  /\ opened \in 0..encrypted
  /\ dec \in [iv : IVs(cipher), sessionKey : SomeKey]
  /\ sphase \in {"new", "salted"} => encrypted = 0
  /\ sphase = "new" => wire = <<>> \/ \E iv \in IVs(cipher) :
                                       wire = <<[iv |-> iv]>> /\ (iv = salt <=> ~spoiled)
  /\ sphase = "salted" => wire = <<>> /\ (dec.iv = salt <=> ~spoiled)
  /\ sphase = "ready" => \E d \in IVs(cipher) :
                           /\ dec.sessionKey = deriveKey(skey, d) /\ dec.iv = Orbit(d)[opened]
                           /\ d = salt <=> ~spoiled

\* The frames on their way, numbered by the increments of their IVs
Numbered(frame, least) ==
  /\ frame.nr \in least..encrypted
  /\ frame.sessionKey = deriveKey(ckey, salt) /\ frame.iv = Orbit(salt)[frame.nr]

WireCounts ==
  sphase = "ready" =>
    /\ wire \in Seq(Frame) /\ opened + Len(wire) <= encrypted
    /\ \A i \in 1..Len(wire) : Numbered(wire[i], opened + i)

\* A frame encrypted by the enc with salt number s
IsNonce(entry, s) ==
  \E k \in KeyFiles, n \in 1..MaxFrames :
    /\ entry = <<deriveKey(k, salts[s]), Orbit(salts[s])[n]>>
    /\ s = Len(salts) => n <= encrypted

LogCounts == \A i \in 1..Len(log) : \E s \in 1..Len(salts) : IsNonce(log[i], s)

SaltsApart == \A i, j \in 1..Len(salts) : salts[i] = salts[j] => i = j

\* What else CipherTypeOK says
OtherTypes ==
  /\ ckey \in KeyFiles \cup {Unreadable, NoKey} /\ skey \in KeyFiles \cup {Unreadable, NoKey}
  /\ salts \in Seq(UNION {Salts[c] : c \in Ciphers}) /\ Len(salts) \in 1..MaxSessions
  /\ cphase \in {"new", "keyed", "sending", "stopped"}
  /\ sphase \in {"new", "salted", "ready", "closed"}
  /\ losses \in 0..MaxLosses /\ spoiled \in BOOLEAN

\* The inductive invariant
CountInv ==
  /\ KeyInv /\ OtherTypes /\ SaltsApart /\ ClientCounts /\ ServerCounts /\ WireCounts
  /\ LogCounts /\ NonceOnce

-----------------------------------------------------------------------------
(* The steps of the handshake *)

LEMMA ReadKeyIs ==
  ASSUME cipher \in Ciphers, NEW file, NEW ivs, NEW object \in [iv : ivs, sessionKey : SomeKey]
  PROVE  /\ readKey(object, file).iv = object.iv
         /\ file # Unreadable => readKey(object, file).sessionKey = deriveKey(file, object.iv)
         /\ file \in KeyFiles \cup {Unreadable} /\ ivs \subseteq SomeIV =>
              readKey(object, file) \in [iv : ivs, sessionKey : SomeKey]
<1>1. readKey(object, file) \in {object, Derived(object, file)}
  BY DEF Ciphers, readKey, ReadKey_ChaCha20, ReadKey_XChaCha20, ReadKey_AES_GCM
<1>2. file # Unreadable => readKey(object, file) = Derived(object, file)
  BY DEF Ciphers, readKey, ReadKey_ChaCha20, ReadKey_XChaCha20, ReadKey_AES_GCM
<1>3. Derived(object, file) = [iv |-> object.iv, sessionKey |-> deriveKey(file, object.iv)]
  BY DEF Derived
<1>4. file \in KeyFiles \cup {Unreadable} /\ ivs \subseteq SomeIV =>
        deriveKey(file, object.iv) \in SomeKey
  BY DEF SomeKey
<1> QED
  BY <1>1, <1>2, <1>3, <1>4

\* The parts of the invariant that a step leaves alone
LEMMA LogKept ==
  ASSUME LogCounts, NonceOnce, SaltsApart, UNCHANGED <<salts, log, encrypted>>
  PROVE  LogCounts' /\ NonceOnce' /\ SaltsApart'
BY DEF LogCounts, NonceOnce, SaltsApart, IsNonce, deriveKey

LEMMA SaltFacts ==
  ASSUME CountInv
  PROVE  /\ Len(salts) \in 1..Len(salts) /\ Len(salts) \in Nat
         /\ salt \in SomeIV /\ IVs(cipher) \subseteq SomeIV /\ cipher \in Ciphers
         /\ enc \in [iv : SomeIV, sessionKey : SomeKey]
<1>1. cipher \in Ciphers /\ enc \in [iv : SomeIV, sessionKey : SomeKey]
  BY DEF CountInv, KeyInv, KeyTypes
<1>2. IVs(cipher) \subseteq SomeIV
  BY <1>1 DEF SomeIV
<1>3. Len(salts) \in 1..MaxSessions
  BY DEF CountInv, OtherTypes
<1>4. Len(salts) \in 1..Len(salts) /\ Len(salts) \in Nat
  BY <1>3, CipherAssumption
<1>5. salt \in IVs(cipher)
  BY DEF CountInv, ClientCounts
<1> QED
  BY <1>1, <1>2, <1>4, <1>5

LEMMA ReadCounts == ASSUME CountInv, EncReadKeyFromFile PROVE CountInv'
<1>1. /\ UNCHANGED <<cipher, skey, salts, dec, sphase, wire, encrypted, opened, losses, spoiled, log>>
      /\ cphase = "new" /\ ckey' \in KeyFiles \cup {Unreadable} /\ enc' = readKey(enc, ckey')
      /\ cphase' = (IF ckey' = Unreadable THEN "stopped" ELSE "keyed")
  BY DEF EncReadKeyFromFile
<1>2. KeyInv'
  BY ReadStep DEF CountInv
<1>3. wire = <<>> /\ sphase = "new" /\ encrypted = 0
  BY <1>1 DEF CountInv, ClientCounts
<1>4. salt' = salt
  BY <1>1 DEF salt
<1>5. enc.iv = salt
  BY <1>1 DEF CountInv, KeyInv, KeyOfPhase
<1>6. enc'.iv = enc.iv /\ (ckey' # Unreadable => enc'.sessionKey = deriveKey(ckey', salt))
  BY <1>1, <1>5, SaltFacts, ReadKeyIs
<1>7. ClientCounts'
  BY <1>1, <1>3, <1>4, <1>6 DEF CountInv, ClientCounts, deriveKey
<1>8. ServerCounts' /\ WireCounts'
  BY <1>1, <1>3 DEF CountInv, ServerCounts, WireCounts
<1>9. LogCounts' /\ NonceOnce' /\ SaltsApart'
  BY <1>1, LogKept DEF CountInv
<1>10. OtherTypes'
  BY <1>1 DEF CountInv, OtherTypes
<1> QED
  BY <1>2, <1>7, <1>8, <1>9, <1>10 DEF CountInv

LEMMA SendCtrlCounts == ASSUME CountInv, SendCtrlFrameEncrypted PROVE CountInv'
<1>1. /\ UNCHANGED <<cipher, ckey, skey, salts, enc, dec, sphase, encrypted, opened, losses, spoiled, log>>
      /\ cphase = "keyed" /\ cphase' = "sending" /\ wire' = <<[iv |-> enc.iv]>>
  BY DEF SendCtrlFrameEncrypted
<1>2. KeyInv'
  BY <1>1, EncKept DEF CountInv
<1>3. sphase = "new" /\ encrypted = 0 /\ ~spoiled
  BY <1>1 DEF CountInv, ClientCounts
<1>4. salt' = salt
  BY <1>1 DEF salt
<1>5. enc.iv \in IVs(cipher) /\ enc.iv = salt
  <2>1. salt \in SomeIV /\ salt \in IVs(cipher)
    BY SaltFacts DEF CountInv, ClientCounts
  <2> QED
    BY <1>3, <2>1, OrbitIs DEF CountInv, ClientCounts
<1>6. ClientCounts'
  BY <1>1, <1>3, <1>4 DEF CountInv, ClientCounts, deriveKey
<1>7. ServerCounts' /\ WireCounts'
  BY <1>1, <1>3, <1>4, <1>5 DEF CountInv, ServerCounts, WireCounts
<1>8. LogCounts' /\ NonceOnce' /\ SaltsApart'
  BY <1>1, LogKept DEF CountInv
<1>9. OtherTypes'
  BY <1>1 DEF CountInv, OtherTypes
<1> QED
  BY <1>2, <1>6, <1>7, <1>8, <1>9 DEF CountInv

LEMMA SetIVCounts == ASSUME CountInv, SetIVFromSocket PROVE CountInv'
<1>1. /\ UNCHANGED <<cipher, ckey, skey, salts, enc, cphase, encrypted, opened, losses, spoiled, log>>
      /\ sphase = "new" /\ sphase' = "salted" /\ wire # <<>>
      /\ wire' = Tail(wire) /\ dec' = [dec EXCEPT !.iv = wire[1].iv]
  BY DEF SetIVFromSocket
<1>2. KeyInv'
  BY <1>1, EncKept DEF CountInv
<1>3. PICK iv \in IVs(cipher) : wire = <<[iv |-> iv]>> /\ (iv = salt <=> ~spoiled)
  BY <1>1 DEF CountInv, ServerCounts
<1>4. wire' = <<>> /\ wire[1].iv = iv
  BY <1>1, <1>3
<1>5. dec' \in [iv : IVs(cipher), sessionKey : SomeKey] /\ dec'.iv = iv
  <2>1. dec' = [dec EXCEPT !.iv = iv]
    BY <1>1, <1>4
  <2> QED
    BY <2>1, <1>3 DEF CountInv, ServerCounts
<1>6. salt' = salt
  BY <1>1 DEF salt
<1>7. cphase \notin {"new", "keyed"}
  BY <1>1 DEF CountInv, ClientCounts
<1>8. ClientCounts'
  BY <1>1, <1>6, <1>7 DEF CountInv, ClientCounts, deriveKey
<1>9. ServerCounts' /\ WireCounts'
  BY <1>1, <1>3, <1>4, <1>5, <1>6 DEF CountInv, ServerCounts, WireCounts
<1>10. LogCounts' /\ NonceOnce' /\ SaltsApart'
  BY <1>1, LogKept DEF CountInv
<1>11. OtherTypes'
  BY <1>1 DEF CountInv, OtherTypes
<1> QED
  BY <1>2, <1>8, <1>9, <1>10, <1>11 DEF CountInv

LEMMA DecReadCounts == ASSUME CountInv, DecReadKeyFromFile PROVE CountInv'
<1>1. /\ UNCHANGED <<cipher, ckey, salts, enc, wire, encrypted, opened, losses, spoiled, log>>
      /\ sphase = "salted" /\ skey' \in KeyFiles \cup {Unreadable} /\ dec' = readKey(dec, skey')
      /\ \/ skey' = Unreadable /\ sphase' = "closed" /\ cphase' = "stopped"
         \/ skey' # Unreadable /\ sphase' = "ready" /\ cphase' = cphase
  BY DEF DecReadKeyFromFile
<1>2. KeyInv'
  BY <1>1, EncKept DEF CountInv
<1>3. wire = <<>> /\ encrypted = 0 /\ opened = 0 /\ (dec.iv = salt <=> ~spoiled)
  BY <1>1 DEF CountInv, ServerCounts
<1>4. dec \in [iv : IVs(cipher), sessionKey : SomeKey] /\ dec.iv \in IVs(cipher)
  BY DEF CountInv, ServerCounts
<1>5. /\ dec' \in [iv : IVs(cipher), sessionKey : SomeKey] /\ dec'.iv = dec.iv
      /\ skey' # Unreadable => dec'.sessionKey = deriveKey(skey', dec.iv)
  BY <1>1, <1>4, SaltFacts, ReadKeyIs
<1>6. Orbit(dec.iv)[0] = dec.iv
  BY <1>4, SaltFacts, OrbitIs
<1>7. salt' = salt
  BY <1>1 DEF salt
<1>8. cphase \notin {"new", "keyed"}
  BY <1>1 DEF CountInv, ClientCounts
<1>9. ClientCounts'
  BY <1>1, <1>7, <1>8 DEF CountInv, ClientCounts, deriveKey
<1>10. ServerCounts'
  <2>1. sphase' = "ready" => dec'.sessionKey = deriveKey(skey', dec.iv) /\ dec'.iv = Orbit(dec.iv)[opened']
    BY <1>1, <1>3, <1>5, <1>6
  <2>2. sphase' \notin {"new", "salted"} /\ cipher' = cipher
    BY <1>1
  <2> QED
    BY <1>1, <1>3, <1>4, <1>5, <1>7, <2>1, <2>2 DEF ServerCounts, deriveKey
<1>11. WireCounts'
  BY <1>1, <1>3 DEF WireCounts
<1>12. LogCounts' /\ NonceOnce' /\ SaltsApart'
  BY <1>1, LogKept DEF CountInv
<1>13. OtherTypes'
  BY <1>1 DEF CountInv, OtherTypes
<1> QED
  BY <1>2, <1>9, <1>10, <1>11, <1>12, <1>13 DEF CountInv

LEMMA StopCounts ==
  ASSUME CountInv, cphase' \in {cphase, "stopped"},
         UNCHANGED <<cipher, ckey, skey, salts, enc, dec, sphase, wire, encrypted, opened, losses, spoiled, log>>
  PROVE  CountInv'
<1>1. KeyInv'
  BY EncKept DEF CountInv
<1>2. salt' = salt
  BY DEF salt
<1>3. ClientCounts'
  BY <1>2 DEF CountInv, ClientCounts, deriveKey
<1>4. ServerCounts'
  BY <1>2 DEF CountInv, ServerCounts, deriveKey
<1>5. WireCounts'
  BY <1>2 DEF CountInv, WireCounts, Numbered, deriveKey
<1>6. LogCounts' /\ NonceOnce' /\ SaltsApart'
  BY LogKept DEF CountInv
<1>7. OtherTypes'
  BY DEF CountInv, OtherTypes
<1> QED
  BY <1>1, <1>3, <1>4, <1>5, <1>6, <1>7 DEF CountInv

-----------------------------------------------------------------------------
(* The steps of a frame *)

LEMMA EncryptCounts == ASSUME CountInv, encrypt PROVE CountInv'
<1> DEFINE n == encrypted + 1
           key == enc.sessionKey
           next == incrementIV(enc.iv)
           frame == [sessionKey |-> key, iv |-> next, nr |-> n]
           entry == <<key, next>>
<1>1. /\ UNCHANGED <<cipher, ckey, skey, salts, dec, cphase, sphase, opened, losses, spoiled>>
      /\ cphase = "sending" /\ sphase \notin {"new", "salted"} /\ encrypted < MaxFrames
      /\ enc' = [enc EXCEPT !.iv = next] /\ encrypted' = n
  BY DEF encrypt
<1>2. KeyInv'
  BY EncryptStep DEF CountInv
<1>3. /\ enc \in [iv : SomeIV, sessionKey : SomeKey] /\ salt \in SomeIV /\ Len(salts) \in 1..Len(salts)
      /\ key \in SomeKey
  BY SaltFacts
<1>4. /\ encrypted \in 0..MaxFrames /\ MaxFrames \in Nat /\ enc.iv = Orbit(salt)[encrypted]
      /\ ckey \in KeyFiles /\ key = deriveKey(ckey, salt) /\ salt \in IVs(cipher) /\ cipher \in Ciphers
  BY <1>1, SaltFacts, CipherAssumption DEF CountInv, ClientCounts
<1>5. n \in 1..MaxFrames /\ n \in Nat /\ encrypted \in Nat
  BY <1>1, <1>4
<1>6. next = Orbit(salt)[n] /\ next \in SomeIV
  <2>1. /\ Orbit(salt)[encrypted + 1] = incrementIV(Orbit(salt)[encrypted])
        /\ Orbit(salt)[encrypted + 1] \in SomeIV
    BY <1>3, <1>5, OrbitIs
  <2> QED
    BY <2>1, <1>4
<1>7. enc'.iv = next
  BY <1>1, <1>3
<1>8. wire' = Append(wire, frame) /\ log' = Append(log, entry)
  BY <1>1, <1>7 DEF encrypt
<1>9. salt' = salt
  BY <1>1 DEF salt
<1>10. ClientCounts'
  <2>1. enc'.sessionKey = key
    BY <1>1, <1>3
  <2>2. enc'.iv = Orbit(salt')[encrypted'] /\ encrypted' \in 0..MaxFrames
    BY <1>1, <1>5, <1>6, <1>7, <1>9
  <2>3. salt' \in IVs(cipher') /\ ckey' \in KeyFiles /\ enc'.sessionKey = deriveKey(ckey', salt')
    BY <1>1, <1>4, <1>9, <2>1
  <2>4. cphase' = "sending"
    BY <1>1
  <2> QED
    BY <2>2, <2>3, <2>4 DEF ClientCounts, deriveKey
<1>11. opened \in 0..encrypted
  BY DEF CountInv, ServerCounts
<1>12. ServerCounts'
  <2>1. opened' \in 0..encrypted'
    BY <1>1, <1>5, <1>11
  <2> QED
    BY <1>1, <1>9, <2>1 DEF CountInv, ServerCounts, deriveKey
<1> HIDE DEF frame
<1>13. WireCounts'
  <2> SUFFICES ASSUME sphase' = "ready"
               PROVE  /\ wire' \in Seq(Frame) /\ opened' + Len(wire') <= encrypted'
                      /\ \A i \in 1..Len(wire') : Numbered(wire[i], opened + i)'
    BY DEF WireCounts
  <2>1. /\ wire \in Seq(Frame) /\ opened + Len(wire) <= encrypted
        /\ \A i \in 1..Len(wire) : Numbered(wire[i], opened + i)
    BY <1>1 DEF CountInv, WireCounts
  <2>2. frame \in Frame
    BY <1>3, <1>5, <1>6 DEF frame, Frame
  <2>3. /\ wire' \in Seq(Frame) /\ Len(wire') = Len(wire) + 1
        /\ \A i \in 1..Len(wire) : wire'[i] = wire[i]
        /\ wire'[Len(wire) + 1] = frame
    BY <1>8, <2>1, <2>2, AppendProperties
  <2> DEFINE l == Len(wire)
  <2>4. l \in Nat
    BY <2>1, LenProperties
  <2>5. opened' + Len(wire') <= encrypted'
    <3>1. opened + l <= encrypted /\ Len(wire') = l + 1 /\ opened' = opened /\ encrypted' = encrypted + 1
      BY <1>1, <2>1, <2>3
    <3> HIDE DEF l
    <3> QED
      BY <3>1, <2>4, <1>5, <1>11
  <2>6. ASSUME NEW i \in 1..Len(wire') PROVE Numbered(wire[i], opened + i)'
    <3>1. i \in 1..l \/ i = l + 1
      <4>1. Len(wire') = l + 1
        BY <2>3
      <4> HIDE DEF l
      <4> QED
        BY <4>1, <2>4, <2>6
    <3>2. CASE i \in 1..l
      <4>1. wire'[i] = wire[i] /\ Numbered(wire[i], opened + i)
        BY <2>1, <2>3, <3>2
      <4> DEFINE nr == wire[i].nr
      <4>2. nr \in (opened + i)..encrypted
        BY <4>1 DEF Numbered
      <4>3. nr \in (opened + i)..encrypted'
        <5> HIDE DEF nr
        <5> QED
          BY <4>2, <1>1, <1>5, <1>11, <3>2
      <4> QED
        BY <4>1, <4>3, <1>1, <1>9 DEF Numbered, deriveKey
    <3>3. CASE i = l + 1
      <4>1. wire'[i] = frame
        BY <2>3, <3>3
      <4>2. n \in (opened + i)..n
        <5>1. opened + l <= encrypted
          BY <2>1
        <5> HIDE DEF l
        <5> QED
          BY <5>1, <3>3, <2>4, <1>5, <1>11
      <4>3. frame.nr = n /\ frame.sessionKey = key /\ frame.iv = next
        BY DEF frame
      <4> HIDE DEF n, key, next
      <4> QED
        BY <4>1, <4>2, <4>3, <1>1, <1>4, <1>6, <1>9 DEF Numbered, deriveKey
    <3> QED
      BY <3>1, <3>2, <3>3
  <2> QED
    BY <2>3, <2>5, <2>6
<1>14. /\ log \in Seq(SomeNonce) /\ Len(log) \in Nat /\ Len(log') = Len(log) + 1
       /\ \A i \in 1..Len(log) : log'[i] = log[i]
       /\ log'[Len(log) + 1] = entry
  <2>1. entry \in SomeNonce
    BY <1>3, <1>6 DEF SomeNonce
  <2>2. log \in Seq(SomeNonce)
    BY DEF CountInv, KeyInv, KeyTypes
  <2> HIDE DEF entry
  <2> QED
    BY <1>8, <2>1, <2>2, AppendProperties, LenProperties
<1>15. \A i \in 1..Len(log') : i \in 1..Len(log) \/ i = Len(log) + 1
  BY <1>14
<1>16. LogCounts'
  <2> SUFFICES ASSUME NEW i \in 1..Len(log') PROVE \E s \in 1..Len(salts') : IsNonce(log[i], s)'
    BY DEF LogCounts
  <2>1. CASE i \in 1..Len(log)
    <3>1. PICK s \in 1..Len(salts) : IsNonce(log[i], s)
      BY <2>1 DEF CountInv, LogCounts
    <3>2. PICK k \in KeyFiles, m \in 1..MaxFrames :
            /\ log[i] = <<deriveKey(k, salts[s]), Orbit(salts[s])[m]>>
            /\ s = Len(salts) => m <= encrypted
      BY <3>1 DEF IsNonce
    <3>3. m <= encrypted => m <= encrypted'
      BY <1>1, <1>5
    <3>4. log'[i] = log[i]
      BY <2>1, <1>14
    <3>5. IsNonce(log[i], s)'
      BY <3>2, <3>3, <3>4, <1>1 DEF IsNonce, deriveKey
    <3> QED
      BY <3>1, <3>5, <1>1
  <2>2. CASE i = Len(log) + 1
    <3>1. log'[i] = <<deriveKey(ckey, salts'[Len(salts')]), Orbit(salts'[Len(salts')])[n]>>
      BY <2>2, <1>1, <1>4, <1>6, <1>14 DEF salt, deriveKey
    <3>2. n <= encrypted'
      BY <1>1, <1>5
    <3>3. PICK s \in 1..Len(salts') : s = Len(salts')
      BY <1>1, <1>3
    <3> HIDE DEF n
    <3>4. IsNonce(log[i], s)'
      BY <3>1, <3>2, <3>3, <1>4, <1>5 DEF IsNonce, deriveKey
    <3> QED
      BY <3>4
  <2> QED
    BY <1>15, <2>1, <2>2
<1>17. \A i \in 1..Len(log) : log[i] # entry
  <2> SUFFICES ASSUME NEW i \in 1..Len(log), log[i] = entry PROVE FALSE
    OBVIOUS
  <2>1. PICK s \in 1..Len(salts) : IsNonce(log[i], s)
    BY DEF CountInv, LogCounts
  <2>2. PICK k \in KeyFiles, m \in 1..MaxFrames :
          /\ log[i] = <<deriveKey(k, salts[s]), Orbit(salts[s])[m]>>
          /\ s = Len(salts) => m <= encrypted
    BY <2>1 DEF IsNonce
  <2>3. deriveKey(k, salts[s]) = deriveKey(ckey, salt) /\ Orbit(salts[s])[m] = next
    BY <2>2, <1>4
  <2>4. salts[s] = salt
    BY <2>3 DEF deriveKey
  <2>5. s = Len(salts)
    BY <2>4, <1>3 DEF CountInv, SaltsApart, salt
  <2>6. Orbit(salt)[m] = Orbit(salt)[n] /\ m <= encrypted
    BY <2>2, <2>3, <2>4, <2>5, <1>6
  <2>7. m \in 0..MaxFrames /\ n \in 0..MaxFrames
    BY <1>5, <1>4
  <2>8. m = n
    BY <2>6, <2>7, <1>4, OrbitApart
  <2> QED
    BY <2>6, <2>8, <1>5
<1>18. NonceOnce'
  <2> SUFFICES ASSUME NEW i \in 1..Len(log'), NEW j \in 1..Len(log'), log'[i] = log'[j]
               PROVE  i = j
    BY DEF NonceOnce
  <2> HIDE DEF entry
  <2>1. CASE i \in 1..Len(log) /\ j \in 1..Len(log)
    BY <2>1, <1>14 DEF CountInv, NonceOnce
  <2>2. CASE i = Len(log) + 1 /\ j = Len(log) + 1
    BY <2>2
  <2>3. CASE i \in 1..Len(log) /\ j = Len(log) + 1
    BY <2>3, <1>14, <1>17
  <2>4. CASE i = Len(log) + 1 /\ j \in 1..Len(log)
    BY <2>4, <1>14, <1>17
  <2> QED
    BY <1>15, <2>1, <2>2, <2>3, <2>4
<1>19. SaltsApart' /\ OtherTypes'
  BY <1>1 DEF CountInv, SaltsApart, OtherTypes
<1> QED
  BY <1>2, <1>10, <1>12, <1>13, <1>16, <1>18, <1>19 DEF CountInv

LEMMA DecryptCounts == ASSUME CountInv, decrypt PROVE CountInv'
<1> DEFINE next == incrementIV(dec.iv)
<1>1. /\ UNCHANGED <<cipher, ckey, skey, salts, enc, cphase, encrypted, losses, spoiled, log>>
      /\ sphase = "ready" /\ wire # <<>> /\ wire' = Tail(wire)
      /\ dec' = [dec EXCEPT !.iv = next]
      /\ \/ opened' = opened + 1 /\ sphase' = sphase
         \/ opened' = opened /\ sphase' = "closed"
  BY DEF decrypt
<1>2. KeyInv'
  BY <1>1, EncKept DEF CountInv
<1>3. dec \in [iv : IVs(cipher), sessionKey : SomeKey] /\ cipher \in Ciphers
  BY SaltFacts DEF CountInv, ServerCounts
<1>4. PICK d \in IVs(cipher) :
        /\ dec.sessionKey = deriveKey(skey, d) /\ dec.iv = Orbit(d)[opened]
        /\ d = salt <=> ~spoiled
  BY <1>1 DEF CountInv, ServerCounts
<1>5. next \in IVs(cipher)
  BY <1>3, IncrementOf
<1>6. dec' \in [iv : IVs(cipher), sessionKey : SomeKey] /\ dec'.iv = next /\ dec'.sessionKey = dec.sessionKey
  <2> HIDE DEF next
  <2> QED
    BY <1>1, <1>3, <1>5
<1>7. /\ wire \in Seq(Frame) /\ opened + Len(wire) <= encrypted
      /\ \A i \in 1..Len(wire) : Numbered(wire[i], opened + i)
  BY <1>1 DEF CountInv, WireCounts
<1>8. opened \in 0..encrypted /\ encrypted \in 0..MaxFrames /\ MaxFrames \in Nat
  BY CipherAssumption DEF CountInv, ServerCounts, ClientCounts
<1>9. opened \in Nat /\ encrypted \in Nat
  BY <1>8
<1> DEFINE l == Len(wire)
<1>10. /\ l \in Nat /\ l # 0 /\ wire' \in Seq(Frame) /\ Len(wire') = l - 1
       /\ \A i \in 1..(l - 1) : wire'[i] = wire[i + 1]
  BY <1>1, <1>7
<1>11. opened + l <= encrypted
  BY <1>7
<1>12. next = Orbit(d)[opened + 1]
  <2>1. d \in SomeIV
    BY <1>3, SaltFacts
  <2> QED
    BY <2>1, <1>4, <1>9, OrbitIs
<1>13. salt' = salt
  BY <1>1 DEF salt
<1>14. cphase \notin {"new", "keyed"}
  BY <1>1 DEF CountInv, ClientCounts
<1>15. ClientCounts'
  BY <1>1, <1>13, <1>14 DEF CountInv, ClientCounts, deriveKey
<1>16. opened' \in 0..encrypted'
  <2>1. encrypted' = encrypted /\ opened' \in {opened, opened + 1}
    BY <1>1
  <2> HIDE DEF l
  <2> QED
    BY <2>1, <1>9, <1>10, <1>11
<1>17. ServerCounts'
  <2>1. sphase' \notin {"new", "salted"} /\ cipher' = cipher /\ skey' = skey
    BY <1>1
  <2>2. sphase' = "ready" => dec'.sessionKey = deriveKey(skey, d) /\ dec'.iv = Orbit(d)[opened']
    BY <1>1, <1>4, <1>6, <1>12
  <2>3. d = salt' <=> ~spoiled'
    BY <1>1, <1>4, <1>13
  <2> QED
    BY <2>3, <1>6, <1>16, <2>1, <2>2 DEF ServerCounts, deriveKey
<1>18. WireCounts'
  <2> SUFFICES ASSUME sphase' = "ready"
               PROVE  /\ opened' + Len(wire') <= encrypted'
                      /\ \A i \in 1..Len(wire') : Numbered(wire[i], opened + i)'
    BY <1>10 DEF WireCounts
  <2>1. opened' = opened + 1 /\ encrypted' = encrypted
    BY <1>1
  <2>2. opened' + Len(wire') <= encrypted'
    <3>1. Len(wire') = l - 1
      BY <1>10
    <3> HIDE DEF l
    <3> QED
      BY <3>1, <2>1, <1>9, <1>10, <1>11
  <2>3. ASSUME NEW i \in 1..Len(wire') PROVE Numbered(wire[i], opened + i)'
    <3>1. i \in 1..(l - 1)
      BY <1>10
    <3>2. i + 1 \in 1..l /\ i \in Nat
      <4> HIDE DEF l
      <4> QED
        BY <3>1, <1>10
    <3>3. wire'[i] = wire[i + 1] /\ Numbered(wire[i + 1], opened + (i + 1))
      BY <1>7, <1>10, <3>1, <3>2
    <3>4. opened + (i + 1) = opened' + i
      BY <2>1, <3>2, <1>9
    <3> QED
      BY <3>3, <3>4, <1>1, <1>13 DEF Numbered, deriveKey
  <2> QED
    BY <2>2, <2>3
<1>19. LogCounts' /\ NonceOnce' /\ SaltsApart'
  BY <1>1, LogKept DEF CountInv
<1>20. OtherTypes'
  BY <1>1 DEF CountInv, OtherTypes
<1> QED
  BY <1>2, <1>15, <1>17, <1>18, <1>19, <1>20 DEF CountInv

\* A sequence without its element i
LEMMA RemoveAt ==
  ASSUME NEW S, NEW s \in Seq(S), NEW i \in 1..Len(s), NEW t,
         t = SubSeq(s, 1, i - 1) \o SubSeq(s, i + 1, Len(s))
  PROVE  /\ t \in Seq(S) /\ Len(t) = Len(s) - 1
         /\ \A j \in 1..Len(t) : t[j] = s[j] \/ t[j] = s[j + 1]
<1> DEFINE l == Len(s)
           a == SubSeq(s, 1, i - 1)
           b == SubSeq(s, i + 1, l)
<1>1. l \in Nat /\ i \in 1..l
  OBVIOUS
<1>2. a \in Seq(S) /\ Len(a) = i - 1 /\ \A j \in 1..(i - 1) : a[j] = s[j]
  <2>1. 1 \in 1..(l + 1) /\ i - 1 \in 0..l /\ 1..(i - 1) \subseteq 1..l
    BY <1>1
  <2> QED
    BY <2>1
<1>3. b \in Seq(S) /\ Len(b) = l - i /\ \A j \in 1..(l - i) : b[j] = s[i + j]
  <2>1. l \in 0..l /\ i + 1 \in 1..(l + 1)
    BY <1>1
  <2> QED
    BY <2>1, <1>1
<1>4. t = a \o b
  OBVIOUS
<1> HIDE DEF a, b
<1>5. /\ t \in Seq(S) /\ Len(t) = l - 1
      /\ \A j \in 1..(l - 1) : t[j] = IF j <= i - 1 THEN a[j] ELSE b[j - (i - 1)]
  <2>1. t \in Seq(S) /\ Len(t) = Len(a) + Len(b)
    BY <1>2, <1>3, <1>4, ConcatProperties, Zenon
  <2>2. \A j \in 1..(Len(a) + Len(b)) : t[j] = IF j <= Len(a) THEN a[j] ELSE b[j - Len(a)]
    <3>1. a \in Seq(S) /\ b \in Seq(S)
      BY <1>2, <1>3
    <3>2. /\ Len(a) \in Nat /\ Len(b) \in Nat
          /\ \A j \in 1..(Len(a) + Len(b)) :
               (a \o b)[j] = IF j <= Len(a) THEN a[j] ELSE b[j - Len(a)]
      BY <3>1, ConcatProperties, LenProperties
    <3> DEFINE ab == a \o b
    <3>3. \A j \in 1..(Len(a) + Len(b)) : ab[j] = IF j <= Len(a) THEN a[j] ELSE b[j - Len(a)]
      BY <3>2
    <3>4. t = ab
      BY <1>4
    <3> HIDE DEF ab
    <3> QED
      BY <3>3, <3>4
  <2>3. Len(a) = i - 1 /\ Len(a) + Len(b) = l - 1
    <3> HIDE DEF l
    <3> QED
      BY <1>1, <1>2, <1>3
  <2> QED
    BY <2>1, <2>2, <2>3
<1>6. ASSUME NEW j \in 1..Len(t) PROVE t[j] = s[j] \/ t[j] = s[j + 1]
  <2>1. CASE j <= i - 1
    <3>1. j \in 1..(i - 1)
      BY <2>1, <1>5
    <3> QED
      BY <3>1, <2>1, <1>2, <1>5
  <2>2. CASE ~(j <= i - 1)
    <3> DEFINE k == j - (i - 1)
    <3>1. k \in 1..(l - i) /\ (i - 1) + k = j /\ i + k = j + 1
      <4>1. j \in 1..(l - 1)
        BY <1>5
      <4> HIDE DEF l
      <4> QED
        BY <4>1, <2>2, <1>1
    <3>2. t[j] = b[k]
      BY <2>2, <1>5
    <3>3. b[k] = s[j + 1]
      BY <3>1, <1>3
    <3> QED
      BY <3>2, <3>3
  <2> QED
    BY <2>1, <2>2
<1> QED
  BY <1>5, <1>6

LEMMA SpoilCounts == ASSUME CountInv, SpoilWire PROVE CountInv'
<1>1. /\ UNCHANGED <<cipher, ckey, skey, salts, enc, dec, cphase, sphase, encrypted, opened, log>>
      /\ wire # <<>> /\ losses < MaxLosses /\ losses' = losses + 1
  BY DEF SpoilWire
<1>2. KeyInv'
  BY <1>1, EncKept DEF CountInv
<1>3. cphase \notin {"new", "keyed"}
  BY <1>1 DEF CountInv, ClientCounts
<1>4. salt' = salt
  BY <1>1 DEF salt
<1>5. ClientCounts'
  BY <1>1, <1>3, <1>4 DEF CountInv, ClientCounts, deriveKey
<1>6. ServerCounts'
  <2>1. sphase = "new" => \E iv \in IVs(cipher) :
                            wire' = <<[iv |-> iv]>> /\ (iv = salt' <=> ~spoiled')
    BY <1>4 DEF SpoilWire
  <2>2. sphase # "salted"
    BY <1>1 DEF CountInv, ServerCounts
  <2>3. /\ opened' \in 0..encrypted' /\ dec' \in [iv : IVs(cipher'), sessionKey : SomeKey]
        /\ sphase' \in {"new", "salted"} => encrypted' = 0
        /\ sphase' = "ready" => \E d \in IVs(cipher') :
             /\ dec'.sessionKey = deriveKey(skey', d) /\ dec'.iv = Orbit(d)[opened']
             /\ d = salt' <=> ~spoiled'
    BY <1>1, <1>4 DEF CountInv, ServerCounts, deriveKey, SpoilWire
  <2> QED
    BY <1>1, <2>1, <2>2, <2>3 DEF ServerCounts, deriveKey
<1>7. WireCounts'
  <2> SUFFICES ASSUME sphase' = "ready"
               PROVE  /\ wire' \in Seq(Frame) /\ opened' + Len(wire') <= encrypted'
                      /\ \A i \in 1..Len(wire') : Numbered(wire[i], opened + i)'
    BY DEF WireCounts
  <2>1. /\ wire \in Seq(Frame) /\ opened + Len(wire) <= encrypted
        /\ \A i \in 1..Len(wire) : Numbered(wire[i], opened + i)
    BY <1>1 DEF CountInv, WireCounts
  <2>2. PICK i \in 1..Len(wire) :
          wire' = SubSeq(wire, 1, i - 1) \o SubSeq(wire, i + 1, Len(wire))
    BY <1>1 DEF SpoilWire
  <2>3. /\ wire' \in Seq(Frame) /\ Len(wire') = Len(wire) - 1
        /\ \A j \in 1..Len(wire') : wire'[j] = wire[j] \/ wire'[j] = wire[j + 1]
    BY <2>1, <2>2, RemoveAt, Zenon
  <2>4. opened \in Nat /\ encrypted \in Nat
    BY CipherAssumption DEF CountInv, ClientCounts, ServerCounts
  <2> DEFINE l == Len(wire)
  <2>5. l \in Nat /\ opened + l <= encrypted /\ Len(wire') = l - 1
    BY <2>1, <2>3, LenProperties
  <2> HIDE DEF l
  <2>6. opened' + Len(wire') <= encrypted'
    BY <1>1, <2>4, <2>5
  <2>7. ASSUME NEW j \in 1..Len(wire') PROVE Numbered(wire[j], opened + j)'
    <3>1. j \in 1..l /\ j + 1 \in 1..l /\ j \in Nat
      BY <2>5, <2>7
    <3>2. PICK k \in {j, j + 1} : wire'[j] = wire[k]
      BY <2>3
    <3>3. Numbered(wire[k], opened + k)
      BY <2>1, <3>1, <3>2 DEF l
    <3> DEFINE nr == wire[k].nr
    <3>4. nr \in (opened + k)..encrypted
      BY <3>3 DEF Numbered
    <3>5. nr \in (opened + j)..encrypted
      <4> HIDE DEF nr
      <4> QED
        BY <3>1, <3>2, <3>4, <2>4
    <3> QED
      BY <3>2, <3>3, <3>5, <1>1, <1>4 DEF Numbered, deriveKey
  <2> QED
    BY <2>3, <2>6, <2>7
<1>8. LogCounts' /\ NonceOnce' /\ SaltsApart'
  BY <1>1, LogKept DEF CountInv
<1>9. OtherTypes'
  <2>1. losses' \in 0..MaxLosses
    BY <1>1, CipherAssumption DEF CountInv, OtherTypes
  <2>2. spoiled' \in BOOLEAN
    BY DEF SpoilWire, CountInv, OtherTypes
  <2> QED
    BY <1>1, <2>1, <2>2 DEF CountInv, OtherTypes
<1> QED
  BY <1>2, <1>5, <1>6, <1>7, <1>8, <1>9 DEF CountInv

LEMMA ZerosAnIV == ASSUME NEW c \in Ciphers PROVE Zeros(c) \in IVs(c)
BY CipherAssumption DEF Zeros, IVs

\* A new transfer, whatever came before
LEMMA FreshCounts ==
  ASSUME cipher \in Ciphers, cphase = "new", sphase = "new", wire = <<>>, encrypted = 0,
         opened = 0, ~spoiled, NEW iv \in IVs(cipher), salt = iv, enc = [iv |-> iv, sessionKey |-> Unset],
         dec = [iv |-> Zeros(cipher), sessionKey |-> Unset]
  PROVE  ClientCounts /\ ServerCounts /\ WireCounts
<1>1. iv \in SomeIV
  BY IncrementOf
<1>2. Orbit(iv)[0] = iv
  BY <1>1, OrbitIs
<1>3. 0 \in 0..MaxFrames
  BY CipherAssumption
<1>4. ClientCounts
  BY <1>2, <1>3 DEF ClientCounts
<1>5. dec \in [iv : IVs(cipher), sessionKey : SomeKey]
  <2>1. Unset \in SomeKey
    BY DEF SomeKey
  <2> QED
    BY <2>1, ZerosAnIV
<1>6. ServerCounts
  BY <1>5 DEF ServerCounts
<1> QED
  BY <1>4, <1>6 DEF WireCounts

LEMMA FreshCountsPrimed ==
  ASSUME cipher' \in Ciphers, cphase' = "new", sphase' = "new", wire' = <<>>, encrypted' = 0,
         opened' = 0, ~spoiled', NEW iv \in IVs(cipher'), salt' = iv, enc' = [iv |-> iv, sessionKey |-> Unset],
         dec' = [iv |-> Zeros(cipher'), sessionKey |-> Unset]
  PROVE  ClientCounts' /\ ServerCounts' /\ WireCounts'
<1>1. iv \in SomeIV
  BY IncrementOf
<1>2. Orbit(iv)[0] = iv
  BY <1>1, OrbitIs
<1>3. 0 \in 0..MaxFrames
  BY CipherAssumption
<1>4. ClientCounts'
  BY <1>2, <1>3 DEF ClientCounts
<1>5. dec' \in [iv : IVs(cipher'), sessionKey : SomeKey]
  <2>1. Unset \in SomeKey
    BY DEF SomeKey
  <2> QED
    BY <2>1, ZerosAnIV
<1>6. ServerCounts'
  BY <1>5 DEF ServerCounts
<1> QED
  BY <1>4, <1>6 DEF WireCounts

LEMMA SessionCounts == ASSUME CountInv, NewSession PROVE CountInv'
<1>1. /\ cipher' \in Ciphers /\ Len(salts) < MaxSessions /\ log' = log /\ losses' = losses
      /\ cphase' = "new" /\ sphase' = "new" /\ wire' = <<>> /\ encrypted' = 0 /\ opened' = 0
      /\ ckey' = NoKey /\ skey' = NoKey /\ spoiled' = FALSE
  BY DEF NewSession
<1>2. PICK iv \in Salts[cipher'] \ {salts[i] : i \in 1..Len(salts)} : Constructed(cipher', iv)
  BY DEF NewSession
<1>3. /\ enc' = [iv |-> iv, sessionKey |-> Unset] /\ salts' = Append(salts, iv)
      /\ dec' = [iv |-> Zeros(cipher'), sessionKey |-> Unset]
  BY <1>2 DEF Constructed
<1>4. iv \in IVs(cipher') /\ iv \in UNION {Salts[c] : c \in Ciphers}
  BY <1>1, <1>2, CipherAssumption
<1>5. KeyInv'
  BY SessionStep DEF CountInv
<1> DEFINE l == Len(salts)
<1>6. /\ salts \in Seq(UNION {Salts[c] : c \in Ciphers}) /\ l \in 1..MaxSessions
  BY DEF CountInv, OtherTypes
<1>7. /\ salts' \in Seq(UNION {Salts[c] : c \in Ciphers}) /\ Len(salts') = l + 1
      /\ \A i \in 1..l : salts'[i] = salts[i]
      /\ salts'[l + 1] = iv /\ l \in Nat
  BY <1>3, <1>4, <1>6, AppendProperties, LenProperties
<1>8. salt' = iv
  BY <1>7 DEF salt
<1>9. ClientCounts' /\ ServerCounts' /\ WireCounts'
  BY <1>1, <1>3, <1>4, <1>8, FreshCountsPrimed
<1>10. OtherTypes'
  <2>1. l + 1 \in 1..MaxSessions
    <3>1. l < MaxSessions /\ MaxSessions \in Nat
      BY <1>1, CipherAssumption
    <3> HIDE DEF l
    <3> QED
      BY <3>1, <1>6
  <2> QED
    BY <1>1, <1>7, <2>1 DEF CountInv, OtherTypes
<1>11. \A i \in 1..Len(salts') : i \in 1..l \/ i = l + 1
  <2>1. l \in Nat /\ Len(salts') = l + 1
    BY <1>7
  <2> HIDE DEF l
  <2> QED
    BY <2>1
<1>12. \A i \in 1..l : salts[i] # iv
  BY <1>2
<1>13. SaltsApart'
  <2> SUFFICES ASSUME NEW i \in 1..Len(salts'), NEW j \in 1..Len(salts'), salts'[i] = salts'[j]
               PROVE  i = j
    BY DEF SaltsApart
  <2>1. CASE i \in 1..l /\ j \in 1..l
    BY <2>1, <1>7 DEF CountInv, SaltsApart
  <2>2. CASE i = l + 1 /\ j = l + 1
    BY <2>2
  <2>3. CASE i \in 1..l /\ j = l + 1
    BY <2>3, <1>7, <1>12
  <2>4. CASE i = l + 1 /\ j \in 1..l
    BY <2>4, <1>7, <1>12
  <2> QED
    BY <1>11, <2>1, <2>2, <2>3, <2>4
<1>14. LogCounts'
  <2> SUFFICES ASSUME NEW i \in 1..Len(log) PROVE \E s \in 1..Len(salts') : IsNonce(log[i], s)'
    BY <1>1 DEF LogCounts
  <2>1. PICK s \in 1..l : IsNonce(log[i], s)
    BY DEF CountInv, LogCounts
  <2>2. s # Len(salts') /\ s \in 1..Len(salts')
    <3>1. Len(salts') = l + 1 /\ l \in Nat
      BY <1>7
    <3> HIDE DEF l
    <3> QED
      BY <3>1
  <2>3. salts'[s] = salts[s]
    BY <1>7
  <2>4. IsNonce(log[i], s)'
    BY <2>1, <2>2, <2>3, <1>1 DEF IsNonce, deriveKey
  <2> QED
    BY <2>2, <2>4
<1>15. NonceOnce'
  BY <1>1 DEF CountInv, NonceOnce
<1> QED
  BY <1>5, <1>9, <1>10, <1>13, <1>14, <1>15 DEF CountInv

-----------------------------------------------------------------------------
(* The theorems *)

LEMMA InitCounts == Init => CountInv
<1> SUFFICES ASSUME Init PROVE CountInv
  OBVIOUS
<1>1. /\ cipher \in Ciphers /\ ckey = NoKey /\ skey = NoKey
      /\ dec = [iv |-> Zeros(cipher), sessionKey |-> Unset]
      /\ cphase = "new" /\ sphase = "new" /\ wire = <<>>
      /\ encrypted = 0 /\ opened = 0 /\ losses = 0 /\ spoiled = FALSE /\ log = <<>>
  BY DEF Init, CipherInit
<1>2. PICK iv \in Salts[cipher] : salts = <<iv>> /\ enc = [iv |-> iv, sessionKey |-> Unset]
  BY DEF Init, CipherInit
<1>3. iv \in IVs(cipher) /\ iv \in UNION {Salts[c] : c \in Ciphers}
  BY <1>1, CipherAssumption
<1>4. /\ salts \in Seq(UNION {Salts[c] : c \in Ciphers}) /\ Len(salts) = 1 /\ salts[1] = iv
  BY <1>2, <1>3
<1>5. salt = iv
  BY <1>4 DEF salt
<1>6. ClientCounts /\ ServerCounts /\ WireCounts
  <2>1. ~spoiled
    BY <1>1
  <2> QED
    BY <1>1, <1>2, <1>3, <1>5, <2>1, FreshCounts
<1>7. OtherTypes
  <2>1. spoiled \in BOOLEAN
    BY <1>1, Zenon
  <2>2. losses \in 0..MaxLosses
    BY CipherAssumption DEF Init, CipherInit
  <2>3. ckey = NoKey /\ skey = NoKey /\ cphase = "new" /\ sphase = "new"
    BY <1>1
  <2>4. Len(salts) \in 1..MaxSessions
    BY <1>4, CipherAssumption
  <2> QED
    BY <1>4, <2>1, <2>2, <2>3, <2>4, Zenon DEF OtherTypes
<1>8. SaltsApart
  BY <1>4 DEF SaltsApart
<1>9. LogCounts /\ NonceOnce
  BY <1>1 DEF LogCounts, NonceOnce
<1>10. KeyInv
  BY InitKeys
<1> QED
  BY <1>6, <1>7, <1>8, <1>9, <1>10 DEF CountInv

LEMMA NextCounts == CountInv /\ [Next]_vars => CountInv'
<1> SUFFICES ASSUME CountInv, [Next]_vars PROVE CountInv'
  OBVIOUS
<1>1. CASE Connect
  BY <1>1, ReadCounts, SendCtrlCounts DEF Connect, Handshake
<1>2. CASE OpenFile
  <2>1. cphase' \in {cphase, "stopped"} /\
        UNCHANGED <<cipher, ckey, skey, salts, enc, dec, sphase, wire, encrypted, opened, losses, spoiled, log>>
    BY <1>2 DEF OpenFile, StopClient, cipherVars
  <2> QED
    BY <2>1, StopCounts
<1>3. CASE SendName
  BY <1>3, EncryptCounts DEF SendName
<1>4. CASE SendBlock
  BY <1>4, EncryptCounts DEF SendBlock
<1>5. CASE SendEot
  BY <1>5, EncryptCounts DEF SendEot
<1>6. CASE PassTime
  BY <1>6, StopCounts DEF PassTime, cipherVars
<1>7. CASE Stop
  BY <1>7, StopCounts DEF Stop, StopClient
<1>8. CASE Server
  BY <1>8, SetIVCounts, DecReadCounts, DecryptCounts, SpoilCounts DEF Server, ServerSide
<1>9. CASE NextTransfer
  BY <1>9, SessionCounts DEF NextTransfer
<1>10. CASE UNCHANGED vars
  BY <1>10, StopCounts DEF vars, cipherVars
<1> QED
  BY <1>1, <1>2, <1>3, <1>4, <1>5, <1>6, <1>7, <1>8, <1>9, <1>10 DEF Next, Client

LEMMA StepFollows == CountInv => OpensInStep
<1> SUFFICES ASSUME CountInv, sphase = "ready", NEW i \in 1..Len(wire)
             PROVE  wire[i].sessionKey = dec.sessionKey /\ wire[i].iv = incrementIV(dec.iv)
                      <=> ckey = skey /\ ~spoiled /\ wire[i].nr = opened + 1
  BY DEF OpensInStep
<1>1. PICK d \in IVs(cipher) :
        /\ dec.sessionKey = deriveKey(skey, d) /\ dec.iv = Orbit(d)[opened]
        /\ d = salt <=> ~spoiled
  BY DEF CountInv, ServerCounts
<1>2. /\ wire \in Seq(Frame) /\ opened + Len(wire) <= encrypted /\ Numbered(wire[i], opened + i)
  BY DEF CountInv, WireCounts
<1>3. /\ opened \in Nat /\ encrypted \in 0..MaxFrames /\ MaxFrames \in Nat
      /\ salt \in IVs(cipher)
  BY CipherAssumption DEF CountInv, ServerCounts, ClientCounts
<1> DEFINE nr == wire[i].nr
           key == wire[i].sessionKey
           iv == wire[i].iv
<1>4. /\ nr \in (opened + i)..encrypted
      /\ key = deriveKey(ckey, salt) /\ iv = Orbit(salt)[nr]
  BY <1>2 DEF Numbered
<1>5. incrementIV(dec.iv) = Orbit(d)[opened + 1]
  <2>1. d \in SomeIV
    BY SaltFacts
  <2> QED
    BY <2>1, <1>1, <1>3, OrbitIs
<1>6. nr \in 0..MaxFrames /\ opened + 1 \in 0..MaxFrames
  <2>1. i \in 1..Len(wire) /\ Len(wire) \in Nat
    BY <1>2, LenProperties
  <2> HIDE DEF nr
  <2> QED
    BY <2>1, <1>3, <1>4
<1>7. key = dec.sessionKey <=> ckey = skey /\ salt = d
  BY <1>1, <1>4 DEF deriveKey
<1>8. cipher \in Ciphers
  BY SaltFacts
<1>9. ASSUME d = salt PROVE iv = Orbit(d)[opened + 1] <=> nr = opened + 1
  <2>1. Orbit(salt)[nr] = Orbit(salt)[opened + 1] => nr = opened + 1
    BY <1>3, <1>6, <1>8, OrbitApart
  <2> QED
    BY <2>1, <1>4, <1>9
<1> HIDE DEF key, iv, nr
<1>10. key = dec.sessionKey /\ iv = incrementIV(dec.iv)
         <=> ckey = skey /\ ~spoiled /\ nr = opened + 1
  BY <1>1, <1>5, <1>7, <1>9
<1> QED
  BY <1>10 DEF key, iv, nr

StepType == step \in {"connect", "name", "loop", "done"}

LEMMA StepKept == (Init => StepType) /\ (StepType /\ [Next]_vars => StepType')
BY DEF Init, StepType, Next, Client, Connect, OpenFile, SendName, SendBlock, PassTime, SendEot,
       Stop, Server, NextTransfer, vars

LEMMA TypesFollow == CountInv /\ ThrottleInv /\ StepType => TypeOK
<1> SUFFICES ASSUME CountInv, ThrottleInv, StepType PROVE TypeOK
  OBVIOUS
<1>1. enc.iv \in IVs(cipher)
  <2>1. encrypted \in Nat
    BY CipherAssumption DEF CountInv, ClientCounts
  <2>2. salt \in IVs(cipher) /\ cipher \in Ciphers /\ enc.iv = Orbit(salt)[encrypted]
    BY SaltFacts DEF CountInv, ClientCounts
  <2> QED
    BY <2>1, <2>2, OrbitIn
<1>2. dec.iv \in IVs(cipher) /\ opened \in 0..encrypted /\ encrypted \in 0..MaxFrames
  BY DEF CountInv, ServerCounts, ClientCounts
<1>3. CipherTypeOK
  BY <1>1, <1>2, SaltFacts DEF CipherTypeOK, CountInv, OtherTypes
<1> QED
  BY <1>3 DEF TypeOK, ThrottleInv, StepType

\* No two frames are encrypted under the same session key and IV, in one transfer
\* or in several: incrementIV, of chacha20_handler.hpp and the others, runs through
\* different IVs for fewer frames than there are IVs, and the salt that
\* enc_readKeyFromFile mixes into the key tells the transfers apart.
THEOREM NonceNeverReused == Spec => []NonceOnce
<1>1. Spec => []CountInv
  BY InitCounts, NextCounts, PTL DEF Spec
<1>2. CountInv => NonceOnce
  BY DEF CountInv
<1> QED
  BY <1>1, <1>2, PTL

\* The IVs of encrypt and decrypt, each incremented on its own side, agree for the
\* frame that is next and for no other, whatever the channel lost or damaged.
THEOREM CountersInStep == Spec => []OpensInStep
<1>1. Spec => []CountInv
  BY InitCounts, NextCounts, PTL DEF Spec
<1> QED
  BY <1>1, StepFollows, PTL

\* The state of the send loop, its ciphers and its limit keeps its types.
THEOREM SendLoopTypeCorrect == Spec => []TypeOK
<1>1. Spec => []CountInv
  BY InitCounts, NextCounts, PTL DEF Spec
<1>2. Spec => []ThrottleInv
  BY InitThrottle, NextThrottle, PTL DEF Spec
<1>3. Spec => []StepType
  BY StepKept, PTL DEF Spec
<1> QED
  BY <1>1, <1>2, <1>3, TypesFollow, PTL
=============================================================================
