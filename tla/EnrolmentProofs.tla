-------------------------- MODULE EnrolmentProofs --------------------------
(***************************************************************************)
(* Proofs about Enrolment, for any sets of processes, files and keys: what *)
(* an enrolled client knows, that the server keeps signing with the pinned *)
(* key while its key file can be read, and that an identity is kept unless *)
(* a client that found the same file missing contested it.                 *)
(***************************************************************************)
EXTENDS Enrolment, TLAPS

-----------------------------------------------------------------------------
(* What an enrolled client knows *)

\* Only a key pair of this life or of the file signs.
SignerInv ==
  /\ server = "down" => signer = None
  /\ server # "down" => signer \in ServerKey

\* Every key pair in use was generated, so a fresh one is in no use.
MadeInv ==
  /\ \A p \in Proc : key[p] # None => key[p] \in made
  /\ \A k \in Key : rows[k] # None => k \in made
  /\ \A f \in Path : file[f] \in Identity => file[f].key \in made

\* A registration under way is that of one client, who holds its key; until it
\* is granted there is no row, then there is one.
LineInv ==
  \A p \in Proc :
    /\ pc[p] \in {"asking", "saving", "opening", "ready"} => key[p] \in Key
    /\ line[p] # "closed" => pc[p] = "asking"
    /\ line[p] \in {"asked", "error"} => rows[key[p]] = None
    /\ line[p] \in {"granted", "success"} => rows[key[p]] # None
    /\ pc[p] = "asking" =>
         /\ \A q \in Proc : key[q] = key[p] => q = p
         /\ \A f \in Path : file[f] \in Identity => file[f].key # key[p]

\* What is on file is in the table.
FileInv ==
  \A f \in Path : file[f] \in Identity => rows[file[f].key] = file[f].sig

EnrolInv ==
  TypeOK /\ SignerInv /\ MadeInv /\ LineInv /\ FileInv /\ EnrolledIsKnown

\* An identity is a key pair with a signature.
LEMMA IdentityFacts ==
  /\ \A i \in Identity : i.key \in Key /\ i.sig \in ServerKey
  /\ \A k \in Key, s \in ServerKey : [key |-> k, sig |-> s] \in Identity
BY DEF Identity

\* None is no value of a kind.
LEMMA NoneFacts ==
  /\ None \notin Key /\ None \notin ServerKey /\ None \notin Identity
  /\ Torn \notin Identity
  /\ \A p \in Proc : Uses[p] \in Path
BY ConstantsAssumption

\* Nobody is enrolled at first.
LEMMA EnrolInit == Init => EnrolInv
BY ConstantsAssumption
DEF Init, EnrolInv, TypeOK, SignerInv, MadeInv, LineInv, FileInv,
    EnrolledIsKnown, Identity

\* What a client loads is a registered identity.
LEMMA LoadFacts ==
  ASSUME EnrolInv, NEW p \in Proc, Load(p)
  PROVE  \E k \in Key \cap made, s \in ServerKey :
           /\ rows[k] = s
           /\ \E f \in Path : file[f] \in Identity /\ file[f].key = k
           /\ key' = [key EXCEPT ![p] = k]
           /\ sig' = [sig EXCEPT ![p] = s]
           /\ pc' = [pc EXCEPT ![p] = "opening"]
<1>1. Uses[p] \in Path /\ file[Uses[p]] \in Identity
  BY NoneFacts DEF Load
<1>2. /\ file[Uses[p]].key \in Key \cap made
      /\ file[Uses[p]].sig \in ServerKey
      /\ rows[file[Uses[p]].key] = file[Uses[p]].sig
  BY <1>1, IdentityFacts DEF EnrolInv, MadeInv, FileInv
<1> QED
  BY <1>1, <1>2 DEF Load, Hold, Goto

\* Every step keeps every variable in its type.
LEMMA TypeStep == EnrolInv /\ [Next]_vars => TypeOK'
<1> SUFFICES ASSUME EnrolInv, [Next]_vars PROVE TypeOK'
  OBVIOUS
<1> USE DEF serverSide, clientSide, ghosts, Hold, Goto
<1>1. CASE LoadKey \/ GenerateKey \/ SaveKey \/ Pin
  BY <1>1 DEF EnrolInv, TypeOK, LoadKey, GenerateKey, SaveKey, Pin, Usable,
              SignerInv
<1>2. CASE CrashServer
  BY <1>2 DEF EnrolInv, TypeOK, CrashServer, Unanswered, LineInv
<1>3. ASSUME NEW p \in Proc, Insert(p) \/ Reply(p) PROVE TypeOK'
  BY <1>3 DEF EnrolInv, TypeOK, Insert, Reply, LineInv, SignerInv
<1>4. ASSUME NEW p \in Proc, Load(p) PROVE TypeOK'
  <2>1. Uses[p] \in Path
    BY ConstantsAssumption
  <2>2. /\ file[Uses[p]].key \in Key
        /\ file[Uses[p]].sig \in ServerKey
    BY <1>4, <2>1, IdentityFacts DEF Load
  <2> QED
    BY <1>4, <2>2 DEF EnrolInv, TypeOK, Load
<1>5. ASSUME NEW p \in Proc, Enrol(p) \/ Register(p) PROVE TypeOK'
  BY <1>5 DEF EnrolInv, TypeOK, Enrol, Register
<1>6. ASSUME NEW p \in Proc, ReadSuccess(p) \/ OpenStore(p)
      PROVE  TypeOK'
  <2>1. Uses[p] \in Path
    BY ConstantsAssumption
  <2>2. ReadSuccess(p) => rows[key[p]] \in ServerKey \cup {None}
    BY DEF EnrolInv, TypeOK, ReadSuccess, LineInv
  <2> QED
    BY <1>6, <2>1, <2>2 DEF EnrolInv, TypeOK, ReadSuccess, OpenStore, LineInv
<1>7. ASSUME NEW p \in Proc, Save(p) PROVE TypeOK'
  <2>1. Uses[p] \in Path
    BY ConstantsAssumption
  <2>2. [key |-> key[p], sig |-> sig[p]] \in Identity
    BY <1>7, IdentityFacts
    DEF EnrolInv, TypeOK, Save, LineInv, EnrolledIsKnown
  <2>3. key[p] \in Key
    BY <1>7 DEF EnrolInv, LineInv, Save
  <2>4. hit' \subseteq Key
    BY <1>7, <2>3 DEF EnrolInv, TypeOK, Save
  <2> QED
    BY <1>7, <2>1, <2>2, <2>4 DEF EnrolInv, TypeOK, Save, Saved
<1>8. ASSUME NEW p \in Proc,
             GiveUp(p) \/ ReadError(p) \/ StoreLocked(p) \/ Quit(p)
      PROVE  TypeOK'
  BY <1>8 DEF EnrolInv, TypeOK, GiveUp, ReadError, StoreLocked, Quit, Stop
<1>9. ASSUME NEW p \in Proc, CrashClient(p) \/ LoseConnection(p) PROVE TypeOK'
  BY <1>9 DEF EnrolInv, TypeOK, CrashClient, LoseConnection, Stop,
              Registering, LineInv
<1>10. CASE UNCHANGED vars
  BY <1>10 DEF EnrolInv, TypeOK, vars
<1> QED
  BY <1>1, <1>2, <1>3, <1>4, <1>5, <1>6, <1>7, <1>8, <1>9, <1>10 DEF Next

\* A running server holds a key pair.
LEMMA SignerStep == EnrolInv /\ [Next]_vars => SignerInv'
<1> SUFFICES ASSUME EnrolInv, [Next]_vars PROVE SignerInv'
  OBVIOUS
<1>1. CASE LoadKey \/ GenerateKey \/ SaveKey \/ Pin \/ CrashServer
  BY <1>1, ConstantsAssumption
  DEF EnrolInv, TypeOK, SignerInv, LoadKey, GenerateKey, SaveKey, Pin,
      CrashServer, Usable
<1>2. CASE ~(LoadKey \/ GenerateKey \/ SaveKey \/ Pin \/ CrashServer)
  <2>1. UNCHANGED <<server, signer>>
    BY <1>2 DEF Next, vars, serverSide, Insert, Reply, Load, Enrol, Register,
                GiveUp, ReadSuccess, ReadError, Save, OpenStore, StoreLocked, Quit,
                CrashClient, LoseConnection, Stop
  <2> QED
    BY <2>1 DEF EnrolInv, SignerInv
<1> QED
  BY <1>1, <1>2

\* Only Register gives out a key, and it generates it.
LEMMA MadeStep == EnrolInv /\ [Next]_vars => MadeInv'
<1> SUFFICES ASSUME EnrolInv, [Next]_vars PROVE MadeInv'
  OBVIOUS
<1> USE DEF serverSide, clientSide, ghosts, Hold, Goto
<1>1. CASE LoadKey \/ GenerateKey \/ SaveKey \/ Pin \/ CrashServer
  BY <1>1 DEF EnrolInv, MadeInv, LoadKey, GenerateKey, SaveKey, Pin, CrashServer
<1>2. ASSUME NEW p \in Proc, Insert(p) \/ Reply(p) PROVE MadeInv'
  <2>1. Insert(p) => key[p] \in Key /\ key[p] \in made
    BY NoneFacts DEF EnrolInv, LineInv, MadeInv, Insert
  <2> QED
    BY <1>2, <2>1 DEF EnrolInv, TypeOK, MadeInv, Insert, Reply
<1>3. ASSUME NEW p \in Proc, Load(p) PROVE MadeInv'
  <2>1. UNCHANGED <<rows, file, made>>
    BY <1>3 DEF Load
  <2> QED
    BY <1>3, <2>1, LoadFacts DEF EnrolInv, TypeOK, MadeInv
<1>4. ASSUME NEW p \in Proc, Enrol(p) \/ Register(p) PROVE MadeInv'
  BY <1>4 DEF EnrolInv, TypeOK, MadeInv, Enrol, Register
<1>5. ASSUME NEW p \in Proc, ReadSuccess(p) PROVE MadeInv'
  BY <1>5, ConstantsAssumption DEF EnrolInv, TypeOK, MadeInv, ReadSuccess
<1>6. ASSUME NEW p \in Proc, Save(p) PROVE MadeInv'
  BY <1>6, ConstantsAssumption, IdentityFacts
  DEF EnrolInv, TypeOK, MadeInv, LineInv, Save, Saved
<1>7. ASSUME NEW p \in Proc, OpenStore(p) \/ LoseConnection(p) PROVE MadeInv'
  BY <1>7 DEF EnrolInv, MadeInv, OpenStore, LoseConnection
<1>8. ASSUME NEW p \in Proc,
             GiveUp(p) \/ ReadError(p) \/ StoreLocked(p) \/ Quit(p)
               \/ CrashClient(p)
      PROVE  MadeInv'
  BY <1>8 DEF EnrolInv, TypeOK, MadeInv, GiveUp, ReadError, StoreLocked,
              Quit, CrashClient, Stop
<1>9. CASE UNCHANGED vars
  BY <1>9 DEF EnrolInv, MadeInv, vars
<1> QED
  BY <1>1, <1>2, <1>3, <1>4, <1>5, <1>6, <1>7, <1>8, <1>9 DEF Next

\* Nobody else has the key of a registration under way.
LEMMA LineStep == EnrolInv /\ [Next]_vars => LineInv'
<1> SUFFICES ASSUME EnrolInv, [Next]_vars PROVE LineInv'
  OBVIOUS
<1> USE DEF serverSide, clientSide, ghosts, Hold, Goto
<1>1. CASE LoadKey \/ GenerateKey \/ SaveKey \/ Pin
  BY <1>1 DEF EnrolInv, LineInv, LoadKey, GenerateKey, SaveKey, Pin
<1>2. CASE CrashServer
  BY <1>2 DEF EnrolInv, TypeOK, LineInv, CrashServer, Unanswered
<1>3. ASSUME NEW p \in Proc, Insert(p) PROVE LineInv'
  <2>1. /\ rows' = [rows EXCEPT ![key[p]] = signer]
        /\ line' = [line EXCEPT ![p] = "granted"]
        /\ UNCHANGED <<pc, key, file>>
        /\ server = "up" /\ line[p] = "asked"
    BY <1>3 DEF Insert
  <2>2. signer # None /\ key[p] \in Key
    BY <2>1, ConstantsAssumption DEF EnrolInv, TypeOK, SignerInv, LineInv
  <2>3. \A q \in Proc \ {p} : line[q] # "closed" => key[q] # key[p]
    BY <2>1 DEF EnrolInv, LineInv
  <2> QED
    BY <2>1, <2>2, <2>3 DEF EnrolInv, TypeOK, LineInv
<1>4. ASSUME NEW p \in Proc, Reply(p) PROVE LineInv'
  BY <1>4 DEF EnrolInv, TypeOK, LineInv, Reply
<1>5. ASSUME NEW p \in Proc, Load(p) PROVE LineInv'
  <2>1. UNCHANGED <<rows, file, line>> /\ pc[p] = "off"
    BY <1>5 DEF Load
  <2> QED
    BY <1>5, <2>1, LoadFacts DEF EnrolInv, TypeOK, LineInv
<1>6. ASSUME NEW p \in Proc, Register(p) PROVE LineInv'
  <2>1. PICK k \in Key \ made :
          /\ key' = [key EXCEPT ![p] = k]
          /\ pc' = [pc EXCEPT ![p] = "asking"]
          /\ line' = [line EXCEPT ![p] = "asked"]
          /\ UNCHANGED <<rows, file>>
    BY <1>6 DEF Register
  <2>2. /\ rows[k] = None
        /\ \A q \in Proc : key[q] # k
        /\ \A f \in Path : file[f] \in Identity => file[f].key # k
    BY <2>1, NoneFacts DEF EnrolInv, MadeInv
  <2> QED
    BY <2>1, <2>2 DEF EnrolInv, TypeOK, LineInv
<1>7. ASSUME NEW p \in Proc, ReadSuccess(p) PROVE LineInv'
  <2>1. \A f \in Path : file'[f] \in Identity =>
          file[f] \in Identity /\ file'[f] = file[f]
    BY <1>7, NoneFacts DEF EnrolInv, TypeOK, ReadSuccess
  <2>2. /\ UNCHANGED <<key, rows>>
        /\ pc' = [pc EXCEPT ![p] = "saving"]
        /\ line' = [line EXCEPT ![p] = "closed"]
    BY <1>7 DEF EnrolInv, TypeOK, ReadSuccess
  <2>3. \A q \in Proc : pc'[q] = "asking" =>
          /\ pc[q] = "asking"
          /\ \A f \in Path : file'[f] \in Identity => file'[f].key # key[q]
    BY <2>1, <2>2 DEF EnrolInv, TypeOK, LineInv
  <2>4. pc[p] = "asking"
    BY <1>7 DEF ReadSuccess
  <2> QED
    BY <2>2, <2>3, <2>4 DEF EnrolInv, TypeOK, LineInv
<1>8. ASSUME NEW p \in Proc, Enrol(p) \/ OpenStore(p) \/ LoseConnection(p)
      PROVE  LineInv'
  BY <1>8 DEF EnrolInv, TypeOK, LineInv, Enrol, OpenStore, LoseConnection
<1>9. ASSUME NEW p \in Proc, Save(p) PROVE LineInv'
  <2>1. /\ pc[p] = "saving" /\ pc' = [pc EXCEPT ![p] = "opening"]
        /\ UNCHANGED <<key, line, rows>>
    BY <1>9 DEF Save
  <2>2. \A f \in Path : file'[f] \in Identity =>
          \/ file[f] \in Identity /\ file'[f] = file[f]
          \/ file'[f].key = key[p]
    BY <1>9, NoneFacts DEF EnrolInv, TypeOK, Save, Saved
  <2> QED
    BY <2>1, <2>2 DEF EnrolInv, TypeOK, LineInv
<1>10. ASSUME NEW p \in Proc,
             GiveUp(p) \/ ReadError(p) \/ StoreLocked(p) \/ Quit(p)
               \/ CrashClient(p)
      PROVE  LineInv'
  <2>1. /\ key' = [key EXCEPT ![p] = None]
        /\ pc' = [pc EXCEPT ![p] = "off"]
        /\ line' = [line EXCEPT ![p] = "closed"]
        /\ UNCHANGED <<rows, file>>
    BY <1>10 DEF GiveUp, ReadError, StoreLocked,
              Quit, CrashClient, Stop
  <2> QED
    BY <2>1, NoneFacts DEF EnrolInv, TypeOK, LineInv
<1>11. CASE UNCHANGED vars
  BY <1>11 DEF EnrolInv, LineInv, vars
<1> QED
  BY <1>1, <1>2, <1>3, <1>4, <1>5, <1>6, <1>7, <1>8, <1>9, <1>10, <1>11 DEF Next

\* Rows are only added, for keys that are on no file yet.
LEMMA FileStep == EnrolInv /\ [Next]_vars => FileInv'
<1> SUFFICES ASSUME EnrolInv, [Next]_vars PROVE FileInv'
  OBVIOUS
<1> USE DEF serverSide, clientSide, ghosts, Hold, Goto
<1>1. ASSUME NEW p \in Proc, Insert(p) PROVE FileInv'
  <2>1. /\ pc[p] = "asking"
        /\ rows' = [rows EXCEPT ![key[p]] = signer]
        /\ UNCHANGED file
    BY <1>1 DEF EnrolInv, LineInv, Insert
  <2>2. \A f \in Path : file[f] \in Identity =>
          file[f].key \in Key /\ file[f].key # key[p]
    BY <2>1, IdentityFacts DEF EnrolInv, LineInv
  <2> QED
    BY <2>1, <2>2 DEF EnrolInv, TypeOK, FileInv
<1>2. ASSUME NEW p \in Proc, ReadSuccess(p) PROVE FileInv'
  BY <1>2, ConstantsAssumption DEF EnrolInv, TypeOK, FileInv, ReadSuccess
<1>3. ASSUME NEW p \in Proc, Save(p) PROVE FileInv'
  BY <1>3, ConstantsAssumption, IdentityFacts
  DEF EnrolInv, TypeOK, FileInv, EnrolledIsKnown, Save, Saved
<1>4. CASE ~\E p \in Proc : Insert(p) \/ ReadSuccess(p) \/ Save(p)
  <2>1. UNCHANGED <<rows, file>>
    BY <1>4 DEF Next, vars, LoadKey, GenerateKey, SaveKey, Pin, CrashServer,
                Reply, Load, Enrol, Register, GiveUp, ReadError, OpenStore, StoreLocked,
              Quit, CrashClient, LoseConnection, Stop
  <2> QED
    BY <2>1 DEF EnrolInv, FileInv
<1> QED
  BY <1>1, <1>2, <1>3, <1>4

\* An enrolled client's row is there before he is told and never changes.
LEMMA KnownStep == EnrolInv /\ [Next]_vars => EnrolledIsKnown'
<1> SUFFICES ASSUME EnrolInv, [Next]_vars PROVE EnrolledIsKnown'
  OBVIOUS
<1> USE DEF serverSide, clientSide, ghosts, Hold, Goto
<1>1. CASE LoadKey \/ GenerateKey \/ SaveKey \/ Pin \/ CrashServer
  BY <1>1 DEF EnrolInv, EnrolledIsKnown, LoadKey, GenerateKey, SaveKey, Pin,
              CrashServer
<1>2. ASSUME NEW p \in Proc, Insert(p) PROVE EnrolledIsKnown'
  BY <1>2 DEF EnrolInv, TypeOK, LineInv, EnrolledIsKnown, Insert
<1>3. ASSUME NEW p \in Proc, Reply(p) \/ LoseConnection(p)
      PROVE  EnrolledIsKnown'
  BY <1>3 DEF EnrolInv, EnrolledIsKnown, Reply, LoseConnection
<1>4. ASSUME NEW p \in Proc, Load(p) PROVE EnrolledIsKnown'
  <2>1. UNCHANGED rows
    BY <1>4 DEF Load
  <2> QED
    BY <1>4, <2>1, LoadFacts, NoneFacts DEF EnrolInv, TypeOK, EnrolledIsKnown
<1>5. ASSUME NEW p \in Proc, Enrol(p) \/ Register(p) PROVE EnrolledIsKnown'
  BY <1>5 DEF EnrolInv, TypeOK, EnrolledIsKnown, Enrol, Register
<1>6. ASSUME NEW p \in Proc, ReadSuccess(p) PROVE EnrolledIsKnown'
  <2>1. /\ key[p] \in Key /\ rows[key[p]] # None
        /\ key' = [key EXCEPT ![p] = key[p]]
        /\ sig' = [sig EXCEPT ![p] = rows[key[p]]]
        /\ pc' = [pc EXCEPT ![p] = "saving"]
        /\ UNCHANGED rows
    BY <1>6 DEF EnrolInv, LineInv, ReadSuccess, Granted
  <2> QED
    BY <2>1 DEF EnrolInv, TypeOK, EnrolledIsKnown
<1>7. ASSUME NEW p \in Proc, Save(p) \/ OpenStore(p) PROVE EnrolledIsKnown'
  BY <1>7 DEF EnrolInv, TypeOK, EnrolledIsKnown, Save, OpenStore
<1>8. ASSUME NEW p \in Proc,
             GiveUp(p) \/ ReadError(p) \/ StoreLocked(p) \/ Quit(p)
               \/ CrashClient(p)
      PROVE  EnrolledIsKnown'
  BY <1>8 DEF EnrolInv, TypeOK, EnrolledIsKnown, GiveUp, ReadError, StoreLocked,
              Quit, CrashClient, Stop
<1>9. CASE UNCHANGED vars
  BY <1>9 DEF EnrolInv, EnrolledIsKnown, vars
<1> QED
  BY <1>1, <1>2, <1>3, <1>4, <1>5, <1>6, <1>7, <1>8, <1>9 DEF Next

\* The conjuncts above keep each other.
LEMMA EnrolInvariant == Spec => []EnrolInv
<1>1. EnrolInv /\ [Next]_vars => EnrolInv'
  BY TypeStep, SignerStep, MadeStep, LineStep, FileStep, KnownStep DEF EnrolInv
<1> QED
  BY <1>1, EnrolInit, PTL DEF Spec

\* The state is well typed, for any sets of processes, files and keys.
THEOREM EnrolmentTyped == Spec => []TypeOK
BY EnrolInvariant, PTL DEF EnrolInv

\* However often server and clients end and connections break, also with two
\* clients on one file, a client that got past registration or unlocking is in
\* the table with the signature he presents.
THEOREM EnrolledIsKnownHolds == Spec => []EnrolledIsKnown
BY EnrolInvariant, PTL DEF EnrolInv

-----------------------------------------------------------------------------
(* The server keeps its key *)

\* Clients and rows know one key pair, that of the file; the file is written
\* only before there are any.
SignedInv ==
  /\ server = "up" => signer = keyFile
  /\ server = "saving" => pinned = None
  /\ pinned # None => keyFile = pinned
  /\ \A p \in Proc : pc[p] # "off" => pinned # None
  /\ \A k \in Key : rows[k] # None => pinned # None /\ rows[k] = pinned

\* The key file is written only while nobody depends on it.
LEMMA SignedStep ==
  ASSUME "read error" \notin Faults, EnrolInv, SignedInv, [Next]_vars
  PROVE  SignedInv'
<1> USE DEF serverSide, clientSide, ghosts
<1>1. CASE LoadKey
  BY <1>1 DEF SignedInv, LoadKey
<1>2. CASE GenerateKey
  BY <1>2 DEF EnrolInv, TypeOK, SignedInv, GenerateKey, Usable
<1>3. CASE SaveKey
  BY <1>3 DEF SignedInv, SaveKey
<1>4. CASE Pin
  <2>1. signer # None /\ \A k \in Key : rows[k] = None
    BY <1>4, NoneFacts DEF EnrolInv, SignerInv, SignedInv, Pin
  <2> QED
    BY <1>4, <2>1 DEF SignedInv, Pin
<1>5. CASE CrashServer
  BY <1>5 DEF EnrolInv, TypeOK, SignedInv, CrashServer
<1>6. ASSUME NEW p \in Proc, Insert(p) PROVE SignedInv'
  BY <1>6 DEF EnrolInv, TypeOK, LineInv, SignedInv, Insert
<1>7. ASSUME NEW p \in Proc, Reply(p) PROVE SignedInv'
  BY <1>7 DEF EnrolInv, TypeOK, SignedInv, Reply
<1>8. ASSUME NEW p \in Proc,
             Enrol(p) \/ Register(p) \/ ReadSuccess(p) \/ LoseConnection(p)
      PROVE  SignedInv'
  BY <1>8 DEF EnrolInv, TypeOK, SignedInv, Enrol, Register, ReadSuccess,
              LoseConnection
<1>9. ASSUME NEW p \in Proc, Load(p) \/ Save(p) \/ OpenStore(p)
      PROVE  SignedInv'
  BY <1>9 DEF EnrolInv, TypeOK, SignedInv, Load, Save, OpenStore
<1>10. ASSUME NEW p \in Proc,
              GiveUp(p) \/ ReadError(p) \/ StoreLocked(p) \/ Quit(p)
                \/ CrashClient(p)
      PROVE  SignedInv'
  BY <1>10 DEF EnrolInv, TypeOK, SignedInv, GiveUp, ReadError, StoreLocked,
               Quit, CrashClient, Stop
<1>11. CASE UNCHANGED vars
  BY <1>11 DEF SignedInv, vars
<1> QED
  BY <1>1, <1>2, <1>3, <1>4, <1>5, <1>6, <1>7, <1>8, <1>9, <1>10, <1>11
  DEF Next

\* While its key file can be read, a server that crashed and came back, however
\* often and at whatever point of its first write, signs with the key that the
\* clients were built with, and so is every row.
THEOREM SignedAsPinnedHolds ==
  ASSUME "read error" \notin Faults
  PROVE  Spec => []SignedAsPinned
<1>1. Init => SignedInv
  BY DEF Init, SignedInv
<1>2. EnrolInv /\ SignedInv /\ [Next]_vars => SignedInv'
  BY SignedStep
<1>3. EnrolInv /\ SignedInv => SignedAsPinned
  BY DEF EnrolInv, SignerInv, TypeOK, SignedInv, SignedAsPinned
<1> QED
  BY <1>1, <1>2, <1>3, EnrolInvariant, PTL DEF Spec

-----------------------------------------------------------------------------
(* A client keeps its identity *)

\* What a client holds is on file once it was saved, and what is on the file of
\* a client that found it missing is contested.
KeptInv ==
  \A p \in Proc :
    /\ pc[p] \in {"opening", "ready"} =>
         \/ file[Uses[p]] = [key |-> key[p], sig |-> sig[p]]
         \/ key[p] \in hit
    /\ pc[p] \in {"enrolling", "asking", "saving"} =>
         file[Uses[p]] \notin Identity \/ file[Uses[p]].key \in hit
    /\ pc[p] = "asking" /\ line[p] = "closed" => key[p] \in hit
    /\ pc[p] \in {"off", "enrolling"} => key[p] = None

\* Who is past registration holds what a file can hold.
LEMMA SavedIdentity ==
  ASSUME EnrolInv, NEW p \in Proc, pc[p] \in {"saving", "opening", "ready"}
  PROVE  /\ [key |-> key[p], sig |-> sig[p]] \in Identity
         /\ [key |-> key[p], sig |-> sig[p]].key = key[p]
BY IdentityFacts DEF EnrolInv, TypeOK, LineInv, EnrolledIsKnown

\* Of two clients that write one file, the first to save is contested; and a
\* connection closes under a client only by a fault.
LEMMA KeptStep ==
  ASSUME EnrolInv, KeptInv, [Next]_vars
  PROVE  KeptInv'
<1> USE DEF serverSide, clientSide, ghosts, Hold, Goto
<1>1. CASE LoadKey \/ GenerateKey \/ SaveKey \/ Pin
  BY <1>1 DEF KeptInv, LoadKey, GenerateKey, SaveKey, Pin
<1>2. CASE CrashServer
  BY <1>2 DEF EnrolInv, TypeOK, KeptInv, CrashServer, Unanswered
<1>3. ASSUME NEW p \in Proc, Insert(p) \/ Reply(p) PROVE KeptInv'
  BY <1>3 DEF EnrolInv, TypeOK, KeptInv, Insert, Reply
<1>4. ASSUME NEW p \in Proc, Load(p) PROVE KeptInv'
  <2>1. file[Uses[p]] = [key |-> file[Uses[p]].key, sig |-> file[Uses[p]].sig]
    BY <1>4 DEF Load, Identity
  <2>2. file[Uses[p]].key \in Key /\ file[Uses[p]].sig \in ServerKey
    BY <1>4, IdentityFacts DEF Load
  <2>3. /\ key' = [key EXCEPT ![p] = file[Uses[p]].key]
        /\ sig' = [sig EXCEPT ![p] = file[Uses[p]].sig]
        /\ pc' = [pc EXCEPT ![p] = "opening"]
        /\ UNCHANGED <<file, line, hit>>
    BY <1>4 DEF Load
  <2> QED
    BY <2>1, <2>2, <2>3 DEF EnrolInv, TypeOK, KeptInv
<1>5. ASSUME NEW p \in Proc, Enrol(p) \/ Register(p) PROVE KeptInv'
  <2>1. CASE Enrol(p)
    <3>1. file[Uses[p]] \notin Identity
      BY <2>1, NoneFacts DEF Enrol, Missing
    <3> QED
      BY <2>1, <3>1 DEF EnrolInv, TypeOK, KeptInv, Enrol
  <2>2. CASE Register(p)
    BY <2>2 DEF EnrolInv, TypeOK, KeptInv, Register
  <2> QED
    BY <1>5, <2>1, <2>2
<1>6. ASSUME NEW p \in Proc, ReadSuccess(p) PROVE KeptInv'
  <2>1. /\ file' = [file EXCEPT ![Uses[p]] = Torn]
        /\ pc[p] = "asking"
        /\ pc' = [pc EXCEPT ![p] = "saving"]
        /\ \A q \in Proc \ {p} : /\ key'[q] = key[q] /\ sig'[q] = sig[q]
                                /\ line'[q] = line[q]
        /\ UNCHANGED hit
    BY <1>6 DEF EnrolInv, TypeOK, ReadSuccess
  <2>2. ASSUME NEW q \in Proc, Uses[q] # Uses[p]
        PROVE  file'[Uses[q]] = file[Uses[q]]
    BY <2>1, <2>2, NoneFacts DEF EnrolInv, TypeOK
  <2>3. ASSUME NEW q \in Proc, Uses[q] = Uses[p]
        PROVE  /\ file'[Uses[q]] = Torn
               /\ pc[q] \in {"opening", "ready"} => key[q] \in hit
    <3>1. file'[Uses[q]] = Torn
      BY <2>1, <2>3, NoneFacts DEF EnrolInv, TypeOK
    <3>2. ASSUME pc[q] \in {"opening", "ready"} PROVE key[q] \in hit
      BY <2>1, <2>3, <3>2, SavedIdentity DEF KeptInv
    <3> QED
      BY <3>1, <3>2
  <2> QED
    BY <2>1, <2>2, <2>3, NoneFacts DEF EnrolInv, TypeOK, KeptInv
<1>7. ASSUME NEW p \in Proc, Save(p) PROVE KeptInv'
  <2>1. /\ pc[p] = "saving"
        /\ pc' = [pc EXCEPT ![p] = "opening"]
        /\ UNCHANGED <<key, sig, line>>
        /\ hit \subseteq hit'
        /\ Contested(p) => key[p] \in hit'
    BY <1>7 DEF Save
  <2>2. file' = [file EXCEPT ![Uses[p]] = [key |-> key[p], sig |-> sig[p]]]
    BY <1>7 DEF Save, Saved
  <2>3. ASSUME NEW q \in Proc, Uses[q] # Uses[p]
        PROVE  file'[Uses[q]] = file[Uses[q]]
    BY <2>2, <2>3, NoneFacts DEF EnrolInv, TypeOK
  <2>4. ASSUME NEW q \in Proc, Uses[q] = Uses[p]
        PROVE  /\ file'[Uses[q]] = [key |-> key[p], sig |-> sig[p]]
               /\ pc[q] \in {"opening", "ready"} => key[q] \in hit
               /\ q # p /\ pc[q] \in {"enrolling", "asking", "saving"} => key[p] \in hit'
    <3>1. file'[Uses[q]] = [key |-> key[p], sig |-> sig[p]]
      BY <2>2, <2>4, NoneFacts DEF EnrolInv, TypeOK
    <3>2. ASSUME pc[q] \in {"opening", "ready"} PROVE key[q] \in hit
      BY <2>1, <2>4, <3>2, SavedIdentity DEF KeptInv
    <3>3. ASSUME q # p, pc[q] \in {"enrolling", "asking", "saving"}
          PROVE  key[p] \in hit'
      BY <2>1, <2>4, <3>3 DEF Contested, Registering
    <3> QED
      BY <3>1, <3>2, <3>3
  <2> QED
    BY <2>1, <2>3, <2>4 DEF EnrolInv, TypeOK, KeptInv
<1>8. ASSUME NEW p \in Proc, OpenStore(p) PROVE KeptInv'
  BY <1>8 DEF EnrolInv, TypeOK, KeptInv, OpenStore
<1>9. ASSUME NEW p \in Proc, LoseConnection(p) PROVE KeptInv'
  BY <1>9 DEF EnrolInv, TypeOK, KeptInv, LoseConnection
<1>10. ASSUME NEW p \in Proc,
              GiveUp(p) \/ ReadError(p) \/ StoreLocked(p) \/ Quit(p)
                \/ CrashClient(p)
       PROVE  KeptInv'
  <2>1. /\ pc' = [pc EXCEPT ![p] = "off"]
        /\ key' = [key EXCEPT ![p] = None]
        /\ sig' = [sig EXCEPT ![p] = None]
        /\ line' = [line EXCEPT ![p] = "closed"]
        /\ UNCHANGED file
        /\ hit \subseteq hit'
    BY <1>10 DEF GiveUp, ReadError, StoreLocked,
              Quit, CrashClient, Stop
  <2> QED
    BY <2>1 DEF EnrolInv, TypeOK, KeptInv
<1>11. CASE UNCHANGED vars
  BY <1>11 DEF KeptInv, vars
<1> QED
  BY <1>1, <1>2, <1>3, <1>4, <1>5, <1>6, <1>7, <1>8, <1>9, <1>10, <1>11
  DEF Next

\* What is needed of a step for orphans to stay explained.
LEMMA OrphansKept ==
  ASSUME OrphansAreCutShort, hit \subseteq hit',
         \A k \in Key : rows'[k] # None => rows[k] # None \/ Holder(k)',
         \A k \in Key : Holder(k) /\ rows'[k] # None => Holder(k)' \/ k \in hit'
  PROVE  OrphansAreCutShort'
BY DEF OrphansAreCutShort

\* Memory lets go of a key only when it is on file or by a fault.
LEMMA OrphansStep ==
  ASSUME EnrolInv, KeptInv, OrphansAreCutShort, [Next]_vars
  PROVE  OrphansAreCutShort'
<1> USE DEF serverSide, clientSide, ghosts, Hold, Goto
<1>1. CASE UNCHANGED <<rows, key, file>> /\ hit \subseteq hit'
  BY <1>1, OrphansKept DEF Holder
<1>2. ASSUME NEW p \in Proc, Insert(p) PROVE OrphansAreCutShort'
  <2>1. /\ rows' = [rows EXCEPT ![key[p]] = signer]
        /\ UNCHANGED <<key, file, hit>>
    BY <1>2 DEF Insert
  <2> QED
    BY <2>1, OrphansKept DEF EnrolInv, TypeOK, Holder
<1>3. ASSUME NEW p \in Proc, Load(p) \/ Enrol(p) \/ Register(p)
      PROVE  OrphansAreCutShort'
  <2>1. /\ key[p] = None
        /\ \A q \in Proc \ {p} : key'[q] = key[q]
        /\ UNCHANGED <<rows, file, hit>>
    BY <1>3 DEF EnrolInv, TypeOK, KeptInv, Load, Enrol, Register
  <2>2. \A k \in Key : Holder(k) => Holder(k)'
    BY <2>1, NoneFacts DEF Holder
  <2> QED
    BY <2>1, <2>2, OrphansKept
<1>4. ASSUME NEW p \in Proc, ReadSuccess(p) \/ Save(p)
      PROVE  OrphansAreCutShort'
  <2>1. /\ Uses[p] \in Path
        /\ file[Uses[p]] \in Identity => file[Uses[p]].key \in hit
    BY <1>4, NoneFacts DEF KeptInv, ReadSuccess, Save
  <2>2. \A f \in Path \ {Uses[p]} : file'[f] = file[f]
    BY <1>4, <2>1 DEF EnrolInv, TypeOK, ReadSuccess, Save, Saved
  <2>3. UNCHANGED <<rows, key>> /\ hit \subseteq hit'
    BY <1>4 DEF EnrolInv, TypeOK, ReadSuccess, Save
  <2>4. \A k \in Key : Holder(k) => Holder(k)' \/ k \in hit'
    BY <2>1, <2>2, <2>3 DEF Holder
  <2> QED
    BY <2>3, <2>4, OrphansKept
<1>5. ASSUME NEW p \in Proc,
             GiveUp(p) \/ ReadError(p) \/ StoreLocked(p) \/ Quit(p)
               \/ CrashClient(p)
      PROVE  OrphansAreCutShort'
  <2>1. /\ \A q \in Proc \ {p} : key'[q] = key[q]
        /\ UNCHANGED <<rows, file>>
        /\ hit \subseteq hit'
    BY <1>5 DEF EnrolInv, TypeOK, GiveUp, ReadError, StoreLocked,
              Quit, CrashClient, Stop
  <2>2. CASE pc[p] \in {"opening", "ready"}
    <3>1. /\ Uses[p] \in Path
          /\ \/ file[Uses[p]] = [key |-> key[p], sig |-> sig[p]]
             \/ key[p] \in hit
      BY <2>2, NoneFacts DEF KeptInv
    <3>2. /\ [key |-> key[p], sig |-> sig[p]] \in Identity
          /\ [key |-> key[p], sig |-> sig[p]].key = key[p]
      BY <2>2, SavedIdentity
    <3>3. \A k \in Key : Holder(k) => Holder(k)' \/ k \in hit'
      BY <2>1, <3>1, <3>2 DEF Holder
    <3> QED
      BY <2>1, <3>3, OrphansKept
  <2>3. CASE pc[p] \in {"asking", "saving"}
    <3>1. rows[key[p]] = None \/ key[p] \in hit'
      BY <1>5, <2>3
      DEF EnrolInv, TypeOK, LineInv, KeptInv, GiveUp, ReadError, StoreLocked,
              Quit, CrashClient, Registering
    <3>2. \A k \in Key :
            Holder(k) /\ rows'[k] # None => Holder(k)' \/ k \in hit'
      BY <2>1, <3>1 DEF Holder
    <3> QED
      BY <2>1, <3>2, OrphansKept
  <2>4. CASE pc[p] = "enrolling"
    <3>1. key[p] = None
      BY <2>4 DEF KeptInv
    <3>2. \A k \in Key : Holder(k) => Holder(k)'
      BY <2>1, <3>1, NoneFacts DEF Holder
    <3> QED
      BY <2>1, <3>2, OrphansKept
  <2>5. pc[p] \in {"enrolling", "asking", "saving", "opening", "ready"}
    BY <1>5 DEF EnrolInv, TypeOK, GiveUp, ReadError, StoreLocked,
              Quit, CrashClient
  <2> QED
    BY <2>2, <2>3, <2>4, <2>5
<1>6. CASE \/ LoadKey \/ GenerateKey \/ SaveKey \/ Pin \/ CrashServer
           \/ \E p \in Proc : Reply(p) \/ OpenStore(p) \/ LoseConnection(p)
           \/ UNCHANGED vars
  <2>1. UNCHANGED <<rows, key, file>> /\ hit \subseteq hit'
    BY <1>6 DEF vars, LoadKey, GenerateKey, SaveKey, Pin, CrashServer, Reply,
                OpenStore, LoseConnection
  <2> QED
    BY <1>1, <2>1
<1> QED
  BY <1>2, <1>3, <1>4, <1>5, <1>6 DEF Next

\* Both together: what is kept in a file, and that nothing else is lost, is one
\* invariant.
LEMMA KeptInvariant == Spec => [](KeptInv /\ OrphansAreCutShort)
<1>1. Init => KeptInv /\ OrphansAreCutShort
  BY DEF Init, KeptInv, OrphansAreCutShort, Identity
<1>2. EnrolInv /\ KeptInv /\ OrphansAreCutShort /\ [Next]_vars
        => KeptInv' /\ OrphansAreCutShort'
  BY KeptStep, OrphansStep
<1> QED
  BY <1>1, <1>2, EnrolInvariant, PTL DEF Spec

\* Whoever is at the prompt finds his identity in his file when he starts again
\* (save, "identity saved"), unless another client that found the same file
\* missing, and was at its password prompt or further, contested it.
THEOREM SavedIsKeptHolds == Spec => []SavedIsKept
<1>1. KeptInv => SavedIsKept
  BY DEF KeptInv, SavedIsKept
<1> QED
  BY <1>1, KeptInvariant, PTL

\* A key that is in the server's table and that nobody holds, in memory or in a
\* file, is one whose registration a crash or a lost connection cut short, or that
\* was contested: the orderly course of register_with_server, save and load makes
\* none, however many clients and keys there are.
THEOREM OrphansAreCutShortHolds == Spec => []OrphansAreCutShort
<1> QED
  BY KeptInvariant, PTL

=============================================================================
