----------------------------- MODULE Enrolment -----------------------------
(***************************************************************************)
(* Who may call himself a diddy: the server's key pair and its file        *)
(* (server/src/main.rs, load_or_gen_keypair), the registration of a client *)
(* (client/src/main.rs, register_with_server) and the client's identity    *)
(* file (client/src/identity.rs).                                          *)
(*                                                                         *)
(* Both files are written in place with fs::write, which truncates and     *)
(* then writes, so a crash can leave a torn file.  Server and clients end  *)
(* at any point and are started again.  Once a server runs, its public key *)
(* is copied into the clients' source and does not change there.           *)
(*                                                                         *)
(* A key pair stands for its public half, its private half and its id; a   *)
(* signature for the server key pair it was made with.                     *)
(***************************************************************************)
CONSTANTS
  Proc,       \* client processes
  Path,       \* identity files
  Uses,       \* the identity file a process is started with
  Key,        \* key pairs of clients
  ServerKey,  \* key pairs of servers
  None,       \* absence of a value; of a file, that it does not exist
  Torn,       \* content of a file whose write did not complete
  Faults      \* faults an instance allows

Identity == [key : Key, sig : ServerKey]

ASSUME ConstantsAssumption ==
  /\ Uses \in [Proc -> Path]
  /\ None \notin Proc \cup Key \cup ServerKey \cup Identity \cup {Torn}
  /\ Torn \notin ServerKey \cup Identity
  /\ Faults \subseteq {"read error"}

VARIABLES
  server,   \* where the server's main is
  signer,   \* the key pair the server process holds
  keyFile,  \* server_key.bin
  rows,     \* table diddys: the signature of a registered key
  pinned,   \* SERVER_PUBKEY
  pc,       \* where a client's main is
  key,      \* the key pair the client holds
  sig,      \* the signature the client holds
  line,     \* the registration on the client's connection
  file,     \* the identity files
  store     \* who has the message store next to an identity file open

(* Ghost variables, read by properties only. *)
VARIABLES
  made,     \* key pairs generated so far, of clients and of servers
  hit       \* keys whose registration a crash or a lost connection cut short,
            \* or saved while another client was about to write the same file

serverSide == <<server, signer, keyFile, pinned>>
clientSide == <<pc, key, sig, file, store>>
ghosts     == <<made, hit>>
vars == <<serverSide, rows, clientSide, line, ghosts>>

TypeOK ==
  /\ server \in {"down", "saving", "up"}
  /\ signer \in ServerKey \cup {None}
  /\ keyFile \in ServerKey \cup {None, Torn}
  /\ rows \in [Key -> ServerKey \cup {None}]
  /\ pinned \in ServerKey \cup {None}
  /\ pc \in [Proc -> {"off", "enrolling", "asking", "saving", "opening",
                     "ready"}]
  /\ key \in [Proc -> Key \cup {None}]
  /\ sig \in [Proc -> ServerKey \cup {None}]
  /\ line \in [Proc -> {"closed", "asked", "granted", "success", "error"}]
  /\ file \in [Path -> Identity \cup {None, Torn}]
  /\ store \in [Path -> Proc \cup {None}]
  /\ made \subseteq Key \cup ServerKey
  /\ hit \subseteq Key

Init ==
  /\ server = "down"
  /\ signer = None
  /\ keyFile = None
  /\ rows = [k \in Key |-> None]
  /\ pinned = None
  /\ pc = [p \in Proc |-> "off"]
  /\ key = [p \in Proc |-> None]
  /\ sig = [p \in Proc |-> None]
  /\ line = [p \in Proc |-> "closed"]
  /\ file = [f \in Path |-> None]
  /\ store = [f \in Path |-> None]
  /\ made = {}
  /\ hit = {}

-----------------------------------------------------------------------------
(* The server *)

\* Names that extend the operator after them are what a slip in the code would
\* make of it; no action uses them.
UsableNever(f) == FALSE

\* The content has 64 bytes.
Usable(f) == f \in ServerKey

LoadKey ==
  /\ server = "down"
  /\ Usable(keyFile)
  /\ server' = "up"
  /\ signer' = keyFile
  /\ UNCHANGED <<keyFile, pinned, rows, clientSide, line, ghosts>>

\* Any other outcome of the read, an error included: a fresh key pair, and
\* fs::write truncates the file.
GenerateKey ==
  /\ server = "down"
  /\ ~Usable(keyFile) \/ "read error" \in Faults
  /\ \E s \in ServerKey \ made :
        /\ signer' = s
        /\ made' = made \cup {s}
  /\ server' = "saving"
  /\ keyFile' = Torn
  /\ UNCHANGED <<pinned, rows, clientSide, line, hit>>

\* fs::write completes; main goes on to listen.
SaveKey ==
  /\ server = "saving"
  /\ keyFile' = signer
  /\ server' = "up"
  /\ UNCHANGED <<signer, pinned, rows, clientSide, line, ghosts>>

\* INIT.md:91-92: the printed key is copied into the client.
Pin ==
  /\ server = "up"
  /\ pinned = None
  /\ pinned' = signer
  /\ UNCHANGED <<server, signer, keyFile, rows, clientSide, line, ghosts>>

Unanswered(p) == line[p] \in {"asked", "granted"}

\* The process ends, or fs::write fails and expect() ends it.  What it sent is
\* still read; registrations without an answer are lost.
CrashServer ==
  /\ server # "down"
  /\ server' = "down"
  /\ signer' = None
  /\ line' = [p \in Proc |-> IF Unanswered(p) THEN "closed" ELSE line[p]]
  /\ hit' = hit \cup {key[p] : p \in {q \in Proc : Unanswered(q)}}
  /\ UNCHANGED <<keyFile, pinned, rows, clientSide, made>>

\* Register: the row is inserted ...
Insert(p) ==
  /\ server = "up"
  /\ line[p] = "asked"
  /\ rows' = [rows EXCEPT ![key[p]] = signer]
  /\ line' = [line EXCEPT ![p] = "granted"]
  /\ UNCHANGED <<serverSide, clientSide, ghosts>>

\* ... and the success sent; or the insert fails and an error is sent.
Reply(p) ==
  /\ server = "up"
  /\ \/ line[p] = "granted" /\ line' = [line EXCEPT ![p] = "success"]
     \/ line[p] = "asked" /\ line' = [line EXCEPT ![p] = "error"]
  /\ UNCHANGED <<serverSide, rows, clientSide, ghosts>>

-----------------------------------------------------------------------------
(* A client *)

HoldSwapped(p, k, s) ==
  key' = [key EXCEPT ![p] = s] /\ sig' = [sig EXCEPT ![p] = k]

Hold(p, k, s) == key' = [key EXCEPT ![p] = k] /\ sig' = [sig EXCEPT ![p] = s]

Goto(p, s) == pc' = [pc EXCEPT ![p] = s]

\* The process ends; what it held in memory is gone.
Stop(p) ==
  /\ Goto(p, "off")
  /\ Hold(p, None, None)
  /\ line' = [line EXCEPT ![p] = "closed"]
  /\ store' = [f \in Path |-> IF store[f] = p THEN None ELSE store[f]]
  /\ UNCHANGED <<serverSide, rows, file, made>>

\* LocalIdentity::load and unlock with the right password.  A file that cannot
\* be read or decoded, or a wrong password, ends the process: nothing changes.
Load(p) ==
  /\ pinned # None
  /\ pc[p] = "off"
  /\ file[Uses[p]] \in Identity
  /\ Hold(p, file[Uses[p]].key, file[Uses[p]].sig)
  /\ Goto(p, "opening")
  /\ UNCHANGED <<serverSide, rows, line, file, store, ghosts>>

MissingOrNot(f) == TRUE

\* fs::read reports NotFound.
Missing(f) == file[f] = None

\* load gives None, and register_with_server begins: it connects to the server
\* and asks for a password, both of which may take any time.
Enrol(p) ==
  /\ pinned # None
  /\ pc[p] = "off"
  /\ Missing(Uses[p])
  /\ Goto(p, "enrolling")
  /\ UNCHANGED <<serverSide, rows, key, sig, line, file, store, ghosts>>

\* After the prompt: the key pair is generated and sent, without another look
\* at the file.
Register(p) ==
  /\ server = "up"
  /\ pc[p] = "enrolling"
  /\ \E k \in Key \ made :
        /\ Hold(p, k, None)
        /\ made' = made \cup {k}
  /\ Goto(p, "asking")
  /\ line' = [line EXCEPT ![p] = "asked"]
  /\ UNCHANGED <<serverSide, rows, file, store, hit>>

\* No connection, no password, or the connection is gone before the send.
GiveUp(p) ==
  /\ pc[p] = "enrolling"
  /\ Stop(p)
  /\ UNCHANGED hit

GrantedWhenAsked(p) == line[p] = "asked"

Granted(p) == line[p] = "success"

\* RegistrationSuccess carries the row's signature; save() truncates the file.
ReadSuccess(p) ==
  /\ pc[p] = "asking"
  /\ Granted(p)
  /\ Hold(p, key[p], rows[key[p]])
  /\ line' = [line EXCEPT ![p] = "closed"]
  /\ file' = [file EXCEPT ![Uses[p]] = Torn]
  /\ Goto(p, "saving")
  /\ UNCHANGED <<serverSide, rows, store, ghosts>>

\* The error, or recv_message fails: register_with_server returns Err.
ReadError(p) ==
  /\ pc[p] = "asking"
  /\ line[p] \in {"error", "closed"}
  /\ Stop(p)
  /\ UNCHANGED hit

\* The server may come to have a row whose key is in this client's memory only.
Registering(p) == pc[p] \in {"asking", "saving"}

\* Another client that was started on the same file has found none, and writes
\* it unless it ends before.
Contested(p) ==
  \E q \in Proc \ {p} :
    Uses[q] = Uses[p] /\ (pc[q] = "enrolling" \/ Registering(q))

SavedNever(p) == UNCHANGED file

Saved(p) == file' = [file EXCEPT ![Uses[p]] = [key |-> key[p], sig |-> sig[p]]]

\* fs::write completes: "identity saved".
Save(p) ==
  /\ pc[p] = "saving"
  /\ Saved(p)
  /\ hit' = IF Contested(p) THEN hit \cup {key[p]} ELSE hit
  /\ Goto(p, "opening")
  /\ UNCHANGED <<serverSide, rows, key, sig, line, store, made>>

\* MessageDb::open; sled lets one process in.
OpenStore(p) ==
  /\ pc[p] = "opening"
  /\ store[Uses[p]] = None
  /\ store' = [store EXCEPT ![Uses[p]] = p]
  /\ Goto(p, "ready")
  /\ UNCHANGED <<serverSide, rows, key, sig, line, file, ghosts>>

StoreLocked(p) ==
  /\ pc[p] = "opening"
  /\ store[Uses[p]] # None
  /\ Stop(p)
  /\ UNCHANGED hit

Quit(p) ==
  /\ pc[p] = "ready"
  /\ Stop(p)
  /\ UNCHANGED hit

CrashClient(p) ==
  /\ pc[p] # "off"
  /\ Stop(p)
  /\ hit' = IF Registering(p) THEN hit \cup {key[p]} ELSE hit

LoseConnection(p) ==
  /\ line[p] # "closed"
  /\ line' = [line EXCEPT ![p] = "closed"]
  /\ hit' = hit \cup {key[p]}
  /\ UNCHANGED <<serverSide, rows, clientSide, made>>

-----------------------------------------------------------------------------

Next ==
  \/ LoadKey \/ GenerateKey \/ SaveKey \/ Pin \/ CrashServer
  \/ \E p \in Proc :
       \/ Insert(p) \/ Reply(p)
       \/ Load(p) \/ Enrol(p) \/ Register(p) \/ GiveUp(p)
       \/ ReadSuccess(p) \/ ReadError(p) \/ Save(p)
       \/ OpenStore(p) \/ StoreLocked(p) \/ Quit(p)
       \/ CrashClient(p) \/ LoseConnection(p)

Spec == Init /\ [][Next]_vars

-----------------------------------------------------------------------------
(* Properties *)

\* Whoever got past registration or unlocking is known to the server under the
\* very signature he presents: rows are inserted before they are confirmed, and
\* no crash of either side in between leaves a client that believes more.
EnrolledIsKnown ==
  \A p \in Proc : pc[p] \in {"saving", "opening", "ready"} =>
    sig[p] # None /\ rows[key[p]] = sig[p]

\* INIT.md:19-20, the server is the only trust root and every client has its
\* key compiled in: through crashes of the server at any point, also while it
\* first writes its key file, it goes on signing with the pinned key, so peers
\* accept every registered client.
SignedAsPinned ==
  pinned # None =>
    /\ signer # None => signer = pinned
    /\ \A k \in Key : rows[k] # None => rows[k] = pinned

\* A key that is registered and that nobody holds any more, in memory or in a
\* file, is one whose registration was cut short by a crash or a lost
\* connection, or contested: when it was saved, another client was between
\* finding the same file missing and writing it, be it at its password prompt.
\* The orderly course of things makes none.
Holder(k) ==
  \/ \E p \in Proc : key[p] = k
  \/ \E f \in Path : file[f] \in Identity /\ file[f].key = k

OrphansAreCutShort ==
  \A k \in Key : rows[k] # None => Holder(k) \/ k \in hit

\* main.rs:198, "identity saved": whoever is at the prompt finds his identity
\* in the file when he starts again, unless it was contested when it was saved:
\* save() does not look, and the lock of the message store comes too late.
SavedIsKept ==
  \A p \in Proc : pc[p] = "ready" =>
    \/ file[Uses[p]] = [key |-> key[p], sig |-> sig[p]]
    \/ key[p] \in hit

\* What verify_peer takes for a registered peer: whatever row VerifyResponse
\* was made of, its signature is not looked at.
TakenForPeer(p, k) ==
  pc[p] = "ready" /\ server = "up" /\ k # key[p] /\ rows[k] # None

\* INIT.md:57, a client that looks up a peer verifies the row's signature with
\* the server key it was built with.
PeersAreVerified ==
  \A p \in Proc : \A k \in Key : TakenForPeer(p, k) => rows[k] = pinned

=============================================================================
