--------------------------- MODULE ConfigManager ---------------------------
(***************************************************************************)
(* The credentials on disk (ConfigManager.cpp): me.info holds the client's *)
(* name, UUID and private key on three lines, priv.key holds the private    *)
(* key again.  Both are written with ofstreams whose write errors nobody    *)
(* looks at, one file after the other, and outlive the process that wrote  *)
(* them.                                                                   *)
(***************************************************************************)
EXTENDS Protocol

VARIABLES
    meInfo,   \* me.info: a record; uuid = Absent: no file, uuid = Torn: a file
              \* that ends before its third line, which loadClientInfo refuses
    privKey   \* priv.key: a key, Torn, Empty or Absent

diskVars == <<meInfo, privKey>>

Info(name, uuid, key) == [name |-> name, uuid |-> uuid, key |-> key]

NoInfo   == Info(Absent, Absent, Absent)
TornInfo == Info(Torn, Torn, Torn)

DiskTypeOK ==
    /\ meInfo \in [name : Names \cup {Absent, Torn},
                   uuid : Procs \cup {Absent, Torn},
                   key  : Procs \cup {Absent, Torn}]
    /\ meInfo.uuid \in Procs => meInfo.name \in Names
    /\ privKey \in Procs \cup {Absent, Empty, Torn}

DiskInit ==
    /\ meInfo = NoInfo
    /\ privKey = Absent

-----------------------------------------------------------------------------
\* hasClientInfo: me.info exists.
hasClientInfo == meInfo.uuid # Absent

\* loadClientInfo returns true: three lines, the second one a UUID.
loadClientInfo == meInfo.uuid \in Procs

\* Mutation of loadPrivateKey: a missing or empty file is as good as a key.
loadPrivateKeyAny == privKey

\* loadPrivateKey: the first line of priv.key, nullopt if missing or empty.
loadPrivateKey == IF privKey \in {Absent, Empty} THEN Nil ELSE privKey

\* privKeyOpt.value_or(clientInfo.privateKeyBase64)
chosenKey(privKeyOpt) == IF privKeyOpt # Nil THEN privKeyOpt ELSE meInfo.key

-----------------------------------------------------------------------------
(* saveClientInfo, one action per step that a crash can separate *)

\* std::ofstream meFile(meInfoPath, trunc)
openMeInfo == meInfo' = TornInfo /\ UNCHANGED privKey

\* meFile << ...; meFile.close()
writeMeInfo(name, uuid, key) == meInfo' = Info(name, uuid, key) /\ UNCHANGED privKey

\* The same, when the disk takes only a prefix: it ends before the third line,
\* or inside it.
tearMeInfo(name, uuid) ==
    /\ meInfo' \in {TornInfo, Info(name, uuid, Torn)}
    /\ UNCHANGED privKey

\* std::ofstream keyFile(privKeyPath, trunc)
openPrivKey == privKey' = Empty /\ UNCHANGED meInfo

\* keyFile << privateKeyBase64; keyFile.close()
writePrivKey(key) == privKey' = key /\ UNCHANGED meInfo

\* The same, when the disk takes only a prefix.
tearPrivKey == privKey' \in {Empty, Torn} /\ UNCHANGED meInfo

-----------------------------------------------------------------------------
(* removeClientInfo, one action per file; a failed removal is ignored *)

removeMeInfo  == meInfo' = NoInfo /\ UNCHANGED privKey
removePrivKey == privKey' = Absent /\ UNCHANGED meInfo
=============================================================================
