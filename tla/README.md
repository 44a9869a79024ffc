# DefensiveClient: a TLA+ model, its checks and its proofs

DefensiveClient is a command-line client that registers with a server, or
reconnects to it with credentials it saved earlier, and uploads a list of files,
each encrypted with AES and verified by a POSIX CRC. This directory models the
client, the files it leaves on disk, its connection and the server it talks to.
TLC checks the model on small instances and TLAPS proves part of it for every
instance.

## The system

| Component (source) | State | Operations |
|---|---|---|
| `TransferClient` | client ID, AES key; the locals of one run | `run`, `authenticate`, `tryReconnect`, `registerAndExchangeKeys`, `receiveResponse`, `sendSingleFile`, `transferAndVerify` |
| `ConfigManager`, credentials | `me.info` (name, UUID, private key), `priv.key` (private key again); both outlive the process | `hasClientInfo`, `loadClientInfo`, `loadPrivateKey`, `saveClientInfo`, `removeClientInfo` |
| `ConfigManager`, job | `transfer.json`: server, port, client name, files | `loadTransferInfo` |
| `HexConverter` | none | `toHex`, `toBytes` |
| `Protocol` | none | `PacketBuilder`, `PacketParser`: codes, sizes, byte layout |
| `NetworkClient` | one TCP socket | `connect`, `send`, `receiveExact`, `disconnect` |
| `CryptoHelper` | RSA key pair | `generateRsaKeys`, `loadPrivateKeyBase64`, `decryptAesKey`, `encryptAesCbc` |
| `EncryptedFile` | none | `createEncryptedFile`, `memcrc` |
| `Main` | none | exit status 0 exactly when `run` returns true |
| the server (not in the repository) | known clients and public keys; received files | answers 825-828, 900 and 902; takes 901 without an answer |

The client has one thread and no timeouts, neither on reads nor on writes. What makes it hard is what lies
between its steps:

- **Crashes.** The credentials are two files, written one after the other without
  a temporary file or a rename, and removed one after the other. A process that
  dies in between leaves a combination nobody wrote on purpose, and the next
  process decides by that combination whether to reconnect and with which key.
- **Write errors.** Nobody looks at the streams after the writes, and failed
  removals are ignored: torn and stale files are silent.
- **The network.** `send` returning true says that the kernel has the bytes; it does not return
  while the server does not read and the buffers on the way are full. A
  request may be lost, or be handled after the process that sent it is gone,
  which matters for 826 (the public key) and 900 (the confirmation).
- **A protocol without request numbers.** 901 has no response, the other requests
  have one. The client and the server must agree on who speaks next.
- **Verification and retries.** A file is sent up to four times; only a file whose
  CRC matched may be confirmed, and a run may report success only when every file
  was.
- **What the server says.** Sizes, codes and client IDs are checked before use.
- **Bytes.** TCP cuts responses anywhere; names and keys are cut or padded to their fields;
  sizes are cast to 32 bits, a port to 16; a checksum depends on the width of `long`.
- **Other programs.** A second copy of the client may run in the same directory, and a listed
  file may change while it is read. Nothing locks anything.

`PROJECT.json` lists these hazards one by one, each at its line, with the
properties that would catch it.

## Modules

| Module | What it is |
|---|---|
| `ProtocolCodes` | codes and field sizes (`Protocol.h`) |
| `Protocol` | requests and responses as records, for `System` |
| `NetworkClient` | the socket, and what is in flight in each direction |
| `ConfigManager` | `me.info` and `priv.key`, one operator per step that a crash can separate |
| `CryptoHelper` | what the RSA operations return |
| `TransferClient` | EXTENDS the three above: the runs of the program, one action per stretch of code between two points where the run blocks or a crash makes a difference |
| `Server` | EXTENDS `NetworkClient`: the server, well behaved and not |
| `System` | composes `TransferClient` and `Server`; `Init`, `Next`, `Spec`, `FairSpec` and the properties |
| `FileTransfer` | the abstract specification of what a run promises; `System` maps itself to it (`PromiseKept`) |
| `Overlap` | EXTENDS `System`: the same runs, but several at a time in one directory |
| `Packets` | every builder and parser of `Protocol.cpp` byte by byte |
| `RequestStream` | EXTENDS `Packets`: the client's requests on one connection, and a server that reads them by their headers |
| `ResponseStream` | EXTENDS `Packets`: `receiveResponse` and `receiveExact`, over segments of any size |
| `ResponseFifo` | the abstract specification of a connection: a queue of whole responses; `ResponseStream` maps itself to it (`IsFifo`) |
| `Connection` | composes `RequestStream` and `ResponseStream`: both directions of one connection |
| `HexCodec`, `InfoText` | `toHex` and `toBytes`; the two credential files as text, mapped to the records of `ConfigManager` (`IsConfigManager`) |
| `JobFile` | `loadTransferInfo`, check by check |
| `EncryptedFile` | `createEncryptedFile`, beside another program that changes the file |
| `Cksum` | `memcrc`, its table, and the division of polynomials that it is meant to be |
| `FilePreparation` | composes `EncryptedFile` and `Cksum` |
| `SystemProofs` | types, names and keys: `TypeCorrect`, `IdentityKept`, `KeysAgree` |
| `TransferProofs` | EXTENDS `SystemProofs`: the conversation and the files, and the refinement of `FileTransfer` |
| `RecoveryProofs` | EXTENDS `TransferProofs`: only faults fail a run, and good credentials stay |
| `OverlapProofs` | EXTENDS `TransferProofs`: what of it holds of overlapping runs |
| `ConnectionProofs` | the byte codecs, the requests, and the refinement of `ResponseFifo` |
| `InfoTextProofs` | the hex codec and the text of `me.info`, and the refinement of `ConfigManager` |
| `FilePreparationProofs` | `createEncryptedFile` and `memcrc`: buffers, blocks, and the division by the POSIX generator |
| `JobFileProofs` | the verdict and the list of files |
| `MC*` and the `.cfg` files | instances for TLC |

The levels fit together as follows. `System` takes for granted that a call of `receiveResponse`
returns the next whole response or nothing: `ResponseFifo` says so and `ResponseStream`
implements it. It takes for granted that the server receives the request the client meant:
`RequestsUnderstood`. It has the credential files as records with a few torn forms: `InfoText`
shows that no text that a cut write can leave reads as anything else. It takes the content and
the checksum of a file for one value, and its ciphertext for one that the server can decrypt:
`StableFileExact`, `IsPosixCksum` and `WholeBlocks`, whose exception, an empty file that cannot be
encrypted, it leaves out. It takes the job
from `loadTransferInfo`: `JobFile`.

### What stands for what

An element `p` of `Procs` is one execution of `main`. A run opens one connection,
registers at most once and generates at most one key pair, so the same `p` also
names its connection, the UUID the server assigns on it, the RSA key pair it
generates and the AES session key of the connection. `meInfo.uuid = p` reads "the
UUID that run `p` was given"; `privateKey[q] = p` reads "run `q` holds the private
key that run `p` generated". In `System` runs follow one
another (`LoadTransferInfo` waits until no run is active), in `Overlap` they do not; a run
that crashes is `crashed`, and the restart is another element of `Procs`.

A path stands for the file's content, its ciphertext and its CRC: the CRC is taken
to be free of collisions, and `Garbled` is content that has the CRC of no file.

`me.info` is a record whose `uuid` is `Absent` when there is no file and `Torn`
when the file ends before its third line, so that `loadClientInfo` refuses it; a
third line cut short is `key = Torn`. `priv.key` is `Absent`, `Empty`, `Torn` or a
key. A torn key is not a key: the base64 text was cut, so the DER sequence in it is
shorter than its header says and Crypto++ throws.

`socket[p] = "down"` is a socket that is still open in the client while the
connection is gone. A write to it may still be accepted (`Send` goes on and the
request is lost) or fail (`sendFails`); a read takes what had arrived and then
fails. When a connection breaks any suffix of what is in flight, in each direction,
is lost. `Exit` is every way out of `main`: the destructor of `NetworkClient` closes
the socket on all of them.

`pc[p]` is the place of run `p` in the code:

| `pc` | code |
|---|---|
| `idle`, `connect`, `authenticate` | `run`, `authenticate` |
| `tryReconnect`, `loadClientInfo`, `awaitReconnect` | `tryReconnect`: before `loadPrivateKey`, before `loadClientInfo`, in `receiveResponse` |
| `removeMeInfo`, `removePrivKey` | `removeClientInfo` |
| `register`, `awaitRegistration`, `sendPublicKey`, `awaitAesKey` | `registerAndExchangeKeys` |
| `openMeInfo`, `writeMeInfo`, `openPrivKey`, `writePrivKey` | `saveClientInfo` |
| `authenticated`, `nextFile` | `run`, after `authenticate`; the loop over the files |
| `sendFile`, `awaitCrc`, `awaitConfirmation`, `awaitAbort` | `transferAndVerify` |
| `succeeded`, `failed`, `crashed` | exit status 0, exit status 1, killed |

The code between two of these points runs as one action. That loses no behaviour
that matters: it touches memory of its own only, or one file, or hands one message
to the kernel, and a crash in its midst leaves the same disk and network as a crash
at one of its ends.

`hit` is an observation, not state of the program: the runs that met a fault. So is
`rejected`, the IDs whose reconnect the server ever rejected.

**Overlapping runs.** `Overlap` replaces three actions: a run may start beside others, and a
removal fails while another process holds the file open, as it does on Windows: always between the
opening and the closing of a writer, and possibly while a reader is at the step that reads it. It assumes that
writes take everything (`WholeWrites`), because two writers then leave what the last one wrote:
both truncate and write from the start; `me.info` is read only to its third line feed, and what
a longer key leaves behind a shorter one in `priv.key` lies behind the end of the DER sequence.
`RunRecovers` and `SavedIdentityKept` are not claimed of overlapping runs: they are false.

**Bytes.** `BYTE`, the number of values of a byte, is 200 where TLC computes 32-bit sizes, so
that `BYTE^4` fits TLC's own integers; the code uses shifts and masks only in the little-endian
helpers, which are division and remainder by `BYTE`. A packet is its bytes up to the content of a
file and the length of that content: the bytes of a ciphertext are never looked at. `Segments`
are the most that one read from the socket returns. A read takes bytes of the first response that is
not read to its end (`responses`, `pos`) and never of the next: a call wants a header, then the
payload that this header announces, and the server writes as many bytes as it announces. `taken`
is an observation: what the current call has read to the end. What the server can make of a name that
does not fit its field is `cut`: the C string in the bytes that fit, which ends at a zero. `JobFile` takes an int of 18 bits (`INT`) for the
same reason; its ports reach beyond it. A key that is missing and one of another type are two values
(`Missing`, `Other`) of the root, the `server` object, each of its keys and `files`; any string passes for
an `ip`. `Cksum` has an `unsigned long` of 32 or 64 bits as the set of the positions of its bits that are set. In
`EncryptedFile` a piece of the file is whatever is read at once; the pair of a content and a padding
stands for the ciphertext, and `None` for the empty one by which `encryptAesCbc` reports a failure: a wrong key, or
an exception of Crypto++, which may come at any call. `sizedAs` and `kept` are observations: the content whose size was
taken, and whether the file has begun with it ever since.

**Text.** `InfoText` writes character by character, so that a crash, a full disk and a save
that goes well are the same action stopped at different places. `me.info` is opened in text
mode; what Windows makes of that is not modelled: the translation of line ends, and a character 0x1A, which ends
the input, so that a client name with one in it makes `me.info` unreadable as one with a newline does.
`toBytes` rests on `std::strtol`, which also takes a digit behind a blank of any kind, `"+5"` and `"-0"` for
a byte (`isByte`): a damaged UUID can therefore be read as another one, but not one cut short.

### Faults

`Faults` chooses the kinds of fault that may happen: `config` (no valid
`transfer.json`), `crash`, `disk` (open, write or removal fails), `file` (a listed
file cannot be read or encrypted), `link` (no connection, or it breaks), `corrupt`
(the server has other content than was sent), `refuse` (1601 or 1607 instead of an
answer) and `faulty` (where a response is due, any response: any code, ID, size,
key or CRC).

### The server

The server is not in the repository. It is modelled from how the client uses it:
1600 assigns a fresh ID; 1602 and 1605 carry the session key under the public key it
holds; a reconnect is approved exactly when it knows the ID under that name and has a
public key for it, and rejected (1606) otherwise; 1603 reports what it decrypted; 900
and 902 are answered with 1604 and 901 with nothing; a file replaces one of the same
name. Requests of one connection are handled in order, those of different connections
in any order, even after the client is gone.

## Properties

| Property | What it says |
|---|---|
| `TypeOK` | types, and requests and responses that are well formed |
| `KeyAgreement` | past `authenticate`, the run has the AES key the server uses, whatever was left on the disk |
| `IdentityConsistent` | a reconnect request names the client as it registered |
| `RunRecovers` | a run fails only through a fault of its own, never through what an earlier run left behind |
| `SavedIdentityKept` (action property) | credentials that the server knows, and has never rejected, are not replaced or removed |
| `Lockstep` | exactly one request or response is under way while the run waits, none while it does not |
| `VerifiedIntact` | what was confirmed to the server is what the client read |
| `KeptUnlessReplaced` | the files the loop has moved past are on the server, confirmed and intact, but for one whose name a later file of the list has taken |
| `PromiseKept` (refinement) | the system implements `FileTransfer`: files arrive one by one in the order of the list, and success means all of them (lists of files with names of their own) |
| `Termination` (liveness) | if the server reads and handles every request, every run ends |
| `OnlySilenceBlocks` (liveness) | a run that does not end stays for ever in one call on an open connection: in `receiveExact` with nothing to read and a request with the server that it has to answer, or in `send` with bytes that the server does not take |
| `TransfersShareKey` | also under overlap, a run gets to its files only with the server's session key |
| `StableFileExact` | what is encrypted is what the file had when its size was taken, as long as that stays, be it with more behind it |
| `WholeBlocks` | what is sent of a file is whole blocks and longer than the file; the one exception is an empty file whose encryption fails |
| `IsPosixCksum` | `memcrc` is the remainder that POSIX defines, for both widths of `long` |
| `RegisterIsRemainder` | after every byte the register of `memcrc` is the remainder so far, and its complement is what is returned |
| `IndexInTable` | the table is never read past its end |
| `Framed` | the server is never put out of step by a request |
| `RequestsUnderstood` | it understands each one as the client meant it, in order |
| `PayloadsUnderstood` | what the parsers return is what the server reported |
| `IsFifo` (refinement) | `receiveResponse` returns the server's responses whole, in order, each at most once, and nothing after a failure |
| `NoHugeRead` | no call waits for more bytes than the largest response has |
| `EchoWithinPayload` | the client ID is compared only with payloads that have one |
| `WholeLoads` | what `saveClientInfo` wrote to the end is what `loadClientInfo` reads |
| `IsConfigManager` (refinement) | wherever a write ends, the text reads as the records of `ConfigManager` |
| `VerdictExact` | `loadTransferInfo` accepts exactly the files that have every key it needs, of its type and in its range, for ports that fit an int, and hands on what they have |
| `PathsListed` | the run gets every path of the list, in order, and nothing else |

`SavedIdentityKept` speaks of credentials whose `priv.key` is whole. It is not true of
credentials whose `priv.key` is torn while line 3 of `me.info` is whole: `tryReconnect`
falls back to line 3 only if `priv.key` is missing or empty, so these are discarded
although they would have worked.

## Runs

| Run | Bounds | States | Shows |
|---|---|---|---|
| `auth` | 3 runs, 2 names, no files; crash, disk | 519 214 | the credentials survive every crash and disk error |
| `transfer` | 2 runs, lists of 2 and 3 files, the third named like the first, 4 attempts; config, crash, file, link, corrupt | 305 411 | the transfer, and the refinement of `FileTransfer` |
| `terminates` | 2 runs, 1 file, 2 attempts; every fault but `refuse` and `faulty`, and a server that stops reading or answering | 316 496 | runs end, or wait for their server |
| `faulty` | 2 runs, 1 file, 1 attempt; faulty | 691 086 | runs end, whatever the server answers |
| `overlap` | 3 overlapping runs, 2 names, no files; crash | 704 452 | what holds of runs in one directory |
| `prepare_file` | buffers of up to 257 bytes, 2 changes, both widths of `long` | 313 566 | `createEncryptedFile` and `memcrc` |
| `connection` | 2 requests of any kind, 2 responses of 8 kinds, segments of 6 bytes or of any length | 153 160 | both directions of a connection |
| `info_text` | 2 identities, 2 names, 2 saves | 7 182 | the credential files as text |
| `job_file` | every key missing or of another type, ports and name lengths at all limits, lists of up to 3 entries | 163 895 | the validation of `transfer.json` |
| `wedged`, `short_read`, `port_wraps` | | | the disagreements below |

Three runs are what the disk hazards need: one leaves a stale key, one leaves its own
identity next to it, one finds both. Two names make a changed `transfer.json` possible.
Runs and names are interchangeable in the runs without liveness, which use symmetry. Two files
tell the first from the last, a third can take the name of the first with one in between, four
attempts are the program's own bound, and two are enough to retry and to give up. Two
requests and two responses are what it takes for one to be read from within another. The buffers
of `prepare_file` reach every entry of the table, both sides of a block, and lengths of one and of
two bytes; those that are changed have up to three bytes. The files of `connection` have names that just
fit and that just do not, and the largest content whose size a header can hold. Deadlock is
checked in every run: a disjunct such as `AllDone`, `Over`, `Returned` or `Rest` lets a system rest
only where it has ended.

**Fairness** (`FairSpec`): weak fairness of each run's own steps (`ProcessStep`): a process that can run
is scheduled, what has arrived is delivered, and a connection that has broken is reported. The return of a write to
a live connection is not among these steps: `boost::asio::write` has no timeout, so a run whose next step is a
write may stay inside it as long as the server does not read. Nothing obliges the server to read or to
answer. `Termination` assumes it (`ServerAnswers`: weak fairness of reading, by which a write returns, or
properly handling a request, `ServerWorks`, where a faulty answer counts as an answer), and
`OnlySilenceBlocks` says what happens without: a run that goes round in circles, or waits for an answer
that nobody owes it, violates it. Faults are never obliged to happen.

Every property of a passing run is paired in `PROJECT.json` with a mutation of a modelled
definition, a mistake someone could make in that code, that makes TLC find it violated.

### Disagreements between the code and its comments

Three are shown by runs:

- **`wedged`**: `TransferClient.h:42` says that `needsRegistration` is set "if reconnect is rejected
  or credentials are bad". Two registrations at the same time can leave one run's `me.info`
  beside the other's `priv.key`, both known to the server. From then on every run is approved,
  cannot decrypt its session key (`TransferClient.cpp:182` stores the empty vector and reports success),
  fails in `run` and leaves the files as they are.
- **`short_read`**: `EncryptedFile.cpp:491` says "Read full file content". A file that shrinks between
  `file_size` and `read` is checksummed, encrypted and confirmed with zeros it never had:
  nobody looks at `gcount`.
- **`port_wraps`**: `ConfigManager.cpp:107` says "Port boundary validation (1 to 65535)". `get<int>`
  wraps an integer beyond 32 bits first: 4294967376 is port 80.

Others were met while modelling and need no run to see:

- `TransferClient.h:57` promises that `authenticate` returns true only with an AES key. It returns
  true with an empty one if the key in the response cannot be decrypted (`TransferClient.cpp:128`, `:182`);
  `run` notices one step later.
- `TransferClient.h:84-85` promises that `run` returns true if the transfer completed. With no files
  listed, as in the repository's own `transfer.json`, nothing is transferred and it returns true.
- `TransferClient.cpp:135` calls `priv.key` the source of truth for the private key. After a crash at
  the right moment it holds the key of another identity while line 3 of `me.info` holds the right
  one. `KeyAgreement` and `RunRecovers` say that this does no harm as long as runs follow one another:
  such an identity has no public key at the server yet, which rejects it.
- `TransferClient.h:30-33` says that `receiveResponse` checks the server version; it prints a warning
  (`TransferClient.cpp:36`).
- `Protocol.cpp:45-46` has the payload size in the header; for a ciphertext of more than
  2^32 - 1 - 267 bytes `payloadSize` wraps (`:113`) and the server loses the stream. `Framed` holds up to
  there.
- `ConfigManager.cpp:67-70` says that `loadTransferInfo` validates schema and types; a `files` key that is
  no array, and entries that are no strings, are skipped without a word (`:114-118`).
- `EncryptedFile.cpp:469` has `createEncryptedFile` return `std::nullopt` on failure. An encryption that fails
  is recognised by an empty ciphertext, but not for an empty file (`:504`): should Crypto++ throw there, an empty
  ciphertext is sent without its block of padding. `WholeBlocks` names it as its one exception.

## Proofs

27 theorems are proved. Those about `System` hold for any sets of runs, names and files, any
bound on the attempts and any file lists, and assume `NamesAssumption` (the invented values `Nil`,
`Torn`, ... are not names of anything) and `ClientAssumption` (the types of the constants).

| Theorem | States | Module | Besides |
|---|---|---|---|
| `TypeCorrect` | `TypeOK` of `System` | `SystemProofs` | every fault |
| `IdentityKept` | `IdentityConsistent` | `SystemProofs` | not `faulty` |
| `KeysAgree` | `KeyAgreement` | `SystemProofs` | not `faulty` |
| `ClientAndServerInLockstep` | `Lockstep` | `TransferProofs` | not `faulty`, not `refuse` |
| `ConfirmedFilesIntact` | `VerifiedIntact` | `TransferProofs` | not `faulty` |
| `PassedFilesKept` | `KeptUnlessReplaced` | `TransferProofs` | not `faulty` |
| `RunsKeepPromise` | `PromiseKept` | `TransferProofs` | not `faulty` |
| `OnlyFaultsFail` | `RunRecovers` | `RecoveryProofs` | not `faulty` |
| `GoodIdentityKept` | `SavedIdentityKept` | `RecoveryProofs` | not `faulty` |
| `OverlapSharesKey` | `TransfersShareKey` | `OverlapProofs` | not `faulty` |
| `OverlapIdentityKept` | `IdentityConsistent`, of `OverlapSpec` | `OverlapProofs` | not `faulty` |
| `OverlapFilesIntact` | `VerifiedIntact`, `KeptUnlessReplaced`, of `OverlapSpec` | `OverlapProofs` | not `faulty`; no run checks it, `overlap` has no files |
| `SizesTrusted`, `EchoFits` | `NoHugeRead`, `EchoWithinPayload` | `ConnectionProofs` | |
| `RequestsFramed`, `RequestsAsMeant` | `Framed`, `RequestsUnderstood` | `ConnectionProofs` | `FilesFit` |
| `ResponsesInOrder` | `IsFifo` | `ConnectionProofs` | |
| `ReportsAsMeant` | `PayloadsUnderstood` | `ConnectionProofs` | `ServerReports` |
| `BufferFits`, `FileExact`, `CiphertextWhole` | `TypeOK`, `StableFileExact`, `WholeBlocks` of `FilePreparation` | `FilePreparationProofs` | |
| `RegisterDivides`, `TableKept` | `RegisterIsRemainder`, `IndexInTable` | `FilePreparationProofs` | |
| `WholeInfoLoads` | `WholeLoads` | `InfoTextProofs` | |
| `TextIsRecords` | `IsConfigManager` | `InfoTextProofs` | `NamesOnOneLine` |
| `VerdictIsExact`, `PathsInOrder` | `VerdictExact`, `PathsListed` | `JobFileProofs` | |

The hypotheses are what makes the statements true, and no more:

- A server that answers with whatever it likes (`faulty`) may assign an ID it has given away, send
  somebody else's session key, or confirm what it never received; the client cannot tell.
  `TypeCorrect` and everything in `ConnectionProofs` hold of it as well.
- With `refuse`, a server may also answer a 901, which no client waits for; its 1607 is then taken for
  the answer to the file that follows. `Lockstep` is false there. What `TransferProofs` says of the files
  is not: the run ends at the first refusal it reads.
- `FilesFit`: the size of every file is below 2^32 and so is that of its ciphertext with the metadata. Nothing in the
  client checks it (see the disagreements); `Framed` is false without it.
- `ServerReports`: the payloads of 1602, 1603 and 1605 are laid out as the protocol says. That is an
  assumption about the server; the theorem says that the parsers invert it.
- `RequestStreamAssumption`, `ResponseStreamAssumption`: IDs have 16 bytes and public keys 160, as the code's own
  types and checks have it; a response has a code of 16 bits and fewer than 2^32 bytes of payload. `ByteAssumption`: there
  are more than 41 bytes, so that every code fits in two and every fixed size in four.
- `InfoTextAssumption`: UUIDs are 16 bytes and distinct, names are distinct, names and keys are not empty, a Base64
  key has no newline (`generateRsaKeys` turns line breaks off), and no key begins with another: it
  encodes a DER sequence, which begins with its length.
- `NamesOnOneLine`: no client name has a newline. `loadTransferInfo` lets such a name pass, and what it makes
  of `me.info` is among the hazards; with it the text is no record.
- `EncryptedFileAssumption` (contents are sequences), `FilePreparationAssumption` (what `memcrc` takes one at
  a time is a byte), `CksumAssumption` (an `unsigned long` has 32 or 64 bits).
- `JobFileAssumption`: an int holds a port; a value of another type, and none, are no integer, string or array.

### The arguments

**TypeOK** is not inductive: the request that carries a file is well formed only if the loop index
is within the list, the one that carries a public key only if there is one. The invariant proved is
`TypeInv`, which is `TypeOK /\ ControlOK`; `ControlOK` says what a run has in hand at each point.
There is one lemma per group of actions (start, authentication, responses, registration, transfer, faults,
server), one step per action, on top of lemmas about the messages (every builder yields a request,
every reply a response) and about `Send`, `Receive` and `Exit`.

**IdentityConsistent** needs the whole way of a name (`IdentityInv`): from the run into 825
(`RequestNames`), to the server's registry (`RegistryNames`), back as 1600 (`ResponseNames`), into
the run that is about to save it (`SavingNames`), into `me.info` (`DiskNames`), and from there into
827 of a later run. A registered name never changes: the server may still read 825 after the run is
gone, and `FreshClients` says that a run that has not started has nothing under way.

**KeyAgreement** rests on `KeyInv`. A client is *announced* once 826 is on its way or at the server.
Since `saveClientInfo` writes both files before 826 is sent, an announced identity in `me.info` never
has another identity's whole key beside it in `priv.key` (`DiskKeys`): `priv.key` may only have been
torn, emptied or removed since, and line 3 of `me.info` is then used. An identity that does have
another's key beside it (a crash between the two files) is not announced and never will be, because the run
that could do it is over (`AnnouncedRuns`), so the server rejects it. `OneRunning` (runs follow one
another) is what keeps the disk still between `loadPrivateKey`, `loadClientInfo` and the answer.

Frame lemmas (`RunNames`, `OtherMoves`, `ResponseNamesKept`; `RunKeys`, `QuietRunKeys`, `MoveKeys`,
`DiskMoveKeys`, `LossKeys`, `RespondKeys`) say once what a step must leave alone; the lemmas about the
actions check only what each of them changes. `Sends(p, M)` is the effect of a step of run `p` on
what is under way.

**Lockstep, VerifiedIntact, KeptUnlessReplaced** are one invariant, `TransferInv`, about each
connection by itself (`conversation`). At most one request that has an answer is under way, the last
one (`Order`); it belongs to the point at which the run is and to the file it is at (`Requests`).
A response that is no refusal answers that request and comes last (`Refused`, `Answers`), and something
is due to a run that waits (`Due`). A 1603 tells the CRC of what is stored under the name, so a 900 that is
sent because of it confirms what is stored, and nothing overwrites that file while the 900 is on its way;
`Delivered` carries it to the end of the list. A file of the same name may overwrite it later, after
another 828: hence the exception in `KeptUnlessReplaced`. Every action is one lemma, and actions of
other runs leave `view(p)` alone.

**PromiseKept** maps each step to one of `FileTransfer`: that the server handles a 900 delivers the next
file, the end of a run is the end there, with a verdict that `Delivered` justifies, and everything
else stutters (`ClientPromise`, `ServerPromise`, `PromiseStep`).

**RunRecovers** is an invariant about runs that have met no fault (`HonestInv`): their requests and
responses are the right ones, a CRC is the one of the file, and they are never at a point from which
they fail. It needs `TransferInv` (a response answers the request) and `KeyInv` (an approved reconnect
is decrypted). **SavedIdentityKept** needs that a run about to replace credentials has found them unusable or knows
of a rejection (`DiscardInv`).

**Overlap**: `OneRunning` is gone, and with it `KeyInv`. `SessionInv` remains: whatever a run decrypts, with
whichever key, is the session key of its own connection or nothing. `TransferInv` and `IdentityInv` do
not speak of the disk while a run decides, and carry over: the steps of `Overlap` that are not
steps of `System` touch only what they do not mention.

**Requests.** The codec lemmas say that a parser undoes its builder for every value: little-endian
integers (`Uint16Read`, `Uint32Read`), padded strings (`StringRead`, `FieldRead`, and `NameRead` for names
that do not fit), headers (`HeaderRead`) and each of the requests (`NamedRead`, `KeyRead`, `FileRead`).
With them `StreamInv` says that the packets on the wire are the requests that the client means, one
for one, behind the one the server works on.

**IsFifo** rests on `FifoInv`: a call begins at the first byte of a response, its buffer is what stands
between there and `pos`, and it holds no byte of a second response, since the header it has read is the
one of the response it reads (`ResponseRead`) and `sizeAgrees` has compared its size. A read that ends
a response and one that does not, a return, and a failure in any state are each one step of the queue
or none (`FifoPuts`, `FifoTakes`, `FifoBreaks`, `FifoCalls`, `FifoStutters`). **SizesTrusted** and
**EchoFits** need only that a call never gets past a header whose size is not the one of its code, and
that the codes a caller accepts are codes of requests that have a response (`CallInv`,
`AwaitingInv`). **PayloadsUnderstood** follows from `ResultInv` (what a call returns is a response of the
server) and `CrcReportRead`, `KeyReportRead`.

**StableFileExact** rests on `StableInv`: as long as the file begins with what it had when its size was taken, the
buffer has the length of that and, up to `pos`, its pieces; `read` then cannot end short, since the file is
at least as long. **WholeBlocks** rests on `PaddingInv`, which has the two ways in which `encryptAesCbc` and the
check of its result let a file pass, and on `KeyInv`. These are proved of `EncryptedFile` and hold of `FilePreparation`, because
a step of `memcrc` leaves the other variables of the call alone (`PreparationStep`).

**RegisterIsRemainder** says that shifting by eight bits and looking up one word does what eight steps of
the division do. `isDivided` keeps, through these eight steps (`DivisionStep`, `ByteDivided`), that the dividend is the
quotient so far times `Generator`, plus the remainder; the quotient is a function of the byte at the
top (`quotient`). `TableRight` says that entry `v` of the table is the low word of `quotient(v)` times `Generator`:
256 evaluations, one a step. `NumberBits` links a byte as an index to its bits, and `ByteUpdated` puts these together
for every register of 32 bits and every byte; `CrcInv` carries it through both loops. **IndexInTable** is part of
it: the register has no bit beyond the 32 of a remainder.

**VerdictExact** rests on `CheckInv`, which keeps at each
check why the earlier ones let the file pass and, once it is refused, which of them did not, and on `GetIntExact`: an integer that fits is not changed.
**PathsListed** rests on `ListInv`: after `items` entries the list that the loop builds has as many paths as there are
among them, each at the place that its rank among them gives it (`selected`).

**WholeLoads** rests on `WriteInv` (while it is written, `me.info` is a prefix of what is saved, whatever
was there before) and on `ContentsLoad`: `std::getline` stops where each line was ended (`LineRead`,
`Layout`), and `toBytes` undoes `toHex` on every UUID (`UuidRead`).

**IsConfigManager** needs of every prefix of what is saved what it reads as. `PartRecord` says it for
`me.info`: a text that ends before its third line is refused, and any other has the name and the UUID of the save
and a key that is whole or torn (`PartRead`, `LastLine`: what is cut is the line that comes last). `KnownIdentity` finds the saved identity again among all of them, and
`KeyPart` does so for `priv.key`: a prefix of one key is no other one. `WriteInv` and `KeyInv` say that the files are
such prefixes while they are written, so that each step is one of `ConfigManager` or none (`DiskSteps`).

All invariants that the proofs rest on have been model-checked on the instances of the runs.

### Model-checked only

- `Termination` and `OnlySilenceBlocks`: liveness under fairness is out of the provers' reach.
- `IsPosixCksum`: it states the checksum of a content and its length as a fold over the bytes of the
  length. That each byte is divided rightly, and that the result is the complement of the remainder of all
  bytes that `memcrc` takes, is proved (`RegisterDivides`); that these are the content and the bytes of its
  length, least significant first, is an induction over data.
- What a refused 901 does to `Lockstep`, and the three disagreements: they are counterexamples.

## Not modelled

- Two writers of the credentials one of which fails half-way: see *Overlapping runs*.
- The ciphers, DER and Base64 (Crypto++), the JSON parser, boost. `CryptoHelper` is partly modelled for
  that reason; the server is modelled from how the client uses it.
- `printKeyBuffer` and the seven tables behind `crctab[0]`, which nothing uses; the build files; log
  output.
- The bytes of a ciphertext; the file name in 1603, which the client never looks at.
- Windows' text mode for `me.info` (line ends, and 0x1A as the end of the file), and file names that the console's code page cannot
  hold.
- A crash of the operating system that loses what it had not yet written to the disk.

## Plan

1. Done: the core, from `transfer.json` to the last file: `Protocol`, `NetworkClient`,
   `ConfigManager`, `CryptoHelper`, `TransferClient`, `Server`, `System`, `FileTransfer`;
   `TypeCorrect`, `IdentityKept`, `KeysAgree`.
2. Done: bytes and text under it, each level shown to be what the core takes it for: `Packets`,
   `RequestStream`, `ResponseStream`, `Connection`, `InfoText`, `HexCodec`, `JobFile`, `EncryptedFile`,
   `Cksum`, `FilePreparation`; overlapping runs, files of the same name, a silent server;
   `SizesTrusted`, `FileExact`, `VerdictIsExact`.
3. Done: every safety property that the provers can reach, and the refinements of `FileTransfer`,
   `ResponseFifo` and the records of `ConfigManager`; the codecs round-trip for every value; overlapping
   runs; the table and the division of `memcrc`.
4. Nothing is left that the tools can reach: see *Model-checked only* and *Not modelled*.
