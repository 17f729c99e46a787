------------------------------ MODULE FileStore ------------------------------
(***************************************************************************)
(* What AshFS promises its callers, with no blocks, inodes or sectors: a   *)
(* set of named files that survives reboots.  A call that changes a file   *)
(* takes effect at one instant between its start and its return; losing    *)
(* power leaves every file as it was before or after the interrupted call. *)
(* A result names the call it answers, so that each failure has a reason   *)
(* of its own.                                                             *)
(***************************************************************************)
EXTENDS Integers, Sequences, FiniteSets

CONSTANTS
  Names,       \* file names
  NoName,
  Payloads,    \* the contents fs_write is called with
  TooLong,     \* those of them it refuses,
  SizeOnly,    \* those of which it stores nothing but the size,
  Kept,        \* and what can be read of the others once written
  ReadSizes,   \* the buffer sizes fs_read is called with
  MAX_FILES    \* how many files fit

VARIABLES
  files,       \* name |-> the bytes that can be read
  sizes,       \* name |-> the size that is listed
  up,          \* the store is mounted
  full,        \* and has no space left
  call,        \* the call that is running, or NoCall
  ret          \* what the last call returned

vars == <<files, sizes, up, full, call, ret>>

NoCall == [op |-> "none"]
Writing(n, data) == [op |-> "write", name |-> n, data |-> data]
Finishing == [op |-> "finish"]

Returned(op, name, status, bytes, list) ==
  [op |-> op, name |-> name, status |-> status, bytes |-> bytes, list |-> list]
NoRet == Returned("none", NoName, "none", <<>>, {})

Init ==
  /\ files = [n \in {} |-> <<>>] /\ sizes = [n \in {} |-> 0]
  /\ up = FALSE /\ full = FALSE /\ call = NoCall /\ ret = NoRet

-----------------------------------------------------------------------------
Mount ==
  /\ ~up /\ up' = TRUE /\ full' \in BOOLEAN
  /\ UNCHANGED <<files, sizes, call, ret>>

Idle == up /\ call = NoCall

OK(op, n) == ret' = Returned(op, n, "ok", <<>>, {})

(* a call that fails does so for a reason, and changes no file *)
Fail(op, n, reason) ==
  /\ ret' = Returned(op, n, "error", <<>>, {}) /\ call' = NoCall
  /\ reason
  /\ UNCHANGED <<up, full, sizes, files>>

Create(n) ==
  /\ Idle /\ OK("create", n) /\ n \notin DOMAIN files
  /\ files' = [m \in DOMAIN files \cup {n} |-> IF m = n THEN <<>> ELSE files[m]]
  /\ sizes' = [m \in DOMAIN files \cup {n} |-> IF m = n THEN 0 ELSE sizes[m]]
  /\ UNCHANGED <<up, full, call>>

CreateFails(n) ==
  /\ Idle
  /\ Fail("create", n, n \in DOMAIN files \/ Cardinality(DOMAIN files) >= MAX_FILES)

Write(n, data) ==
  /\ Idle /\ call' = Writing(n, data) /\ ret' = NoRet
  /\ n \in DOMAIN files /\ data \notin TooLong
  /\ UNCHANGED <<files, sizes, up, full>>

WriteRefused(n, data) ==
  /\ Idle
  /\ Fail("write", n, data \in TooLong \/ n \notin DOMAIN files)

(* a write takes space while there is some ... *)
WriteTakesSpace ==
  /\ call.op = "write" /\ ~full /\ full' \in BOOLEAN
  /\ UNCHANGED <<call, ret, up, files, sizes>>

(* ... and fails when it needs more *)
WriteFails ==
  /\ call.op = "write"
  /\ Fail("write", call.name, full /\ call.data # <<>> /\ call.data \notin SizeOnly)

(* the instant at which the file changes *)
WriteCommits ==
  /\ call.op = "write" /\ call.data \notin SizeOnly
  /\ call' = Finishing /\ full' \in BOOLEAN /\ UNCHANGED <<up, ret>>
  /\ files' = [files EXCEPT ![call.name] = Kept[call.data]]
  /\ sizes' = [sizes EXCEPT ![call.name] = Len(call.data)]

(* the file gets the new size over its old bytes and whatever follows them *)
SizeCommits ==
  /\ call.op = "write" /\ call.data \in SizeOnly
  /\ call' = Finishing /\ UNCHANGED <<up, full, ret>>
  /\ DOMAIN files' = DOMAIN files
  /\ \A m \in DOMAIN files \ {call.name} : files'[m] = files[m]
  /\ SubSeq(files'[call.name], 1, Len(files[call.name])) = files[call.name]
  /\ sizes' = [sizes EXCEPT ![call.name] = Len(call.data)]

Delete(n) ==
  /\ Idle /\ call' = Finishing /\ ret' = NoRet
  /\ n \in DOMAIN files
  /\ files' = [m \in DOMAIN files \ {n} |-> files[m]]
  /\ sizes' = [m \in DOMAIN files \ {n} |-> sizes[m]]
  /\ full' \in BOOLEAN /\ UNCHANGED up

DeleteFails(n) == Idle /\ Fail("delete", n, n \notin DOMAIN files)

(* a write or a delete that took effect returns 0 *)
Returns ==
  /\ call = Finishing /\ call' = NoCall /\ OK("finish", NoName)
  /\ UNCHANGED <<files, sizes, up, full>>

Read(n, size) ==
  /\ Idle /\ n \in DOMAIN files
  /\ LET len == IF size < Len(files[n]) THEN size ELSE Len(files[n])
     IN  ret' = Returned("read", n, "ok", SubSeq(files[n], 1, len), {})
  /\ UNCHANGED <<files, sizes, up, full, call>>

ReadFails(n) == Idle /\ Fail("read", n, n \notin DOMAIN files)

List ==
  /\ Idle
  /\ ret' = Returned("list", NoName, "ok", <<>>, {<<n, sizes[n]>> : n \in DOMAIN files})
  /\ UNCHANGED <<files, sizes, up, full, call>>

(* the power goes: the files stay, the call is forgotten *)
PowerLoss ==
  /\ up' = FALSE /\ full' = FALSE /\ call' = NoCall /\ ret' = NoRet
  /\ UNCHANGED <<files, sizes>>

Next ==
  \/ \E n \in Names : \/ Create(n) \/ CreateFails(n)
                      \/ Delete(n) \/ DeleteFails(n) \/ ReadFails(n)
                      \/ \E size \in ReadSizes : Read(n, size)
                      \/ \E data \in Payloads : Write(n, data) \/ WriteRefused(n, data)
  \/ WriteTakesSpace \/ WriteFails \/ WriteCommits \/ SizeCommits
  \/ Mount \/ Returns \/ List \/ PowerLoss

Spec == Init /\ [][Next]_vars
=============================================================================
