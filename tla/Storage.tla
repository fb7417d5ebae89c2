------------------------------ MODULE Storage -------------------------------
(***************************************************************************)
(* The storage adapters under several calls at once, and crashes: FsAdapter*)
(* with its temporary files, the SQL databases and D1, LocalStorage, and   *)
(* any of them inside an EncryptedAdapter.                                 *)
(*                                                                         *)
(* The text of a file is the call that wrote it, and whether it was        *)
(* encrypted.  Each call is made once; what it is to do is in `adapter`.   *)
(***************************************************************************)
EXTENDS Naturals, Sequences, SequencesExt

CONSTANTS Request,    \* calls
          File,       \* names of collections
          Adapters    \* adapters and what is asked of them, see Adapter

OpKind == {"write", "writeAll", "delete", "read", "list", "cleanOrphans"}

\* staged: a write goes to a temporary file first (FsAdapter); chunk: entries
\* the database stores in one step; sealed: inside an EncryptedAdapter;
\* crashes: the process may stop; ops: the calls made, with their files.
ASSUME StorageAssumption ==
  /\ {"missing", "old", "torn", "unreadable"} \intersect Request = {}
  /\ \A ad \in Adapters :
    /\ {ad.staged, ad.sealed, ad.crashes} \subseteq BOOLEAN
    /\ ad.chunk \in Nat \ {0}
    /\ DOMAIN ad.ops \subseteq Request
    /\ \A r \in DOMAIN ad.ops :
         /\ ad.ops[r].kind \in OpKind /\ ad.ops[r].files \in Seq(File)
         /\ ad.ops[r].kind = "read" => ad.ops[r].files # <<>>
    /\ ad.staged => ad.chunk = 1

VARIABLES
  adapter,  \* which never changes
  files,    \* what each name has
  temps,    \* temporary files
  request   \* how far each call is

storageVars == <<adapter, files, temps, request>>

Missing == [by |-> "missing", sealed |-> FALSE]
Old(sealed) == [by |-> "old", sealed |-> sealed]
Written(r) == [by |-> r, sealed |-> adapter.sealed]

\* left: the files a write has yet to store or a delete to remove, or the
\* temporary files that cleanOrphans() has yet to remove; staged: how many of
\* them have a temporary file; seen: <<>> or the text read, or the names listed.
Idle == [state |-> "idle", left |-> <<>>, staged |-> 0, seen |-> <<>>]

StorageInit ==
  /\ adapter \in Adapters
  /\ files \in [File -> {Missing, Old(TRUE), Old(FALSE)}]
  /\ temps = {}
  /\ request = [r \in Request |-> Idle]

Asked(r) == adapter.ops[r]
Made == DOMAIN adapter.ops
Writes(r) == Asked(r).kind \in {"write", "writeAll"}
Left(r) == request[r].left
In(r, state) == request[r].state = state
Goes(r, state) == request' = [request EXCEPT ![r].state = state]
Fails(r) == Goes(r, "error") /\ UNCHANGED <<files, temps>>

-----------------------------------------------------------------------------
(* Calls. *)

\* The call waits for its key and its text to be encrypted, or for the table.
Call(r) ==
  /\ In(r, "idle")
  /\ request' = [request EXCEPT ![r] =
       [Idle EXCEPT !.state = "preparing",
                    !.left = IF Writes(r) \/ Asked(r).kind = "delete" THEN Asked(r).files ELSE <<>>]]
  /\ UNCHANGED <<files, temps>>

Prepare(r) ==
  /\ In(r, "preparing")
  /\ \/ /\ Goes(r, IF Writes(r) /\ adapter.staged /\ Left(r) # <<>> THEN "staging" ELSE "working")
        /\ UNCHANGED <<files, temps>>
     \/ Fails(r)

Temp(r, f, whole) == [by |-> r, file |-> f, whole |-> whole]

-----------------------------------------------------------------------------
(* FsAdapter. *)

\* Mutant: the text is written into the file itself.
OpenInPlace(r, f) ==
  /\ temps' = temps \union {Temp(r, f, FALSE)}
  /\ files' = [files EXCEPT ![f] = [Written(r) EXCEPT !.by = "torn"]]

\* writeFile(tmp) begins: the file is there, and has a part of its text.
Open(r, f) == temps' = temps \union {Temp(r, f, FALSE)} /\ UNCHANGED files

Staging(r) == Left(r)[request[r].staged + 1]

StageBegins(r) ==
  /\ In(r, "staging")
  /\ Open(r, Staging(r))
  /\ Goes(r, "filling")

\* The names in a batch are distinct, and so are the random parts of those of
\* its temporary files.  One that is gone is made anew by nobody.
StageEnds(r) ==
  /\ In(r, "filling")
  /\ temps' = {IF t = Temp(r, Staging(r), FALSE) THEN Temp(r, Staging(r), TRUE) ELSE t : t \in temps}
  /\ LET last == request[r].staged + 1 = Len(Left(r))
     IN  request' = [request EXCEPT ![r].state = IF last THEN "renaming" ELSE "staging",
                                    ![r].staged = @ + 1]
  /\ UNCHANGED files

\* write() leaves its temporary file behind, writeAll() removes the ones that
\* it completed.
GivesUp(r) == Goes(r, IF Asked(r).kind = "writeAll" THEN "unstaging" ELSE "error")

StageFails(r) ==
  /\ In(r, "staging") \/ In(r, "filling")
  /\ GivesUp(r)
  /\ UNCHANGED <<files, temps>>

\* rename(tmp, fp), one entry after the other.
Rename(r) ==
  LET f == Head(Left(r))
      t == CHOOSE u \in temps : u.by = r /\ u.file = f
  IN  /\ In(r, "renaming")
      /\ \E u \in temps : u.by = r /\ u.file = f
      /\ temps' = temps \ {t}
      /\ files' = [files EXCEPT ![f] = IF t.whole THEN Written(r) ELSE [Written(r) EXCEPT !.by = "torn"]]
      /\ request' = [request EXCEPT ![r].state = IF Len(Left(r)) = 1 THEN "ok" ELSE @,
                                    ![r].left = Tail(@)]

\* The file system refuses, or cleanOrphans() took the temporary file.
RenameFails(r) ==
  /\ In(r, "renaming")
  /\ GivesUp(r)
  /\ UNCHANGED <<files, temps>>

Unstaged(r) == {t \in temps : t.by = r /\ t.whole}

\* The staged files are removed, those that were renamed already not being
\* there; what cannot be removed stays.
Unstage(r) ==
  /\ In(r, "unstaging")
  /\ \E kept \in SUBSET Unstaged(r) : temps' = temps \ (Unstaged(r) \ kept)
  /\ Goes(r, "error")
  /\ UNCHANGED files

\* readdir(), and then unlink() of what has the name of a temporary file.
FindOrphans(r) ==
  /\ In(r, "working")
  /\ Asked(r).kind = "cleanOrphans" /\ adapter.staged
  /\ request' = [request EXCEPT ![r].state = "cleaning", 
                              ![r].left = SetToSeq({<<t.by, t.file>> : t \in temps})]
  /\ UNCHANGED <<files, temps>>

RemoveOrphan(r) ==
  /\ In(r, "cleaning")
  /\ Left(r) # <<>>
  /\ temps' \in {temps, {t \in temps : <<t.by, t.file>> # Head(Left(r))}}
  /\ request' = [request EXCEPT ![r].left = Tail(@)]
  /\ UNCHANGED files

Cleaned(r) ==
  /\ In(r, "cleaning")
  /\ Left(r) = <<>>
  /\ Goes(r, "ok")
  /\ UNCHANGED <<files, temps>>

-----------------------------------------------------------------------------
(* Databases, LocalStorage, and what is one call of the file system.         *)

\* The entries of the next batch of statements are stored, in order; of the
\* last one the answer may be lost.
StoreEntries(r) ==
  LET n == IF Len(Left(r)) < adapter.chunk THEN Len(Left(r)) ELSE adapter.chunk
  IN  /\ In(r, "working")
      /\ Left(r) # <<>>
      /\ files' = [f \in File |->
           IF \E i \in 1 .. n : Left(r)[i] = f
           THEN IF Asked(r).kind = "delete" THEN Missing ELSE Written(r)
           ELSE files[f]]
      /\ \E state \in {IF n = Len(Left(r)) THEN "ok" ELSE "working", "error"} :
           request' = [request EXCEPT ![r].state = state,
                                      ![r].left = SubSeq(@, n + 1, Len(@))]
      /\ UNCHANGED temps

\* Nothing is stored for writeAll([]), nor cleaned where there are no files.
NothingToDo(r) ==
  /\ In(r, "working")
  /\ Asked(r).kind \in {"writeAll", "cleanOrphans"}
  /\ Left(r) = <<>>
  /\ Asked(r).kind = "cleanOrphans" => ~adapter.staged
  /\ Goes(r, "ok")
  /\ UNCHANGED <<files, temps>>

Sees(r, what) ==
  /\ request' = [request EXCEPT ![r].state = "ok", ![r].seen = <<what>>]
  /\ UNCHANGED <<files, temps>>

\* What was written without the key is not decrypted.
Readable(t) == t # Missing /\ adapter.sealed => t.sealed

Read(r) ==
  /\ In(r, "working")
  /\ Asked(r).kind = "read"
  /\ LET t == files[Asked(r).files[1]]
     IN  IF Readable(t) THEN Sees(r, {t.by}) ELSE Fails(r)

List(r) ==
  /\ In(r, "working")
  /\ Asked(r).kind = "list"
  /\ Sees(r, {f \in File : files[f] # Missing})

Refused(r) == In(r, "working") /\ Fails(r)

-----------------------------------------------------------------------------

\* The process stops.  What is in the directory stays there.
Stops ==
  /\ adapter.crashes
  /\ request' = [r \in Request |->
       IF request[r].state \in {"idle", "ok", "error"} THEN request[r]
       ELSE [request[r] EXCEPT !.state = "error"]]
  /\ UNCHANGED <<files, temps>>

StorageNext ==
  /\ UNCHANGED adapter
  /\ \/ \E r \in Made :
          \/ Call(r) \/ Prepare(r)
          \/ StageBegins(r) \/ StageEnds(r) \/ StageFails(r)
          \/ Rename(r) \/ RenameFails(r) \/ Unstage(r)
          \/ FindOrphans(r) \/ RemoveOrphan(r) \/ Cleaned(r)
          \/ StoreEntries(r) \/ NothingToDo(r)
          \/ Read(r) \/ List(r) \/ Refused(r)
     \/ Stops

StorageSpec == StorageInit /\ [][StorageNext]_storageVars

-----------------------------------------------------------------------------
(* Properties. *)

\* Types; a file has never the first part of a text.
StorageTypeOK ==
  /\ adapter \in Adapters
  /\ files \in [File -> [by : Request \union {"missing", "old"}, sealed : BOOLEAN]]
  /\ temps \subseteq [by : Request, file : File, whole : BOOLEAN]
  /\ \A r \in Request : In(r, "staging") \/ In(r, "filling") => request[r].staged < Len(Left(r))

\* What the contract sees: whether batches are stored as one, what each file
\* has, and each call, with the entries it has yet to store.
WholeBatches == \A r \in Made : Len(Asked(r).files) <= adapter.chunk

Texts == [f \in File |-> IF Readable(files[f]) THEN files[f].by ELSE "unreadable"]

Stores(r) == r \in Made /\ Asked(r).kind \in {"write", "writeAll", "delete"}
NewText(r) == IF Stores(r) /\ Asked(r).kind = "delete" THEN "missing" ELSE r
ToStore(r) ==
  IF Stores(r) THEN [i \in 1 .. Len(Left(r)) |-> [file |-> Left(r)[i], val |-> NewText(r)]]
  ELSE <<>>

Answers == {"idle", "ok", "error"}
Calls ==
  [r \in Request |->
    [state |-> IF request[r].state \in Answers THEN request[r].state ELSE "busy",
     asks |-> r \in Made /\ ~In(r, "idle") /\ Asked(r).kind \in {"read", "list"},
     todo |-> ToStore(r),
     seen |-> request[r].seen]]

Contract == INSTANCE StorageContract WITH
  whole <- WholeBatches, content <- Texts, asked <- Calls

\* Whatever calls overlap, fail, clean up or are cut off by a crash, a file has
\* one text, whole; a write that resolved has stored all of its entries, a batch
\* of an SQL database at once; what is read or listed is there at that moment,
\* and no temporary file is listed.
KeepsStorage == Contract!Spec
=============================================================================
