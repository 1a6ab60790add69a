--------------------------- MODULE DocumentFreshness ---------------------------
(***************************************************************************)
(* Which files the server refuses positional queries for.  An editor       *)
(* changes its buffers, saves them and notifies the server over an ordered *)
(* channel; builds rewrite shards from the sources on disk; a worker reads *)
(* the shards and the event loop installs what it read, some time later.   *)
(* `stale_documents` decides whether the index may answer about a file.    *)
(*                                                                         *)
(* Nothing makes the shards those of the sources: a source may have been   *)
(* saved and not built in an earlier session, and other programs write     *)
(* sources too (a checkout, a formatter).                                  *)
(*                                                                         *)
(* A source text is a model value: what matters is which texts are equal.  *)
(* `didSave` changes no state of the server and is left out, and so is the *)
(* loss of the index on a branch switch, which leaves the set as it is.    *)
(***************************************************************************)
EXTENDS Naturals, Sequences

CONSTANTS
  Files,
  Texts,       (* the source texts a file may have                         *)
  None,
  Reloads,     (* whether shard events and load requests install indexes   *)
  MaxInFlight  (* bound: notifications in the channel                      *)

ASSUME FreshnessAssumption ==
  /\ None \notin Texts
  /\ Reloads \in BOOLEAN
  /\ MaxInFlight \in Nat

VARIABLES
  disk,            (* the sources on disk                                  *)
  buffers,         (* the editor's buffers, None for a file not open       *)
  channel,         (* notifications sent and not handled                   *)
  documents,       (* the server's copies of the open buffers              *)
  vfs,             (* the contents the Vfs has recorded, None if deleted   *)
  stale_documents,
  shards,          (* the sources the shards on disk were built from       *)
  noticed,         (* the shards were rewritten, and the server was told   *)
  worker,          (* the generation worker and what it has read, or None  *)
  index,           (* the generation served, or None                       *)
  (* History, which nothing reads: the files whose text on disk no build   *)
  (* and no notice told of, and those written by another program since the *)
  (* server last compared them with a buffer.                              *)
  unnoticed,
  overwritten

editor == <<disk, buffers>>
server == <<documents, vfs, stale_documents>>
builds == <<shards, noticed>>
loads == <<worker, index>>
history == <<unnoticed, overwritten>>
vars == <<disk, buffers, channel, documents, vfs, stale_documents, shards, noticed,
          worker, index, unnoticed, overwritten>>

Text == Texts \union {None}
Sources == [Files -> Texts]
Notice == [kind : {"open", "change", "close"}, file : Files, text : Text]
Generation == [kind : {"startup", "reload", "explicit"}, read : Sources \union {None}]

(* The state is of its types, and the Vfs has the text of every open        *)
(* document: did_change takes a text it records as changed for an edit.     *)
TypeOK ==
  /\ disk \in Sources /\ shards \in Sources
  /\ buffers \in [Files -> Text] /\ documents \in [Files -> Text] /\ vfs \in [Files -> Text]
  /\ channel \in Seq(Notice)
  /\ stale_documents \subseteq Files
  /\ noticed \in BOOLEAN
  /\ worker \in Generation \union {None}
  /\ index \in [kind : {"startup", "reload", "explicit"}, read : Sources] \union {None}
  /\ unnoticed \subseteq Files /\ overwritten \subseteq Files
  /\ \A f \in Files : documents[f] # None => vfs[f] = documents[f]

(* The shards are of whatever sources there were at their last build, and   *)
(* startup runs.                                                            *)
Init ==
  /\ disk \in Sources
  /\ shards \in Sources
  /\ buffers = [f \in Files |-> None]
  /\ channel = <<>>
  /\ documents = [f \in Files |-> None]
  /\ vfs = [f \in Files |-> None]
  /\ stale_documents = {}
  /\ noticed = FALSE
  /\ worker = [kind |-> "startup", read |-> None]
  /\ index = None
  /\ unnoticed = {f \in Files : shards[f] # disk[f]}
  /\ overwritten = {}

-----------------------------------------------------------------------------
(* The editor, and other programs. *)

Send(kind, f, text) ==
  /\ Len(channel) < MaxInFlight
  /\ channel' = Append(channel, [kind |-> kind, file |-> f, text |-> text])

(* An editor may restore text that an earlier session did not save. *)
EditorOpens(f) ==
  /\ buffers[f] = None
  /\ \E text \in Texts :
       /\ buffers' = [buffers EXCEPT ![f] = text]
       /\ Send("open", f, text)
  /\ UNCHANGED <<disk, server, builds, loads, history>>

EditorEdits(f) ==
  /\ buffers[f] # None
  /\ \E text \in Texts \ {buffers[f]} :
       /\ buffers' = [buffers EXCEPT ![f] = text]
       /\ Send("change", f, text)
  /\ UNCHANGED <<disk, server, builds, loads, history>>

(* The last word the server was sent of f is that it was opened. *)
OpeningUnheard(f) ==
  \E i \in DOMAIN channel :
    /\ channel[i].file = f /\ channel[i].kind = "open"
    /\ \A j \in DOMAIN channel : j > i => channel[j].file # f

(* A text that was restored and is saved before its didOpen is handled is   *)
(* the file's by then.                                                      *)
EditorSaves(f) ==
  /\ buffers[f] \notin {None, disk[f]}
  /\ disk' = [disk EXCEPT ![f] = buffers[f]]
  /\ unnoticed' = IF OpeningUnheard(f) THEN unnoticed \union {f} ELSE unnoticed
  /\ UNCHANGED <<buffers, channel, server, builds, loads, overwritten>>

OtherWrites(f) ==
  /\ \E text \in Texts \ {disk[f]} : disk' = [disk EXCEPT ![f] = text]
  /\ unnoticed' = unnoticed \union {f}
  /\ overwritten' = overwritten \union {f}
  /\ UNCHANGED <<buffers, channel, server, builds, loads>>

EditorCloses(f) ==
  /\ buffers[f] # None
  /\ buffers' = [buffers EXCEPT ![f] = None]
  /\ Send("close", f, None)
  /\ UNCHANGED <<disk, server, builds, loads, history>>

-----------------------------------------------------------------------------
(* The server's notification handlers. *)

(* The notification at the head of the channel is received. *)
Receive(kind, f) ==
  /\ channel # <<>>
  /\ channel[1].kind = kind
  /\ channel[1].file = f
  /\ channel' = Tail(channel)

(* Mutant: the text is not recorded. *)
DidOpenMutant(f) ==
  /\ Receive("open", f)
  /\ stale_documents' = IF disk[f] # channel[1].text THEN stale_documents \union {f}
                                                      ELSE stale_documents
  /\ documents' = [documents EXCEPT ![f] = channel[1].text]
  /\ overwritten' = overwritten \ {f}
  /\ UNCHANGED <<editor, vfs, builds, loads, unnoticed>>

(* Compares the text with the file on disk as it is by now. *)
DidOpen(f) ==
  /\ Receive("open", f)
  /\ stale_documents' = IF disk[f] # channel[1].text THEN stale_documents \union {f}
                                                      ELSE stale_documents
  /\ documents' = [documents EXCEPT ![f] = channel[1].text]
  /\ vfs' = [vfs EXCEPT ![f] = channel[1].text]
  /\ overwritten' = overwritten \ {f}
  /\ UNCHANGED <<editor, builds, loads, unnoticed>>

DidChange(f) ==
  /\ Receive("change", f)
  /\ documents' = [documents EXCEPT ![f] = channel[1].text]
  /\ vfs' = [vfs EXCEPT ![f] = channel[1].text]
  /\ stale_documents' = IF vfs[f] # channel[1].text THEN stale_documents \union {f}
                                                     ELSE stale_documents
  /\ UNCHANGED <<editor, builds, loads, history>>

(* Disk is authoritative again; a file that was stale stays so. *)
DidClose(f) ==
  /\ Receive("close", f)
  /\ documents' = [documents EXCEPT ![f] = None]
  /\ vfs' = [vfs EXCEPT ![f] = disk[f]]
  /\ UNCHANGED <<editor, stale_documents, builds, loads, history>>

-----------------------------------------------------------------------------
(* Builds and generations. *)

(* Bazel rebuilds the shard of a file whose source has changed. *)
BuildWrites(f) ==
  /\ shards[f] # disk[f]
  /\ shards' = [shards EXCEPT ![f] = disk[f]]
  /\ noticed' = TRUE
  /\ UNCHANGED <<editor, channel, server, loads, history>>

WorkerReads ==
  /\ worker # None
  /\ worker.read = None
  /\ worker' = [worker EXCEPT !.read = shards]
  /\ UNCHANGED <<editor, channel, server, builds, index, history>>

StartWorker(kind) ==
  /\ Reloads
  /\ worker = None
  /\ worker' = [kind |-> kind, read |-> None]
  /\ noticed' = FALSE
  /\ UNCHANGED <<editor, channel, server, shards, index, history>>

(* A shard event schedules a reload; the client asks for a load. *)
ReloadStarts == noticed /\ StartWorker("reload")
ExplicitLoadStarts == StartWorker("explicit")

(* Mutant: whatever was stale is taken as rebuilt. *)
RefreshDocumentFreshnessMutant == {}

(* `refresh_document_freshness`: the open buffers that differ from disk.  *)
RefreshDocumentFreshness ==
  {f \in Files : documents[f] # None /\ documents[f] # disk[f]}

(* Mutant: startup recomputes freshness like any other install. *)
InstallMutant ==
  /\ worker # None
  /\ worker.read # None
  /\ index' = worker
  /\ worker' = None
  /\ stale_documents' = RefreshDocumentFreshness
  /\ overwritten' = {}
  /\ UNCHANGED <<editor, channel, documents, vfs, builds, unnoticed>>

(* Only the startup generation keeps what was stale before. *)
Install ==
  /\ worker # None
  /\ worker.read # None
  /\ index' = worker
  /\ worker' = None
  /\ stale_documents' = RefreshDocumentFreshness \union
                          (IF worker.kind = "startup" THEN stale_documents ELSE {})
  /\ overwritten' = {}
  /\ UNCHANGED <<editor, channel, documents, vfs, builds, unnoticed>>

-----------------------------------------------------------------------------
(* Queries about what a file declares.  The declarations of a text are      *)
(* named by the text: an answer is the texts it was made from.              *)

(* Mutant: only the open files are taken from the client. *)
ShadowedMutant == {f \in Files : documents[f] # None}

(* The files for which the index is not consulted. *)
Shadowed == {f \in Files : documents[f] # None} \union stale_documents

(* What is parsed instead: the buffer, or the file on disk as it is by now. *)
LiveText(f) == IF documents[f] # None THEN documents[f] ELSE disk[f]

(* `workspace/symbol`: the live files first, and the index for the others.  *)
WorkspaceSymbol ==
  {[file |-> f, text |-> LiveText(f)] : f \in Shadowed}
    \union {[file |-> f, text |-> index.read[f]] : f \in Files \ Shadowed}

(* `textDocument/documentSymbol` *)
DocumentSymbols(f) ==
  IF documents[f] # None THEN documents[f]
  ELSE IF f \in stale_documents THEN disk[f]
  ELSE index.read[f]

-----------------------------------------------------------------------------
Notified == \E f \in Files : DidOpen(f) \/ DidChange(f) \/ DidClose(f)

Next ==
  \/ \E f \in Files :
       \/ EditorOpens(f) \/ EditorEdits(f) \/ EditorSaves(f) \/ EditorCloses(f)
       \/ OtherWrites(f)
       \/ BuildWrites(f)
  \/ Notified
  \/ WorkerReads
  \/ ReloadStarts
  \/ ExplicitLoadStarts
  \/ Install

Spec == Init /\ [][Next]_vars

-----------------------------------------------------------------------------
(* The server has handled every notification about f that was sent. *)
Heard(f) == \A i \in DOMAIN channel : channel[i].file # f

Answers(f) == index # None /\ f \notin stale_documents

MatchesDocument(f) ==
  Answers(f) /\ Heard(f) /\ documents[f] # None => index.read[f] = documents[f]

(* A positional query about an open file is answered only from an index of  *)
(* the text its positions refer to (require_current_document): edits made   *)
(* or saved while a generation is built, read or installed are not lost.    *)
(* A text no notice told of is left out.                                    *)
AnswersMatchDocument == \A f \in Files \ unnoticed : MatchesDocument(f)

(* The same of the startup generation, which keeps every mark made before   *)
(* it is installed: what was edited and saved while the shards were looked  *)
(* for and read is refused.  The exceptions are the cases in which nothing  *)
(* can mark the file: its shard was not of its source when the server       *)
(* started ("uncommitted sources ... cannot be detected"), another program   *)
(* wrote it, or it was opened with unsaved text and saved before the server *)
(* compared the two.                                                        *)
StartupAnswersMatchDocument ==
  index # None /\ index.kind = "startup" => \A f \in Files \ unnoticed : MatchesDocument(f)

(* Unsaved text is never answered about: no build can have seen it.  A file *)
(* another program wrote under an open buffer is told apart again when it   *)
(* is opened or a generation is installed.                                  *)
UnsavedIsStale ==
  \A f \in Files \ overwritten : Answers(f) /\ Heard(f) => documents[f] \in {None, disk[f]}

(* A search and an outline, asked of the startup generation, show the text  *)
(* the user sees: the editor's buffer for an open file and the file on disk *)
(* for a closed one, whatever was edited, saved and closed while a worker   *)
(* was reading the shards.  A text no notice told of is left out: of such a *)
(* closed file they show what was last built.                               *)
SymbolsAreCurrent ==
  index # None /\ index.kind = "startup" =>
    \A f \in Files \ unnoticed :
      LET seen == IF buffers[f] # None THEN buffers[f] ELSE disk[f]
      IN  Heard(f) => /\ {answer \in WorkspaceSymbol : answer.file = f}
                           = {[file |-> f, text |-> seen]}
                      /\ DocumentSymbols(f) = seen

=============================================================================
