-------------------------- MODULE CredentialFiles --------------------------
(***************************************************************************)
(* accounts_dir.py: account snapshots on disk, one text file per account,  *)
(* and write_snapshot(), which several threads run at once: the event loop *)
(* for a device login, worker threads for an import and for saving a       *)
(* refreshed token.  A write is three steps (the temporary file is opened  *)
(* and truncated, filled and closed, moved over the snapshot), and all     *)
(* writers of one snapshot share one temporary name.  Files behave as on   *)
(* Windows, the platform the program is built for: what another writer has *)
(* open cannot be moved.                                                   *)
(***************************************************************************)
EXTENDS Naturals, FiniteSets

CONSTANTS Ids,         \* account ids
          Names,       \* snapshot file names
          BaseName,    \* [Ids -> Names]: safe_name(email)
          AltName,     \* [Ids -> Names]: the same with the account id in it
          Writers,     \* the threads of control that may write a snapshot
          NoFile, Torn \* contents: absent, truncated

VARIABLES disk,        \* [Names -> content]: the snapshots
          tmp,         \* [Names -> content]: the temporary file of each
          job          \* [Writers -> job]: the write each is engaged in

fileVars == <<disk, tmp, job>>

ASSUME NamesAssumption ==
    /\ BaseName \in [Ids -> Names] /\ AltName \in [Ids -> Names]
    /\ \A a, b \in Ids : AltName[a] # BaseName[b] /\ (a # b => AltName[a] # AltName[b])

\* A snapshot names an account and holds the token of one.
Snapshots == [id : Ids, tok : Ids]
Own(id) == [id |-> id, tok |-> id]

ASSUME ContentsAssumption == NoFile \notin Snapshots /\ Torn \notin Snapshots \cup {NoFile}

Jobs == [at : {"fill", "replace"}, name : Names, content : Snapshots]
NoJob == [at |-> "none"]

FilesInit ==
    /\ disk \in [Names -> Snapshots \cup {NoFile}]
    /\ \A n \in Names : disk[n] # NoFile => disk[n] = Own(disk[n].id) /\ n = BaseName[disk[n].id]
    /\ tmp = [n \in Names |-> NoFile]
    /\ job = [w \in Writers |-> NoJob]

Readable(n) == disk[n] \in Snapshots

\* load_from_accounts_dir: the ids whose snapshots a restart or reload finds.
Loadable == {disk[n].id : n \in {m \in Names : Readable(m)}}

\* Mutant: the name is made from the e-mail address alone.
SnapshotFilenameByEmail(id, used) == BaseName[id]

\* snapshot_filename: `used` is the set of <<name, owner>> already taken.
SnapshotFilename(id, used) ==
    IF \E u \in used : u[1] = BaseName[id] /\ u[2] # id THEN AltName[id] ELSE BaseName[id]

UsedNames == {<<n, disk[n].id>> : n \in {m \in Names : Readable(m)}}

-----------------------------------------------------------------------------
(* write_snapshot(), step by step.                                          *)

OpenTmp(w, n, content) ==
    /\ tmp' = [tmp EXCEPT ![n] = Torn]
    /\ job' = [job EXCEPT ![w] = [at |-> "fill", name |-> n, content |-> content]]
    /\ UNCHANGED disk

\* Two writers that have the file open write over each other from its start:
\* the tail of a longer text survives, and the tokens are at the end.
Overlaid(old, new) ==
    {new} \cup IF old \in Snapshots THEN {[new EXCEPT !.tok = old.tok]} ELSE {}

FillTmp(w) ==
    /\ job[w].at = "fill"
    /\ \E c \in Overlaid(tmp[job[w].name], job[w].content) :
           tmp' = [tmp EXCEPT ![job[w].name] = c]
    /\ job' = [job EXCEPT ![w].at = "replace"]
    /\ UNCHANGED disk

OpenElsewhere(w) ==
    \E v \in Writers \ {w} : job[v].at = "fill" /\ job[v].name = job[w].name

ReplaceTmp(w) ==
    /\ job[w].at = "replace"
    /\ tmp[job[w].name] # NoFile /\ ~OpenElsewhere(w)
    /\ disk' = [disk EXCEPT ![job[w].name] = tmp[job[w].name]]
    /\ tmp' = [tmp EXCEPT ![job[w].name] = NoFile]
    /\ job' = [job EXCEPT ![w] = NoJob]

\* What a writer leaves behind is truncated by the next one: once no writer is
\* past opening it, a leftover temporary file is not told from none.
Alone(w) ==
    \A v \in Writers \ {w} :
        job[v] \in Jobs => job[v].name # job[w].name

\* The move may raise (a scanner's lock): always when the temporary file is gone
\* or open elsewhere.  The short text is one write, and a disk that fills up
\* between opening and writing is left out.
WriteRaises(w) ==
    /\ job[w].at = "replace"
    /\ job' = [job EXCEPT ![w] = NoJob]
    /\ tmp' = [tmp EXCEPT ![job[w].name] = IF Alone(w) THEN NoFile ELSE @]
    /\ UNCHANGED disk
=============================================================================
