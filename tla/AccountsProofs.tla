--------------------------- MODULE AccountsProofs ---------------------------
(***************************************************************************)
(* Theorems about the credential folder and the live pool, for every set   *)
(* of accounts, file names and logins, any number of logins at a time.     *)
(***************************************************************************)
EXTENDS Accounts, TLAPS

\* No account logs in under a file name another account's e-mail gives as well.
UnsharedNames == \A a \in LoginIds, b \in Ids : BaseName[a] = BaseName[b] => a = b

-----------------------------------------------------------------------------
(* The inductive invariant, part by part.                                  *)

Owned == {Own(a) : a \in Ids}
FileJobs == [at : {"fill", "replace", "parsed"}, name : Names, content : Owned]
              \cup [at : {"parse"}, name : Names, id : Ids]

FileTypes ==
    /\ disk \in [Names -> Owned \cup {NoFile}]
    /\ tmp \in [Names -> Owned \cup {NoFile, Torn}]
    /\ job \in [Writers -> FileJobs \cup {NoJob}]
    /\ importing \in [todo : SUBSET Ids, used : SUBSET (Names \X Ids)]

\* The account a write is for.
OwnerOf(j) == IF j.at = "parse" THEN j.id ELSE j.content.id
Engaged(w, n, a) == job[w].at # "none" /\ job[w].name = n /\ OwnerOf(job[w]) = a

\* Everything that ties a file name to an account.
Owns(a, n) ==
    \/ disk[n] = Own(a) \/ tmp[n] = Own(a)
    \/ \E w \in Writers : Engaged(w, n, a)
    \/ <<n, a>> \in importing.used

\* A file name belongs to one account at a time, and is one of its two names.
OwnersInv ==
    \A n \in Names, a \in Ids : Owns(a, n) =>
        /\ n \in {BaseName[a], AltName[a]}
        /\ \A b \in Ids : Owns(b, n) => a = b

\* A temporary file has somebody working on it; a truncated one is being filled.
TmpInv ==
    \A n \in Names :
        /\ tmp[n] # NoFile => \E w \in Writers : job[w].at \in {"fill", "replace"} /\ job[w].name = n
        /\ tmp[n] = Torn => \E w \in Writers : job[w].at = "fill" /\ job[w].name = n

\* The saver only rewrites what is there.
SaverInv ==
    /\ \A w \in Writers \ {Saver} : job[w].at \in {"none", "fill", "replace"}
    /\ \A n \in Names, a \in Ids : Engaged(Saver, n, a) => disk[n] = Own(a)

\* The names an import takes for taken are all there are, but for those of logins.
ImportInv ==
    /\ \A n \in Names, a \in Ids : Engaged(Import, n, a) => <<n, a>> \in importing.used
    /\ importing.todo # {} =>
          \A n \in Names, a \in Ids :
              disk[n] = Own(a) => <<n, a>> \in importing.used \/ a \in LoginIds

FilesInv == FileTypes /\ OwnersInv /\ TmpInv /\ SaverInv /\ ImportInv

LoginRecords == [at : Points, state : States, id : LoginIds \cup {NoLogin},
                 cancel : BOOLEAN, saved : BOOLEAN, pooled : BOOLEAN]

Before == {"unborn", "new", "authorize", "ask", "sleep", "register", "persist"}

RecordOK(r) ==
    /\ r.at \in Before => ~r.saved
    /\ r.at \in Before \cup {"upsert"} => ~r.pooled
    /\ r.at \in {"upsert", "check"} => r.saved
    /\ r.at = "check" => r.pooled
    /\ r.at # "end" => r.state \in {"idle", "awaiting_user", "registering"}
    /\ r.at \in {"register", "persist", "upsert"} => r.id \in LoginIds
    /\ r.state = "done" => r.saved /\ r.pooled
    /\ r.state \in {"error", "expired"} => ~r.saved /\ ~r.pooled
    /\ r.pooled => r.saved

LoginOK(l) ==
    /\ RecordOK(login[l])
    /\ login[l].at = "persist" <=> job[l] # NoJob
    /\ login[l].at = "persist" => Engaged(l, BaseName[login[l].id], login[l].id)
    /\ login[l].at = "upsert" => disk[BaseName[login[l].id]] = Own(login[l].id)

LoginInv ==
    /\ login \in [Logins -> LoginRecords]
    /\ current \in Logins \cup {NoLogin}
    /\ \A l \in Logins : LoginOK(l)

PoolInv ==
    /\ pool \in [Ids -> Names \cup {NotPooled, FromLogin}]
    /\ \A a \in Ids :
           /\ pool[a] \in Names => disk[pool[a]] = Own(a)
           /\ pool[a] = FromLogin => \E n \in Names : disk[n] = Own(a)

Inductive == FilesInv /\ LoginInv /\ PoolInv

-----------------------------------------------------------------------------
(* Contents and jobs.                                                      *)

LEMMA OwnContents ==
  /\ \A a, b : Own(a) = Own(b) => a = b
  /\ \A a : Own(a).id = a /\ Own(a).tok = a
  /\ Owned \subseteq Snapshots /\ NoFile \notin Owned /\ Torn \notin Owned /\ Torn # NoFile
<1>1. \A a : Own(a).id = a /\ Own(a).tok = a
  BY DEF Own
<1>2. \A a, b : Own(a) = Own(b) => a = b
  BY <1>1
<1>3. Owned \subseteq Snapshots
  BY DEF Owned, Own, Snapshots
<1>4. QED
  BY <1>1, <1>2, <1>3, ContentsAssumption

LEMMA JobShape ==
  ASSUME FileTypes, NEW w \in Writers, job[w].at # "none"
  PROVE  /\ job[w] \in FileJobs
         /\ job[w].name \in Names /\ OwnerOf(job[w]) \in Ids
         /\ Engaged(w, job[w].name, OwnerOf(job[w]))
         /\ job[w].at \in {"parse", "parsed", "fill", "replace"}
         /\ job[w].at # "parse" => job[w].content = Own(OwnerOf(job[w]))
<1>1. job[w] \in FileJobs
  BY DEF FileTypes, NoJob
<1>2. CASE job[w].at = "parse"
  BY <1>1, <1>2 DEF FileJobs, OwnerOf, Engaged
<1>3. CASE job[w].at # "parse"
  <2>1. /\ job[w].name \in Names /\ job[w].content \in Owned
        /\ job[w].at \in {"parsed", "fill", "replace"}
    BY <1>1, <1>3 DEF FileJobs
  <2>2. OwnerOf(job[w]) = job[w].content.id
    BY <1>3 DEF OwnerOf
  <2>3. PICK a \in Ids : job[w].content = Own(a)
    BY <2>1 DEF Owned
  <2>4. OwnerOf(job[w]) = a
    BY <2>2, <2>3, OwnContents
  <2>5. QED
    BY <1>1, <1>3, <2>1, <2>3, <2>4 DEF Engaged
<1>4. QED
  BY <1>2, <1>3

\* One job changes.
LEMMA OneJob ==
  ASSUME FileTypes, NEW w \in Writers, NEW j \in FileJobs \cup {NoJob},
         job' = [job EXCEPT ![w] = j]
  PROVE  /\ job' \in [Writers -> FileJobs \cup {NoJob}]
         /\ job'[w] = j
         /\ \A v \in Writers \ {w} : job'[v] = job[v]
         /\ \A v \in Writers \ {w} : \A n, a : Engaged(v, n, a)' <=> Engaged(v, n, a)
<1>1. /\ job' \in [Writers -> FileJobs \cup {NoJob}] /\ job'[w] = j
      /\ \A v \in Writers \ {w} : job'[v] = job[v]
  BY DEF FileTypes
<1>2. ASSUME NEW v \in Writers \ {w}, NEW n, NEW a PROVE Engaged(v, n, a)' <=> Engaged(v, n, a)
  BY <1>1 DEF Engaged, OwnerOf
<1>3. QED
  BY <1>1, <1>2

LEMMA ClaimsFall ==
  ASSUME OwnersInv, \A n \in Names, a \in Ids : Owns(a, n)' => Owns(a, n)
  PROVE  OwnersInv'
  BY DEF OwnersInv

LEMMA ClaimAdded ==
  ASSUME OwnersInv, NEW m \in Names, NEW o \in Ids, m \in {BaseName[o], AltName[o]},
         \A b \in Ids : Owns(b, m) => b = o,
         \A n \in Names, a \in Ids : Owns(a, n)' => Owns(a, n) \/ (a = o /\ n = m)
  PROVE  OwnersInv'
  BY DEF OwnersInv

LEMMA FilesFrame ==
  ASSUME FilesInv, UNCHANGED <<fileVars, importing>>
  PROVE  FilesInv'
<1>1. /\ disk' = disk /\ tmp' = tmp /\ job' = job /\ importing' = importing
  BY DEF fileVars
<1>2. \A w, n, a : Engaged(w, n, a)' <=> Engaged(w, n, a)
  BY <1>1 DEF Engaged, OwnerOf
<1>3. \A n, a : Owns(a, n)' <=> Owns(a, n)
  BY <1>1, <1>2 DEF Owns
<1>4. OwnersInv'
  BY <1>3 DEF FilesInv, OwnersInv
<1>5. FileTypes' /\ TmpInv'
  BY <1>1 DEF FilesInv, FileTypes, TmpInv
<1>6. SaverInv' /\ ImportInv'
  BY <1>1, <1>2 DEF FilesInv, SaverInv, ImportInv
<1>7. QED
  BY <1>4, <1>5, <1>6 DEF FilesInv

-----------------------------------------------------------------------------
(* write_snapshot(), step by step.                                         *)

LEMMA FillKeepsFiles ==
  ASSUME FilesInv, NEW w \in Writers, FillTmp(w), importing' = importing
  PROVE  /\ FilesInv' /\ disk' = disk
         /\ \A v \in Writers : (job'[v].at # "none" <=> job[v].at # "none")
         /\ \A v \in Writers, n \in Names, a \in Ids : Engaged(v, n, a)' <=> Engaged(v, n, a)
<1> DEFINE m == job[w].name
           o == OwnerOf(job[w])
<1>1. /\ job[w].at = "fill" /\ job[w] \in FileJobs /\ m \in Names /\ o \in Ids /\ Engaged(w, m, o)
      /\ job[w].content = Own(o)
  BY JobShape DEF FillTmp, FilesInv
<1>2. Overlaid(tmp[m], Own(o)) = {Own(o)}
  <2>1. tmp[m] \in Snapshots => tmp[m] = Own(o)
    <3>1. tmp[m] \in Owned \cup {NoFile, Torn}
      BY <1>1 DEF FilesInv, FileTypes
    <3>2. \A a \in Ids : tmp[m] = Own(a) => a = o
      BY <1>1 DEF FilesInv, OwnersInv, Owns
    <3>3. QED
      BY <3>1, <3>2, ContentsAssumption DEF Owned
  <2>2. [Own(o) EXCEPT !.tok = Own(o).tok] = Own(o)
    BY DEF Own
  <2>3. QED
    BY <2>1, <2>2 DEF Overlaid
<1>3. /\ tmp' = [tmp EXCEPT ![m] = Own(o)] /\ disk' = disk
      /\ job' = [job EXCEPT ![w] = [job[w] EXCEPT !.at = "replace"]]
  BY <1>1, <1>2 DEF FillTmp
<1> DEFINE j == [job[w] EXCEPT !.at = "replace"]
<1>4. /\ j \in FileJobs /\ j.at = "replace" /\ j.name = m /\ OwnerOf(j) = o
  BY <1>1 DEF FileJobs, OwnerOf
<1>5. job' = [job EXCEPT ![w] = j]
  BY <1>3
<1> HIDE DEF m, o, j
<1>6. /\ job' \in [Writers -> FileJobs \cup {NoJob}] /\ job'[w] = j
      /\ \A v \in Writers \ {w} : job'[v] = job[v]
      /\ \A v \in Writers \ {w} : \A n, a : Engaged(v, n, a)' <=> Engaged(v, n, a)
  BY <1>4, <1>5, OneJob DEF FilesInv
<1>7. \A n, a : Engaged(w, n, a)' <=> Engaged(w, n, a)
  BY <1>1, <1>4, <1>6 DEF Engaged, m, o
<1>8. \A v \in Writers, n \in Names, a \in Ids : Engaged(v, n, a)' <=> Engaged(v, n, a)
  BY <1>6, <1>7
<1>9. /\ tmp' \in [Names -> Owned \cup {NoFile, Torn}] /\ tmp'[m] = Own(o)
      /\ \A n \in Names \ {m} : tmp'[n] = tmp[n]
  BY <1>1, <1>3 DEF FilesInv, FileTypes, Owned
<1>10. FileTypes'
  BY <1>3, <1>6, <1>9 DEF FilesInv, FileTypes
<1>11. OwnersInv'
  <2>1. ASSUME NEW n \in Names, NEW a \in Ids, Owns(a, n)' PROVE Owns(a, n)
    <3>1. tmp'[n] = Own(a) => Owns(a, n)
      <4>1. CASE n = m
        BY <1>1, <1>9, <4>1, OwnContents DEF Owns
      <4>2. CASE n # m
        BY <1>9, <4>2 DEF Owns
      <4>3. QED
        BY <4>1, <4>2
    <3>2. QED
      BY <1>3, <1>8, <2>1, <3>1 DEF Owns
  <2>2. QED
    BY <2>1, ClaimsFall DEF FilesInv
<1>12. TmpInv'
  <2>1. ASSUME NEW n \in Names
        PROVE  /\ tmp'[n] # NoFile => \E v \in Writers : job'[v].at \in {"fill", "replace"} /\ job'[v].name = n
               /\ tmp'[n] = Torn => \E v \in Writers : job'[v].at = "fill" /\ job'[v].name = n
    <3>1. CASE n = m
      BY <1>4, <1>6, <1>9, <1>1, <3>1, OwnContents DEF Owned
    <3>2. CASE n # m
      <4>1. tmp'[n] = tmp[n] /\ \A v \in Writers : job[v].at # "none" /\ job[v].name = n => v # w
        BY <1>9, <3>2 DEF m
      <4>2. QED
        BY <1>6, <4>1 DEF FilesInv, TmpInv
    <3>3. QED
      BY <3>1, <3>2
  <2>2. QED
    BY <2>1 DEF TmpInv
<1>13. SaverInv'
  <2>1. Saver \in Writers
    BY AccountsAssumption
  <2>2. QED
    BY <1>3, <1>4, <1>6, <1>8, <2>1 DEF FilesInv, SaverInv
<1>14. ImportInv'
  <2>1. Import \in Writers
    BY AccountsAssumption
  <2>2. QED
    BY <1>3, <1>8, <2>1 DEF FilesInv, ImportInv
<1>15. \A v \in Writers : (job'[v].at # "none" <=> job[v].at # "none")
  BY <1>1, <1>4, <1>6
<1>16. QED
  BY <1>3, <1>8, <1>10, <1>11, <1>12, <1>13, <1>14, <1>15 DEF FilesInv

\* What ends a write: the writer is free, and an import may be over with it.
EndOfWrite(w) ==
    /\ job' = [job EXCEPT ![w] = NoJob]
    /\ importing' = importing \/ (w = Import /\ importing' = NoImport)

LEMMA EndsKeepParts ==
  ASSUME FilesInv, NEW w \in Writers, EndOfWrite(w),
         \A n \in Names, a \in Ids : disk[n] = Own(a) => disk'[n] = Own(a)
  PROVE  /\ job' \in [Writers -> FileJobs \cup {NoJob}] /\ job'[w] = NoJob
         /\ \A v \in Writers \ {w} : job'[v] = job[v]
         /\ \A v \in Writers : \A n, a : Engaged(v, n, a)' => Engaged(v, n, a)
         /\ importing' \in [todo : SUBSET Ids, used : SUBSET (Names \X Ids)]
         /\ importing'.used \subseteq importing.used
         /\ SaverInv'
         /\ \A n \in Names, a \in Ids : Engaged(Import, n, a)' => <<n, a>> \in importing'.used
         /\ importing'.todo # {} => importing' = importing
<1>1. /\ job' \in [Writers -> FileJobs \cup {NoJob}] /\ job'[w] = NoJob
      /\ \A v \in Writers \ {w} : job'[v] = job[v]
      /\ \A v \in Writers \ {w} : \A n, a : Engaged(v, n, a)' <=> Engaged(v, n, a)
  BY OneJob DEF EndOfWrite, FilesInv
<1>2. NoJob.at = "none"
  BY DEF NoJob
<1>3. \A n, a : ~Engaged(w, n, a)'
  BY <1>1, <1>2 DEF Engaged
<1>4. \A v \in Writers : \A n, a : Engaged(v, n, a)' => Engaged(v, n, a)
  BY <1>1, <1>3
<1>5. /\ importing' \in [todo : SUBSET Ids, used : SUBSET (Names \X Ids)]
      /\ importing'.used \subseteq importing.used
      /\ importing'.todo # {} => importing' = importing
  BY DEF EndOfWrite, NoImport, FilesInv, FileTypes
<1>6. Saver \in Writers /\ Import \in Writers
  BY AccountsAssumption
<1>7. SaverInv'
  BY <1>1, <1>2, <1>4, <1>6 DEF FilesInv, SaverInv
<1>8. \A n \in Names, a \in Ids : Engaged(Import, n, a)' => <<n, a>> \in importing'.used
  BY <1>3, <1>4, <1>6 DEF EndOfWrite, FilesInv, ImportInv
<1>9. QED
  BY <1>1, <1>4, <1>5, <1>7, <1>8

LEMMA ReplaceKeepsFiles ==
  ASSUME FilesInv, NEW w \in Writers, ReplaceTmp(w),
         importing' = importing \/ (w = Import /\ importing' = NoImport),
         w \in Logins => OwnerOf(job[w]) \in LoginIds
  PROVE  /\ FilesInv'
         /\ \A n \in Names, a \in Ids : disk[n] = Own(a) => disk'[n] = Own(a)
         /\ \A n \in Names, a \in Ids : Engaged(w, n, a) => disk'[n] = Own(a)
         /\ job' = [job EXCEPT ![w] = NoJob]
<1> DEFINE m == job[w].name
           o == OwnerOf(job[w])
<1>1. /\ job[w].at = "replace" /\ m \in Names /\ o \in Ids /\ Engaged(w, m, o)
  BY JobShape DEF ReplaceTmp, FilesInv
<1>2. tmp[m] = Own(o)
  <2>1. tmp[m] # NoFile /\ tmp[m] \in Owned \cup {NoFile, Torn}
    BY <1>1 DEF ReplaceTmp, FilesInv, FileTypes
  <2>2. tmp[m] # Torn
    <3> SUFFICES ASSUME tmp[m] = Torn PROVE FALSE
      OBVIOUS
    <3>1. PICK v \in Writers : job[v].at = "fill" /\ job[v].name = m
      BY <1>1 DEF FilesInv, TmpInv
    <3>2. v # w
      BY <1>1, <3>1
    <3>3. QED
      BY <3>1, <3>2 DEF ReplaceTmp, OpenElsewhere
  <2>3. \A a \in Ids : tmp[m] = Own(a) => a = o
    <3>1. Owns(o, m) /\ \A a \in Ids : tmp[m] = Own(a) => Owns(a, m)
      BY <1>1 DEF Owns
    <3>2. QED
      BY <1>1, <3>1 DEF FilesInv, OwnersInv
  <2>4. QED
    BY <2>1, <2>2, <2>3 DEF Owned
<1>3. /\ disk' = [disk EXCEPT ![m] = Own(o)] /\ tmp' = [tmp EXCEPT ![m] = NoFile]
      /\ job' = [job EXCEPT ![w] = NoJob]
  BY <1>2 DEF ReplaceTmp
<1>4. \A v, n, a : v = w /\ Engaged(v, n, a) => n = m /\ a = o
  BY DEF Engaged
<1>5. \A v \in Writers : job[v].name = m /\ v # w => job[v].at # "fill"
  BY <1>1 DEF ReplaceTmp, OpenElsewhere
<1>6. \A v \in Writers : v = w => job[v].name = m
  OBVIOUS
<1> HIDE DEF m, o
<1>7. /\ disk'[m] = Own(o) /\ tmp'[m] = NoFile
      /\ \A n \in Names \ {m} : disk'[n] = disk[n] /\ tmp'[n] = tmp[n]
      /\ disk' \in [Names -> Owned \cup {NoFile}] /\ tmp' \in [Names -> Owned \cup {NoFile, Torn}]
  BY <1>1, <1>3 DEF FilesInv, FileTypes, Owned
<1>8. \A n \in Names, a \in Ids : disk[n] = Own(a) => disk'[n] = Own(a)
  <2>1. \A a \in Ids : disk[m] = Own(a) => a = o
    BY <1>1 DEF FilesInv, OwnersInv, Owns
  <2>2. QED
    BY <1>7, <2>1
<1>9. EndOfWrite(w)
  BY <1>3 DEF EndOfWrite
<1>10. /\ job' \in [Writers -> FileJobs \cup {NoJob}] /\ job'[w] = NoJob
       /\ \A v \in Writers \ {w} : job'[v] = job[v]
       /\ \A v \in Writers : \A n, a : Engaged(v, n, a)' => Engaged(v, n, a)
       /\ importing' \in [todo : SUBSET Ids, used : SUBSET (Names \X Ids)]
       /\ importing'.used \subseteq importing.used
       /\ SaverInv'
       /\ \A n \in Names, a \in Ids : Engaged(Import, n, a)' => <<n, a>> \in importing'.used
       /\ importing'.todo # {} => importing' = importing
  BY <1>8, <1>9, EndsKeepParts
<1>11. FileTypes'
  BY <1>7, <1>10 DEF FileTypes
<1>12. OwnersInv'
  <2>1. ASSUME NEW n \in Names, NEW a \in Ids, Owns(a, n)' PROVE Owns(a, n)
    <3>1. disk'[n] = Own(a) => Owns(a, n)
      <4>1. CASE n = m
        BY <1>1, <1>7, <4>1, OwnContents DEF Owns
      <4>2. CASE n # m
        BY <1>7, <4>2 DEF Owns
      <4>3. QED
        BY <4>1, <4>2
    <3>2. tmp'[n] = Own(a) => tmp[n] = Own(a)
      BY <1>7, OwnContents DEF Owned
    <3>3. QED
      BY <1>10, <2>1, <3>1, <3>2 DEF Owns
  <2>2. QED
    BY <2>1, ClaimsFall DEF FilesInv
<1>13. TmpInv'
  <2>1. ASSUME NEW n \in Names
        PROVE  /\ tmp'[n] # NoFile => \E v \in Writers : job'[v].at \in {"fill", "replace"} /\ job'[v].name = n
               /\ tmp'[n] = Torn => \E v \in Writers : job'[v].at = "fill" /\ job'[v].name = n
    <3>1. CASE n = m
      BY <1>7, <3>1, OwnContents
    <3>2. CASE n # m
      <4>1. tmp'[n] = tmp[n] /\ \A v \in Writers : job[v].name = n => v # w
        BY <1>6, <1>7, <3>2
      <4>2. QED
        BY <1>10, <4>1 DEF FilesInv, TmpInv
    <3>3. QED
      BY <3>1, <3>2
  <2>2. QED
    BY <2>1 DEF TmpInv
<1>14. ImportInv'
  <2>1. ASSUME importing'.todo # {}, NEW n \in Names, NEW a \in Ids, disk'[n] = Own(a)
        PROVE  <<n, a>> \in importing'.used \/ a \in LoginIds
    <3>1. importing' = importing
      BY <1>10, <2>1
    <3>2. CASE disk[n] = Own(a)
      BY <2>1, <3>1, <3>2 DEF FilesInv, ImportInv
    <3>3. CASE disk[n] # Own(a)
      <4>1. n = m /\ a = o
        BY <1>7, <2>1, <3>3, OwnContents
      <4>2. CASE w = Import
        BY <1>1, <3>1, <4>1, <4>2 DEF FilesInv, ImportInv
      <4>3. CASE w \in Logins
        BY <4>1, <4>3 DEF o
      <4>4. CASE w = Saver
        BY <1>1, <3>3, <4>1, <4>4 DEF FilesInv, SaverInv
      <4>5. QED
        BY <4>2, <4>3, <4>4, AccountsAssumption
    <3>4. QED
      BY <3>2, <3>3
  <2>2. QED
    BY <1>10, <2>1 DEF ImportInv
<1>15. \A n \in Names, a \in Ids : Engaged(w, n, a) => disk'[n] = Own(a)
  BY <1>4, <1>7
<1>16. QED
  BY <1>3, <1>8, <1>10, <1>11, <1>12, <1>13, <1>14, <1>15 DEF FilesInv

LEMMA RaiseKeepsFiles ==
  ASSUME FilesInv, NEW w \in Writers, WriteRaises(w),
         importing' = importing \/ (w = Import /\ importing' = NoImport)
  PROVE  FilesInv' /\ disk' = disk /\ job' = [job EXCEPT ![w] = NoJob]
<1> DEFINE m == job[w].name
<1>1. /\ job[w].at = "replace" /\ m \in Names
  BY JobShape DEF WriteRaises, FilesInv
<1>2. /\ disk' = disk /\ tmp' = [tmp EXCEPT ![m] = IF Alone(w) THEN NoFile ELSE tmp[m]]
      /\ job' = [job EXCEPT ![w] = NoJob]
  BY DEF WriteRaises
<1>3. /\ tmp' \in [Names -> Owned \cup {NoFile, Torn}]
      /\ tmp'[m] = IF Alone(w) THEN NoFile ELSE tmp[m]
      /\ \A n \in Names \ {m} : tmp'[n] = tmp[n]
  BY <1>1, <1>2 DEF FilesInv, FileTypes
<1>4. EndOfWrite(w)
  BY <1>2 DEF EndOfWrite
<1>5. /\ job' \in [Writers -> FileJobs \cup {NoJob}] /\ job'[w] = NoJob
      /\ \A v \in Writers \ {w} : job'[v] = job[v]
      /\ \A v \in Writers : \A n, a : Engaged(v, n, a)' => Engaged(v, n, a)
      /\ importing' \in [todo : SUBSET Ids, used : SUBSET (Names \X Ids)]
      /\ importing'.used \subseteq importing.used
      /\ SaverInv'
      /\ \A n \in Names, a \in Ids : Engaged(Import, n, a)' => <<n, a>> \in importing'.used
      /\ importing'.todo # {} => importing' = importing
  BY <1>2, <1>4, EndsKeepParts
<1>6. FileTypes'
  BY <1>2, <1>3, <1>5 DEF FilesInv, FileTypes
<1>7. OwnersInv'
  <2>1. ASSUME NEW n \in Names, NEW a \in Ids, Owns(a, n)' PROVE Owns(a, n)
    <3>1. tmp'[n] = Own(a) => tmp[n] = Own(a)
      <4>1. Own(a) # NoFile
        BY OwnContents DEF Owned
      <4>2. QED
        BY <1>3, <4>1
    <3>2. QED
      BY <1>2, <1>5, <2>1, <3>1 DEF Owns
  <2>2. QED
    BY <2>1, ClaimsFall DEF FilesInv
<1>8. TmpInv'
  <2>1. ASSUME NEW n \in Names
        PROVE  /\ tmp'[n] # NoFile => \E v \in Writers : job'[v].at \in {"fill", "replace"} /\ job'[v].name = n
               /\ tmp'[n] = Torn => \E v \in Writers : job'[v].at = "fill" /\ job'[v].name = n
    <3>1. CASE n = m /\ Alone(w)
      BY <1>3, <3>1, OwnContents
    <3>2. CASE n = m /\ ~Alone(w)
      <4>1. PICK v \in Writers \ {w} : job[v] \in Jobs /\ job[v].name = n
        BY <3>2 DEF Alone
      <4>2. job'[v] = job[v] /\ job[v].at \in {"fill", "replace"}
        BY <1>5, <4>1 DEF Jobs
      <4>3. tmp'[n] = Torn => \E u \in Writers : job'[u].at = "fill" /\ job'[u].name = n
        <5> SUFFICES ASSUME tmp[n] = Torn
                     PROVE  \E u \in Writers : job'[u].at = "fill" /\ job'[u].name = n
          BY <1>3, <3>2
        <5>1. PICK u \in Writers : job[u].at = "fill" /\ job[u].name = n
          BY DEF FilesInv, TmpInv
        <5>2. u # w
          BY <1>1, <5>1
        <5>3. QED
          BY <1>5, <5>1, <5>2
      <4>4. QED
        BY <4>1, <4>2, <4>3
    <3>3. CASE n # m
      <4>1. tmp'[n] = tmp[n] /\ \A v \in Writers : job[v].name = n => v # w
        BY <1>3, <3>3
      <4>2. QED
        BY <1>5, <4>1 DEF FilesInv, TmpInv
    <3>4. QED
      BY <3>1, <3>2, <3>3
  <2>2. QED
    BY <2>1 DEF TmpInv
<1>9. ImportInv'
  BY <1>2, <1>5 DEF FilesInv, ImportInv
<1>10. QED
  BY <1>2, <1>5, <1>6, <1>7, <1>8, <1>9 DEF FilesInv

LEMMA OpenKeepsFiles ==
  ASSUME FilesInv, NEW w \in Writers, NEW m \in Names, NEW o \in Ids, OpenTmp(w, m, Own(o)),
         \A n, a : Engaged(w, n, a) => n = m /\ a = o,
         m \in {BaseName[o], AltName[o]},
         \A b \in Ids : Owns(b, m) => b = o,
         w = Saver => disk[m] = Own(o),
         \/ w # Import /\ importing' = importing
         \/ w = Import /\ importing' = [todo |-> importing.todo \ {o},
                                        used |-> {u \in importing.used : u[1] # m} \cup {<<m, o>>}]
  PROVE  /\ FilesInv' /\ disk' = disk
         /\ \A v \in Writers \ {w} : job'[v] = job[v]
         /\ job'[w] # NoJob /\ Engaged(w, m, o)'
<1> DEFINE j == [at |-> "fill", name |-> m, content |-> Own(o)]
<1>1. j \in FileJobs /\ j.at = "fill" /\ j.name = m /\ OwnerOf(j) = o
  <2>1. j \in FileJobs
    BY DEF FileJobs, Owned
  <2>2. QED
    BY <2>1, OwnContents DEF OwnerOf
<1>2. disk' = disk /\ tmp' = [tmp EXCEPT ![m] = Torn] /\ job' = [job EXCEPT ![w] = j]
  BY DEF OpenTmp
<1> HIDE DEF j
<1>3. /\ job' \in [Writers -> FileJobs \cup {NoJob}] /\ job'[w] = j
      /\ \A v \in Writers \ {w} : job'[v] = job[v]
      /\ \A v \in Writers \ {w} : \A n, a : Engaged(v, n, a)' <=> Engaged(v, n, a)
  BY <1>1, <1>2, OneJob DEF FilesInv
<1>4. \A n, a : Engaged(w, n, a)' <=> n = m /\ a = o
  BY <1>1, <1>3 DEF Engaged
<1>5. /\ tmp' \in [Names -> Owned \cup {NoFile, Torn}] /\ tmp'[m] = Torn
      /\ \A n \in Names \ {m} : tmp'[n] = tmp[n]
  BY <1>2 DEF FilesInv, FileTypes
<1>6. /\ importing' \in [todo : SUBSET Ids, used : SUBSET (Names \X Ids)]
      /\ \A n \in Names, a \in Ids :
           <<n, a>> \in importing'.used => <<n, a>> \in importing.used \/ (n = m /\ a = o)
      /\ \A n \in Names, a \in Ids : <<n, a>> \in importing.used /\ n # m => <<n, a>> \in importing'.used
      /\ importing'.todo # {} => importing.todo # {}
      /\ w = Import => <<m, o>> \in importing'.used
      /\ w # Import => importing' = importing
  BY DEF FilesInv, FileTypes
<1>7. FileTypes'
  BY <1>2, <1>3, <1>5, <1>6 DEF FilesInv, FileTypes
<1>8. OwnersInv'
  <2>1. ASSUME NEW n \in Names, NEW a \in Ids, Owns(a, n)'
        PROVE  Owns(a, n) \/ (a = o /\ n = m)
    <3>1. tmp'[n] = Own(a) => tmp[n] = Own(a)
      <4>1. Own(a) # Torn
        BY OwnContents DEF Owned
      <4>2. QED
        BY <1>5, <4>1
    <3>2. (\E v \in Writers : Engaged(v, n, a)') => (\E v \in Writers : Engaged(v, n, a)) \/ (a = o /\ n = m)
      BY <1>3, <1>4
    <3>3. QED
      BY <1>2, <1>6, <2>1, <3>1, <3>2 DEF Owns
  <2>2. QED
    BY <2>1, ClaimAdded DEF FilesInv
<1>9. TmpInv'
  <2>1. ASSUME NEW n \in Names
        PROVE  /\ tmp'[n] # NoFile => \E v \in Writers : job'[v].at \in {"fill", "replace"} /\ job'[v].name = n
               /\ tmp'[n] = Torn => \E v \in Writers : job'[v].at = "fill" /\ job'[v].name = n
    <3>1. CASE n = m
      BY <1>1, <1>3, <3>1
    <3>2. CASE n # m
      <4>1. \A v \in Writers : job[v].at # "none" /\ job[v].name = n => v # w
        BY <3>2 DEF Engaged
      <4>2. QED
        BY <1>3, <1>5, <3>2, <4>1 DEF FilesInv, TmpInv
    <3>3. QED
      BY <3>1, <3>2
  <2>2. QED
    BY <2>1 DEF TmpInv
<1>10. SaverInv'
  <2>1. \A v \in Writers \ {Saver} : job'[v].at \in {"none", "fill", "replace"}
    BY <1>1, <1>3 DEF FilesInv, SaverInv
  <2>2. ASSUME NEW n \in Names, NEW a \in Ids, Engaged(Saver, n, a)' PROVE disk'[n] = Own(a)
    <3>1. Saver \in Writers
      BY AccountsAssumption
    <3>2. CASE w = Saver
      BY <1>2, <1>4, <2>2, <3>2
    <3>3. CASE w # Saver
      BY <1>2, <1>3, <2>2, <3>1, <3>3 DEF FilesInv, SaverInv
    <3>4. QED
      BY <3>2, <3>3
  <2>3. QED
    BY <2>1, <2>2 DEF SaverInv
<1>11. ImportInv'
  <2>1. ASSUME NEW n \in Names, NEW a \in Ids, Engaged(Import, n, a)'
        PROVE  <<n, a>> \in importing'.used
    <3>1. Import \in Writers
      BY AccountsAssumption
    <3>2. CASE w = Import
      BY <1>4, <1>6, <2>1, <3>2
    <3>3. CASE w # Import
      BY <1>3, <1>6, <2>1, <3>1, <3>3 DEF FilesInv, ImportInv
    <3>4. QED
      BY <3>2, <3>3
  <2>2. ASSUME importing'.todo # {}, NEW n \in Names, NEW a \in Ids, disk'[n] = Own(a)
        PROVE  <<n, a>> \in importing'.used \/ a \in LoginIds
    <3>1. disk[n] = Own(a) /\ Owns(a, n)
      BY <1>2, <2>2 DEF Owns
    <3>2. <<n, a>> \in importing.used \/ a \in LoginIds
      BY <1>6, <2>2, <3>1 DEF FilesInv, ImportInv
    <3>3. n = m => a = o
      BY <3>1
    <3>4. QED
      BY <1>6, <3>2, <3>3
  <2>3. QED
    BY <2>1, <2>2 DEF ImportInv
<1>12. job'[w] # NoJob
  BY <1>1, <1>3 DEF NoJob
<1>13. QED
  BY <1>2, <1>3, <1>4, <1>7, <1>8, <1>9, <1>10, <1>11, <1>12 DEF FilesInv

-----------------------------------------------------------------------------
(* The saver, the import and the logins between writes.                    *)

LEMMA SaverBetweenWrites ==
  ASSUME FilesInv, NEW j \in FileJobs, j.at \in {"parse", "parsed"},
         disk[j.name] = Own(OwnerOf(j)), job[Saver].at \notin {"fill", "replace"},
         job' = [job EXCEPT ![Saver] = j], UNCHANGED <<disk, tmp, importing>>
  PROVE  FilesInv' /\ \A l \in Logins : job'[l] = job[l]
<1>1. Saver \in Writers /\ Import \in Writers \ {Saver} /\ Logins \subseteq Writers \ {Saver}
  BY AccountsAssumption
<1>2. /\ job' \in [Writers -> FileJobs \cup {NoJob}] /\ job'[Saver] = j
      /\ \A v \in Writers \ {Saver} : job'[v] = job[v]
      /\ \A v \in Writers \ {Saver} : \A n, a : Engaged(v, n, a)' <=> Engaged(v, n, a)
  BY <1>1, OneJob DEF FilesInv
<1>3. \A n, a : Engaged(Saver, n, a)' => disk[n] = Own(a)
  BY <1>2 DEF Engaged
<1>4. FileTypes'
  BY <1>2 DEF FilesInv, FileTypes
<1>5. OwnersInv'
  <2>1. ASSUME NEW n \in Names, NEW a \in Ids, Owns(a, n)' PROVE Owns(a, n)
    BY <1>2, <1>3, <2>1 DEF Owns
  <2>2. QED
    BY <2>1, ClaimsFall DEF FilesInv
<1>6. TmpInv'
  BY <1>2 DEF FilesInv, TmpInv
<1>7. SaverInv'
  BY <1>1, <1>2, <1>3 DEF FilesInv, SaverInv
<1>8. ImportInv'
  BY <1>1, <1>2 DEF FilesInv, ImportInv
<1>9. QED
  BY <1>1, <1>2, <1>4, <1>5, <1>6, <1>7, <1>8 DEF FilesInv

LEMMA ReadableIsOwned ==
  ASSUME FileTypes, NEW n \in Names
  PROVE  Readable(n) <=> \E a \in Ids : disk[n] = Own(a)
  BY OwnContents, ContentsAssumption DEF FileTypes, Readable, Owned

LEMMA LoadableFile ==
  ASSUME FileTypes, NEW a \in Ids
  PROVE  /\ a \in Loadable <=> \E n \in Names : disk[n] = Own(a)
         /\ a \in Loadable => FileOf(a) \in Names /\ disk[FileOf(a)] = Own(a)
<1>1. \A n \in Names : Readable(n) /\ disk[n].id = a <=> disk[n] = Own(a)
  BY ReadableIsOwned, OwnContents
<1>2. a \in Loadable <=> \E n \in Names : disk[n] = Own(a)
  BY <1>1 DEF Loadable
<1>3. a \in Loadable => \E n \in Names : Readable(n) /\ disk[n].id = a
  BY <1>1, <1>2
<1>4. QED
  BY <1>1, <1>2, <1>3 DEF FileOf

LEMMA ImportStartsKeepsFiles ==
  ASSUME FilesInv, ImportStarts
  PROVE  FilesInv'
<1>1. PICK slots \in SUBSET Ids : importing' = [todo |-> slots, used |-> UsedNames]
  BY DEF ImportStarts
<1>2. disk' = disk /\ tmp' = tmp /\ job' = job /\ job[Import] = NoJob
  BY DEF ImportStarts, fileVars
<1>3. \A n \in Names, a \in Ids : <<n, a>> \in UsedNames <=> disk[n] = Own(a)
  BY ReadableIsOwned, OwnContents DEF UsedNames, FilesInv
<1>4. UsedNames \subseteq Names \X Ids
  BY ReadableIsOwned, OwnContents DEF UsedNames, FilesInv
<1>5. \A v, n, a : Engaged(v, n, a)' <=> Engaged(v, n, a)
  BY <1>2 DEF Engaged, OwnerOf
<1>6. FileTypes' /\ TmpInv'
  BY <1>1, <1>2, <1>4 DEF FilesInv, FileTypes, TmpInv
<1>7. OwnersInv'
  <2>1. ASSUME NEW n \in Names, NEW a \in Ids, Owns(a, n)' PROVE Owns(a, n)
    BY <1>1, <1>2, <1>3, <1>5, <2>1 DEF Owns
  <2>2. QED
    BY <2>1, ClaimsFall DEF FilesInv
<1>8. SaverInv'
  BY <1>2, <1>5 DEF FilesInv, SaverInv
<1>9. ImportInv'
  <2>1. \A n, a : ~Engaged(Import, n, a)
    BY <1>2 DEF Engaged, NoJob
  <2>2. QED
    BY <1>1, <1>2, <1>3, <1>5, <2>1 DEF ImportInv
<1>10. QED
  BY <1>6, <1>7, <1>8, <1>9 DEF FilesInv

\* The name an import picks belongs to nobody else, though it only looked once.
LEMMA ImportNextKeepsFiles ==
  ASSUME FilesInv, LoginInv, UnsharedNames, ImportNext
  PROVE  FilesInv' /\ disk' = disk /\ \A l \in Logins : job'[l] = job[l]
<1>1. PICK o \in importing.todo :
        LET n == SnapshotFilename(o, importing.used)
        IN  /\ importing' = [todo |-> importing.todo \ {o},
                             used |-> {u \in importing.used : u[1] # n} \cup {<<n, o>>}]
            /\ OpenTmp(Import, n, Own(o))
  BY DEF ImportNext
<1> DEFINE m == SnapshotFilename(o, importing.used)
<1>2. o \in Ids /\ importing.todo # {} /\ job[Import] = NoJob
  BY DEF FilesInv, FileTypes, ImportNext
<1>3. m \in {BaseName[o], AltName[o]} /\ m \in Names
  BY <1>2, NamesAssumption DEF SnapshotFilename
<1>4. m = BaseName[o] => \A u \in importing.used : u[1] = m => u[2] = o
  <2>1. BaseName[o] # AltName[o]
    BY <1>2, NamesAssumption
  <2>2. QED
    BY <2>1 DEF SnapshotFilename
<1>5. \A n, a : ~Engaged(Import, n, a)
  BY <1>2 DEF Engaged, NoJob
<1>6. Import \in Writers /\ Import # Saver /\ Import \notin Logins /\ Logins \subseteq Writers
  BY AccountsAssumption
<1>7. importing' = [todo |-> importing.todo \ {o},
                    used |-> {u \in importing.used : u[1] # m} \cup {<<m, o>>}]
      /\ OpenTmp(Import, m, Own(o))
  BY <1>1
<1> HIDE DEF m
<1>8. ASSUME NEW b \in Ids, Owns(b, m) PROVE b = o
  <2>1. m \in {BaseName[b], AltName[b]}
    BY <1>3, <1>8 DEF FilesInv, OwnersInv
  <2>2. CASE m = AltName[o]
    BY <1>2, <2>1, <2>2, NamesAssumption
  <2>3. CASE m = BaseName[o] /\ b # o
    <3>1. BaseName[b] = BaseName[o]
      BY <1>2, <2>1, <2>3, NamesAssumption
    <3>2. b \notin LoginIds /\ o \notin LoginIds
      BY <1>2, <2>3, <3>1, AccountsAssumption DEF UnsharedNames
    <3>3. <<m, b>> \notin importing.used
      BY <1>4, <2>3
    <3>4. disk[m] # Own(b)
      BY <1>2, <1>3, <3>2, <3>3 DEF FilesInv, ImportInv
    <3>5. \A w \in Writers : ~Engaged(w, m, b)
      <4>1. ASSUME NEW l \in Logins PROVE ~Engaged(l, m, b)
        <5>1. job[l] # NoJob => Engaged(l, BaseName[login[l].id], login[l].id) /\ login[l].id \in LoginIds
          BY DEF LoginInv, LoginOK, RecordOK
        <5>2. QED
          BY <3>2, <5>1 DEF Engaged, NoJob
      <4>2. ~Engaged(Saver, m, b)
        BY <1>3, <3>4 DEF FilesInv, SaverInv
      <4>3. QED
        BY <1>5, <4>1, <4>2, AccountsAssumption
    <3>6. tmp[m] = Own(b)
      BY <1>8, <3>3, <3>4, <3>5 DEF Owns
    <3>7. PICK w \in Writers : job[w].at \in {"fill", "replace"} /\ job[w].name = m
      BY <1>3, <3>6, OwnContents DEF FilesInv, TmpInv, Owned
    <3>8. Engaged(w, m, OwnerOf(job[w])) /\ OwnerOf(job[w]) \in Ids
      BY <3>7, JobShape DEF FilesInv
    <3>9. OwnerOf(job[w]) = b
      <4>1. Owns(OwnerOf(job[w]), m)
        BY <3>8 DEF Owns
      <4>2. QED
        BY <1>3, <1>8, <3>8, <4>1 DEF FilesInv, OwnersInv
    <3>10. QED
      BY <3>5, <3>8, <3>9
  <2>4. QED
    BY <1>3, <2>2, <2>3
<1>9. QED
  BY <1>2, <1>3, <1>5, <1>6, <1>7, <1>8, OpenKeepsFiles

\* A login writes under a name no other account can claim.
LEMMA LoginOpensKeepsFiles ==
  ASSUME FilesInv, LoginInv, UnsharedNames, NEW l \in Logins, login[l].at = "register",
         OpenTmp(l, SnapshotFilename(login[l].id, {}), Own(login[l].id)), importing' = importing
  PROVE  /\ FilesInv' /\ disk' = disk
         /\ \A x \in Logins \ {l} : job'[x] = job[x]
         /\ job'[l] # NoJob
         /\ \A o \in Ids : o = login[l].id => Engaged(l, BaseName[o], o)'
<1>1. PICK o \in LoginIds : o = login[l].id /\ o \in Ids /\ job[l] = NoJob
  BY AccountsAssumption DEF LoginInv, LoginOK, RecordOK
<1>2. PICK m \in Names : m = BaseName[o] /\ SnapshotFilename(o, {}) = m
  BY <1>1, NamesAssumption DEF SnapshotFilename
<1>3. l \in Writers /\ l # Saver /\ l # Import /\ Logins \subseteq Writers
  BY AccountsAssumption
<1>4. \A n, a : ~Engaged(l, n, a)
  BY <1>1 DEF Engaged, NoJob
<1>5. ASSUME NEW b \in Ids, Owns(b, m) PROVE b = o
  <2>1. m \in {BaseName[b], AltName[b]}
    BY <1>2, <1>5 DEF FilesInv, OwnersInv
  <2>2. m = BaseName[b]
    BY <1>1, <1>2, <2>1, NamesAssumption
  <2>3. QED
    BY <1>1, <1>2, <2>2 DEF UnsharedNames
<1>6. OpenTmp(l, m, Own(o))
  BY <1>1, <1>2
<1>7. /\ FilesInv' /\ disk' = disk /\ \A v \in Writers \ {l} : job'[v] = job[v]
      /\ job'[l] # NoJob /\ Engaged(l, m, o)'
  BY <1>1, <1>2, <1>3, <1>4, <1>5, <1>6, OpenKeepsFiles
<1>8. QED
  BY <1>1, <1>2, <1>3, <1>7

-----------------------------------------------------------------------------
(* Logins and the pool.                                                    *)

DiskGrows == \A n \in Names, a \in Ids : disk[n] = Own(a) => disk'[n] = Own(a)

LEMMA OneLogin ==
  ASSUME LoginInv, NEW l \in Logins, NEW r \in LoginRecords, login' = [login EXCEPT ![l] = r],
         current' \in Logins \cup {NoLogin}, DiskGrows,
         \A x \in Logins \ {l} : job'[x] = job[x],
         RecordOK(r), r.at = "persist" <=> job'[l] # NoJob,
         \A o \in Ids : r.at = "persist" /\ o = r.id => Engaged(l, BaseName[o], o)',
         r.at = "upsert" => disk'[BaseName[r.id]] = Own(r.id)
  PROVE  LoginInv'
<1>1. login' \in [Logins -> LoginRecords] /\ login'[l] = r
      /\ \A x \in Logins \ {l} : login'[x] = login[x]
  BY DEF LoginInv
<1>2. LoginOK(l)'
  <2>1. r.at = "persist" => Engaged(l, BaseName[login[l].id], login[l].id)'
    <3>1. r.at = "persist" => r.id \in Ids
      BY AccountsAssumption DEF RecordOK
    <3>2. QED
      BY <1>1, <3>1 DEF Engaged
  <2>2. RecordOK(login[l])'
    BY <1>1 DEF RecordOK
  <2>3. QED
    BY <1>1, <2>1, <2>2 DEF LoginOK
<1>3. ASSUME NEW x \in Logins, x # l PROVE LoginOK(x)'
  <2>1. login'[x] = login[x] /\ job'[x] = job[x] /\ LoginOK(x)
    BY <1>1, <1>3 DEF LoginInv
  <2>2. login[x].at = "upsert" => disk'[BaseName[login[x].id]] = Own(login[x].id)
    BY <2>1, AccountsAssumption, NamesAssumption DEF LoginOK, RecordOK, DiskGrows
  <2>3. Engaged(x, BaseName[login[x].id], login[x].id) => Engaged(x, BaseName[login[x].id], login[x].id)'
    BY <2>1 DEF Engaged, OwnerOf
  <2>4. RecordOK(login[x])'
    BY <2>1 DEF LoginOK, RecordOK
  <2>5. QED
    BY <2>1, <2>2, <2>3, <2>4 DEF LoginOK
<1>4. QED
  BY <1>1, <1>2, <1>3 DEF LoginInv

LEMMA LoginsFrame ==
  ASSUME LoginInv, login' = login, current' = current, DiskGrows,
         \A l \in Logins : job'[l] # NoJob <=> job[l] # NoJob,
         \A l \in Logins, n \in Names, a \in Ids : Engaged(l, n, a) => Engaged(l, n, a)'
  PROVE  LoginInv'
<1>1. ASSUME NEW l \in Logins PROVE LoginOK(l)'
  <2>1. LoginOK(l) /\ RecordOK(login[l]) /\ login' = login
    BY DEF LoginInv, LoginOK
  <2>2. login[l].at \in {"persist", "upsert"} => login[l].id \in Ids /\ BaseName[login[l].id] \in Names
    BY <2>1, AccountsAssumption, NamesAssumption DEF RecordOK
  <2>3. login[l].at = "upsert" => disk'[BaseName[login[l].id]] = Own(login[l].id)
    BY <2>1, <2>2 DEF LoginOK, DiskGrows
  <2>4. login[l].at = "persist" => Engaged(l, BaseName[login[l].id], login[l].id)'
    <3> SUFFICES ASSUME NEW o \in Ids, NEW m \in Names, o = login[l].id, m = BaseName[o],
                        login[l].at = "persist"
                 PROVE  Engaged(l, m, o)'
      BY <2>1, <2>2 DEF Engaged
    <3>1. Engaged(l, m, o)
      BY <2>1 DEF LoginOK
    <3>2. QED
      BY <3>1
  <2>5. RecordOK(login[l])'
    BY <2>1 DEF RecordOK
  <2>6. QED
    BY <2>1, <2>3, <2>4, <2>5 DEF LoginOK
<1>2. QED
  BY <1>1 DEF LoginInv

LEMMA PoolFrame ==
  ASSUME PoolInv, pool' = pool, DiskGrows
  PROVE  PoolInv'
  BY DEF PoolInv, DiskGrows

\* A login moves on without touching files or pool.
LEMMA QuietLogin ==
  ASSUME Inductive, NEW l \in Logins, NEW r \in LoginRecords, OnlyLogin(l, r), RecordOK(r),
         \/ r.at = login[l].at /\ r.id = login[l].id
         \/ login[l].at # "persist" /\ r.at \notin {"persist", "upsert"}
  PROVE  Inductive'
<1>1. /\ login' = [login EXCEPT ![l] = r]
      /\ UNCHANGED <<fileVars, current, pool, importing>> /\ disk' = disk /\ job' = job
  BY DEF OnlyLogin, fileVars
<1>2. FilesInv' /\ DiskGrows
  BY <1>1, FilesFrame DEF Inductive, DiskGrows
<1>3. LoginOK(l) /\ current' \in Logins \cup {NoLogin}
  BY <1>1 DEF Inductive, LoginInv
<1>4. \A o \in Ids : r.at = "persist" /\ o = r.id => Engaged(l, BaseName[o], o)'
  BY <1>1, <1>3 DEF LoginOK, Engaged, OwnerOf
<1>5. LoginInv'
  BY <1>1, <1>2, <1>3, <1>4, OneLogin DEF Inductive, LoginOK
<1>6. PoolInv'
  BY <1>1, <1>2, PoolFrame DEF Inductive
<1>7. QED
  BY <1>2, <1>5, <1>6 DEF Inductive

LEMMA QuietSteps ==
  ASSUME Inductive, NEW l \in Logins,
         \/ RunStarts(l) \/ Authorized(l) \/ SeesCancel(l) \/ PollAnswered(l) \/ PollAgain(l)
         \/ PollDeadline(l) \/ LoginChecked(l) \/ CancelTimesOut(l) \/ LoginCancel(l)
         \/ login[l].at = "register" /\ OnlyLogin(l, Fails(l))
  PROVE  Inductive'
<1>1. login[l] \in LoginRecords /\ RecordOK(login[l])
  BY DEF Inductive, LoginInv, LoginOK
<1> USE DEF LoginRecords, RecordOK, Points, States, Before
<1>2. CASE RunStarts(l)
  <2> DEFINE r == [login[l] EXCEPT !.at = "authorize", !.state = "awaiting_user"]
  <2>1. r \in LoginRecords /\ RecordOK(r) /\ r.at = "authorize"
    BY <1>1, <1>2 DEF RunStarts
  <2>2. QED
    BY <1>2, <2>1, QuietLogin DEF RunStarts
<1>3. ASSUME login[l].at \in {"authorize", "ask", "register"}, OnlyLogin(l, Fails(l)) PROVE Inductive'
  <2>1. Fails(l) \in LoginRecords /\ RecordOK(Fails(l)) /\ Fails(l).at = "end"
    BY <1>1, <1>3 DEF Fails
  <2>2. QED
    BY <1>3, <2>1, QuietLogin
<1>4. ASSUME login[l].at \in {"authorize", "sleep"}, OnlyLogin(l, [login[l] EXCEPT !.at = "ask"])
      PROVE  Inductive'
  <2> DEFINE r == [login[l] EXCEPT !.at = "ask"]
  <2>1. r \in LoginRecords /\ RecordOK(r) /\ r.at = "ask"
    BY <1>1, <1>4
  <2>2. QED
    BY <1>4, <2>1, QuietLogin
<1>5. CASE Authorized(l)
  BY <1>3, <1>4, <1>5 DEF Authorized
<1>6. CASE SeesCancel(l) \/ CancelTimesOut(l)
  <2> DEFINE r == [login[l] EXCEPT !.at = "end", !.state = "cancelled"]
  <2>1. r \in LoginRecords /\ RecordOK(r) /\ r.at = "end" /\ login[l].at # "persist"
    BY <1>1, <1>6 DEF SeesCancel, CancelTimesOut
  <2>2. QED
    BY <1>6, <2>1, QuietLogin DEF SeesCancel, CancelTimesOut
<1>7. ASSUME login[l].at \in {"ask", "sleep"},
             OnlyLogin(l, [login[l] EXCEPT !.at = "end", !.state = "expired"])
      PROVE  Inductive'
  <2> DEFINE r == [login[l] EXCEPT !.at = "end", !.state = "expired"]
  <2>1. r \in LoginRecords /\ RecordOK(r) /\ r.at = "end"
    BY <1>1, <1>7
  <2>2. QED
    BY <1>7, <2>1, QuietLogin
<1>8. CASE PollAnswered(l)
  <2>1. ASSUME OnlyLogin(l, [login[l] EXCEPT !.at = "sleep"]) PROVE Inductive'
    <3> DEFINE r == [login[l] EXCEPT !.at = "sleep"]
    <3>1. r \in LoginRecords /\ RecordOK(r) /\ r.at = "sleep"
      BY <1>1, <1>8 DEF PollAnswered
    <3>2. QED
      BY <1>8, <2>1, <3>1, QuietLogin DEF PollAnswered
  <2>2. ASSUME NEW a \in LoginIds,
               OnlyLogin(l, [login[l] EXCEPT !.at = "register", !.state = "registering", !.id = a])
        PROVE  Inductive'
    <3> DEFINE r == [login[l] EXCEPT !.at = "register", !.state = "registering", !.id = a]
    <3>1. r \in LoginRecords /\ RecordOK(r) /\ r.at = "register"
      BY <1>1, <1>8 DEF PollAnswered
    <3>2. QED
      BY <1>8, <2>2, <3>1, QuietLogin DEF PollAnswered
  <2>3. QED
    BY <1>3, <1>7, <1>8, <2>1, <2>2 DEF PollAnswered
<1>9. CASE PollAgain(l)
  BY <1>4, <1>9 DEF PollAgain
<1>10. CASE PollDeadline(l)
  BY <1>7, <1>10 DEF PollDeadline
<1>11. CASE LoginChecked(l)
  <2> DEFINE r == [login[l] EXCEPT !.at = "end", !.state = "done"]
  <2>1. r \in LoginRecords /\ RecordOK(r) /\ r.at = "end"
    BY <1>1, <1>11 DEF LoginChecked
  <2>2. QED
    BY <1>11, <2>1, QuietLogin DEF LoginChecked
<1>12. CASE LoginCancel(l)
  <2> DEFINE r == [login[l] EXCEPT !.cancel = TRUE]
  <2>1. r \in LoginRecords /\ RecordOK(r) /\ r.at = login[l].at /\ r.id = login[l].id
    BY <1>1
  <2>2. QED
    BY <1>12, <2>1, QuietLogin DEF LoginCancel
<1>13. QED
  BY <1>2, <1>3, <1>5, <1>6, <1>8, <1>9, <1>10, <1>11, <1>12

LEMMA StartStep ==
  ASSUME Inductive, NEW l \in Logins, LoginStart(l)
  PROVE  Inductive'
<1> DEFINE r == [login[l] EXCEPT !.at = "new"]
<1>1. login[l] \in LoginRecords /\ LoginOK(l) /\ login[l].at = "unborn"
  BY DEF Inductive, LoginInv, LoginStart
<1>2. r \in LoginRecords /\ RecordOK(r) /\ r.at = "new"
  BY <1>1 DEF LoginOK, LoginRecords, RecordOK, Points, Before
<1>3. /\ login' = [login EXCEPT ![l] = r] /\ current' \in Logins \cup {NoLogin}
      /\ UNCHANGED <<fileVars, importing, pool>> /\ disk' = disk /\ job' = job
  BY DEF LoginStart, fileVars
<1> HIDE DEF r
<1>4. FilesInv' /\ DiskGrows
  BY <1>3, FilesFrame DEF Inductive, DiskGrows
<1>5. LoginInv'
  BY <1>1, <1>2, <1>3, <1>4, OneLogin DEF Inductive, LoginOK
<1>6. PoolInv'
  BY <1>3, <1>4, PoolFrame DEF Inductive
<1>7. QED
  BY <1>4, <1>5, <1>6 DEF Inductive

LEMMA RegisteredStep ==
  ASSUME Inductive, UnsharedNames, NEW l \in Logins, Registered(l)
  PROVE  Inductive'
<1>1. CASE OnlyLogin(l, Fails(l))
  BY <1>1, QuietSteps DEF Registered
<1>2. CASE ~OnlyLogin(l, Fails(l))
  <2> DEFINE r == [login[l] EXCEPT !.at = "persist"]
  <2>1. /\ login[l] \in LoginRecords /\ LoginOK(l) /\ login[l].at = "register"
    BY DEF Inductive, LoginInv, Registered
  <2>2. r \in LoginRecords /\ RecordOK(r) /\ r.at = "persist" /\ r.id = login[l].id
    BY <2>1 DEF LoginOK, LoginRecords, RecordOK, Points, Before
  <2>3. /\ login' = [login EXCEPT ![l] = r]
        /\ OpenTmp(l, SnapshotFilename(login[l].id, {}), Own(login[l].id))
        /\ UNCHANGED <<current, pool, importing>>
    BY <1>2 DEF Registered
  <2> HIDE DEF r
  <2>4. /\ FilesInv' /\ disk' = disk
        /\ \A x \in Logins \ {l} : job'[x] = job[x]
        /\ job'[l] # NoJob
        /\ \A o \in Ids : o = login[l].id => Engaged(l, BaseName[o], o)'
    BY <2>1, <2>3, LoginOpensKeepsFiles DEF Inductive
  <2>5. DiskGrows /\ current' \in Logins \cup {NoLogin}
    BY <2>3, <2>4 DEF DiskGrows, Inductive, LoginInv
  <2>6. LoginInv'
    BY <2>2, <2>3, <2>4, <2>5, OneLogin DEF Inductive
  <2>7. PoolInv'
    BY <2>3, <2>5, PoolFrame DEF Inductive
  <2>8. QED
    BY <2>4, <2>6, <2>7 DEF Inductive
<1>3. QED
  BY <1>1, <1>2

LEMMA LoginWritesStep ==
  ASSUME Inductive, NEW l \in Logins, LoginWrites(l)
  PROVE  Inductive'
<1>1. /\ login[l] \in LoginRecords /\ LoginOK(l) /\ login[l].at = "persist"
      /\ login[l].id \in LoginIds /\ login[l].id \in Ids
      /\ UNCHANGED <<current, pool, importing>> /\ current' \in Logins \cup {NoLogin}
      /\ FilesInv /\ LoginInv /\ PoolInv
  BY AccountsAssumption DEF Inductive, LoginInv, LoginWrites, LoginOK, RecordOK
<1>2. /\ l \in Writers /\ l # Saver /\ l # Import /\ Logins \subseteq Writers
  BY AccountsAssumption
<1>3. Engaged(l, BaseName[login[l].id], login[l].id) /\ OwnerOf(job[l]) = login[l].id
  BY <1>1 DEF LoginOK, Engaged
<1>4. CASE FillTmp(l) /\ UNCHANGED login
  <2>1. /\ FilesInv' /\ disk' = disk
        /\ \A v \in Writers : (job'[v].at # "none" <=> job[v].at # "none")
        /\ \A v \in Writers, n \in Names, a \in Ids : Engaged(v, n, a)' <=> Engaged(v, n, a)
    BY <1>1, <1>2, <1>4, FillKeepsFiles
  <2>2. \A v \in Writers : job'[v] # NoJob <=> job[v] # NoJob
    <3>1. \A j \in FileJobs \cup {NoJob} : j = NoJob <=> j.at = "none"
      BY DEF FileJobs, NoJob
    <3>2. QED
      BY <1>1, <2>1, <3>1 DEF FilesInv, FileTypes
  <2>3. DiskGrows
    BY <2>1 DEF DiskGrows
  <2>4. LoginInv'
    BY <1>1, <1>2, <1>4, <2>1, <2>2, <2>3, LoginsFrame
  <2>5. QED
    BY <1>1, <2>1, <2>3, <2>4, PoolFrame DEF Inductive
<1>5. CASE ReplaceTmp(l) /\ login' = [login EXCEPT ![l].at = "upsert", ![l].saved = TRUE]
  <2> DEFINE r == [login[l] EXCEPT !.at = "upsert", !.saved = TRUE]
  <2>1. r \in LoginRecords /\ RecordOK(r) /\ r.at = "upsert" /\ r.id = login[l].id
    BY <1>1 DEF LoginOK, LoginRecords, RecordOK, Points, Before
  <2>2. login' = [login EXCEPT ![l] = r]
    BY <1>1, <1>5 DEF LoginInv
  <2> HIDE DEF r
  <2>3. /\ FilesInv' /\ DiskGrows
        /\ \A n \in Names, a \in Ids : Engaged(l, n, a) => disk'[n] = Own(a)
        /\ job' = [job EXCEPT ![l] = NoJob]
    BY <1>1, <1>2, <1>3, <1>5, ReplaceKeepsFiles DEF DiskGrows
  <2>4. job'[l] = NoJob /\ \A x \in Logins \ {l} : job'[x] = job[x]
    BY <1>1, <1>2, <2>3 DEF FilesInv, FileTypes
  <2>5. disk'[BaseName[r.id]] = Own(r.id)
    BY <1>1, <1>3, <2>1, <2>3, NamesAssumption
  <2>6. LoginInv'
    BY <1>1, <2>1, <2>2, <2>3, <2>4, <2>5, OneLogin
  <2>7. QED
    BY <1>1, <2>3, <2>6, PoolFrame DEF Inductive
<1>6. CASE WriteRaises(l) /\ login' = [login EXCEPT ![l] = Fails(l)]
  <2>1. Fails(l) \in LoginRecords /\ RecordOK(Fails(l)) /\ Fails(l).at = "end"
    BY <1>1 DEF Fails, LoginOK, LoginRecords, RecordOK, Points, States, Before
  <2>2. FilesInv' /\ disk' = disk /\ job' = [job EXCEPT ![l] = NoJob]
    BY <1>1, <1>2, <1>6, RaiseKeepsFiles
  <2>3. job'[l] = NoJob /\ \A x \in Logins \ {l} : job'[x] = job[x]
    BY <1>1, <1>2, <2>2 DEF FilesInv, FileTypes
  <2>4. DiskGrows
    BY <2>2 DEF DiskGrows
  <2>5. LoginInv'
    BY <1>1, <1>6, <2>1, <2>3, <2>4, OneLogin
  <2>6. QED
    BY <1>1, <2>2, <2>4, <2>5, PoolFrame DEF Inductive
<1>7. QED
  BY <1>4, <1>5, <1>6 DEF LoginWrites

LEMMA UpsertStep ==
  ASSUME Inductive, NEW l \in Logins, LoginUpserts(l)
  PROVE  Inductive'
<1> DEFINE r == [login[l] EXCEPT !.at = "check", !.pooled = TRUE]
<1>1. /\ login[l] \in LoginRecords /\ LoginOK(l) /\ login[l].at = "upsert"
      /\ login[l].id \in Ids /\ disk[BaseName[login[l].id]] = Own(login[l].id)
      /\ FilesInv /\ LoginInv /\ PoolInv
  BY AccountsAssumption DEF Inductive, LoginInv, LoginUpserts, LoginOK, RecordOK
<1>2. r \in LoginRecords /\ RecordOK(r) /\ r.at = "check"
  BY <1>1 DEF LoginOK, LoginRecords, RecordOK, Points, Before
<1>3. /\ login' = [login EXCEPT ![l] = r] /\ pool' = [pool EXCEPT ![login[l].id] = FromLogin]
      /\ UNCHANGED <<fileVars, current, importing>> /\ disk' = disk /\ job' = job
  BY <1>1 DEF LoginUpserts, fileVars, LoginInv
<1> HIDE DEF r
<1>4. FilesInv' /\ DiskGrows /\ current' \in Logins \cup {NoLogin}
  BY <1>1, <1>3, FilesFrame DEF DiskGrows, LoginInv
<1>5. LoginInv'
  BY <1>1, <1>2, <1>3, <1>4, OneLogin DEF LoginOK
<1>6. PoolInv'
  <2>1. pool' \in [Ids -> Names \cup {NotPooled, FromLogin}]
    BY <1>1, <1>3 DEF PoolInv
  <2>2. ASSUME NEW a \in Ids
        PROVE  /\ pool'[a] \in Names => disk'[pool'[a]] = Own(a)
               /\ pool'[a] = FromLogin => \E n \in Names : disk'[n] = Own(a)
    <3>1. CASE a = login[l].id
      BY <1>1, <1>3, <3>1, AccountsAssumption, NamesAssumption DEF PoolInv
    <3>2. CASE a # login[l].id
      BY <1>1, <1>3, <3>2 DEF PoolInv
    <3>3. QED
      BY <3>1, <3>2
  <2>3. QED
    BY <2>1, <2>2 DEF PoolInv
<1>7. QED
  BY <1>4, <1>5, <1>6 DEF Inductive

\* A step of the import or the saver: logins and pool are left alone.
LEMMA OtherWriter ==
  ASSUME Inductive, FilesInv', DiskGrows, UNCHANGED <<login, current, pool>>,
         \A l \in Logins : job'[l] = job[l]
  PROVE  Inductive'
<1>1. LoginInv'
  <2>1. \A l \in Logins, n \in Names, a \in Ids : Engaged(l, n, a) => Engaged(l, n, a)'
    BY DEF Engaged, OwnerOf
  <2>2. QED
    BY <2>1, LoginsFrame DEF Inductive
<1>2. PoolInv'
  BY PoolFrame DEF Inductive
<1>3. QED
  BY <1>1, <1>2 DEF Inductive

LEMMA WriterStep ==
  ASSUME Inductive, NEW w \in {Import, Saver}, UNCHANGED <<login, current, pool>>,
         FillTmp(w) \/ ReplaceTmp(w) \/ WriteRaises(w),
         importing' = importing \/ (w = Import /\ importing' = NoImport /\ ~FillTmp(w))
  PROVE  Inductive'
<1>1. FilesInv /\ w \in Writers /\ w \notin Logins /\ Logins \subseteq Writers
  BY AccountsAssumption DEF Inductive
<1>2. CASE FillTmp(w)
  <2>1. FilesInv' /\ disk' = disk
    BY <1>1, <1>2, FillKeepsFiles
  <2>2. \A l \in Logins : job'[l] = job[l]
    BY <1>1, <1>2 DEF FillTmp, FilesInv, FileTypes
  <2>3. QED
    BY <2>1, <2>2, OtherWriter DEF DiskGrows
<1>3. CASE ReplaceTmp(w)
  <2>1. FilesInv' /\ DiskGrows /\ job' = [job EXCEPT ![w] = NoJob]
    BY <1>1, <1>3, ReplaceKeepsFiles DEF DiskGrows
  <2>2. \A l \in Logins : job'[l] = job[l]
    BY <1>1, <2>1 DEF FilesInv, FileTypes
  <2>3. QED
    BY <2>1, <2>2, OtherWriter
<1>4. CASE WriteRaises(w)
  <2>1. FilesInv' /\ disk' = disk /\ job' = [job EXCEPT ![w] = NoJob]
    BY <1>1, <1>4, RaiseKeepsFiles
  <2>2. \A l \in Logins : job'[l] = job[l]
    BY <1>1, <2>1 DEF FilesInv, FileTypes
  <2>3. QED
    BY <2>1, <2>2, OtherWriter DEF DiskGrows
<1>5. QED
  BY <1>2, <1>3, <1>4

LEMMA ImportStep ==
  ASSUME Inductive, UnsharedNames, ImportStarts \/ ImportNext \/ ImportWrites
  PROVE  Inductive'
<1>1. CASE ImportStarts
  <2>1. disk' = disk /\ job' = job /\ UNCHANGED <<login, current, pool>>
    BY <1>1 DEF ImportStarts, fileVars
  <2>2. QED
    BY <1>1, <2>1, ImportStartsKeepsFiles, OtherWriter DEF Inductive, DiskGrows
<1>2. CASE ImportNext
  <2>1. FilesInv' /\ disk' = disk /\ \A l \in Logins : job'[l] = job[l]
    BY <1>2, ImportNextKeepsFiles DEF Inductive
  <2>2. UNCHANGED <<login, current, pool>>
    BY <1>2 DEF ImportNext
  <2>3. QED
    BY <2>1, <2>2, OtherWriter DEF DiskGrows
<1>3. CASE ImportWrites
  <2>1. UNCHANGED <<login, current, pool>>
    BY <1>3 DEF ImportWrites
  <2>2. CASE FillTmp(Import) /\ UNCHANGED importing
    BY <2>1, <2>2, WriterStep
  <2>3. CASE (ReplaceTmp(Import) \/ WriteRaises(Import)) /\ (importing' = importing \/ importing' = NoImport)
    <3>1. ~FillTmp(Import)
      BY <2>3 DEF FillTmp, ReplaceTmp, WriteRaises
    <3>2. QED
      BY <2>1, <2>3, <3>1, WriterStep
  <2>4. QED
    BY <1>3, <2>2, <2>3 DEF ImportWrites
<1>4. QED
  BY <1>1, <1>2, <1>3

LEMMA SaverStep ==
  ASSUME Inductive, (\E a \in Ids : TokenRefreshed(a)) \/ SaverParses \/ SaverWrites
  PROVE  Inductive'
<1>1. FilesInv /\ FileTypes /\ Saver \in Writers /\ Saver \notin Logins /\ Saver # Import
      /\ Logins \subseteq Writers
  BY AccountsAssumption DEF Inductive, FilesInv
<1>2. ASSUME NEW a \in Ids, TokenRefreshed(a) PROVE Inductive'
  <2> DEFINE j == [at |-> "parse", name |-> pool[a], id |-> a]
  <2>1. pool[a] \in Names /\ disk[pool[a]] = Own(a)
    BY <1>2 DEF TokenRefreshed, Inductive, PoolInv
  <2>2. j \in FileJobs /\ j.at = "parse" /\ j.name = pool[a] /\ OwnerOf(j) = a
    BY <2>1 DEF FileJobs, OwnerOf
  <2>3. /\ job' = [job EXCEPT ![Saver] = j] /\ job[Saver].at = "none"
        /\ UNCHANGED <<disk, tmp, importing, login, current, pool>>
    BY <1>2 DEF TokenRefreshed, NoJob
  <2> HIDE DEF j
  <2>4. FilesInv' /\ \A l \in Logins : job'[l] = job[l]
    BY <1>1, <2>1, <2>2, <2>3, SaverBetweenWrites
  <2>5. QED
    BY <2>3, <2>4, OtherWriter DEF DiskGrows
<1>3. CASE SaverParses
  <2> DEFINE m == job[Saver].name
             o == job[Saver].id
             j == [at |-> "parsed", name |-> m, content |-> [disk[m] EXCEPT !.tok = o]]
  <2>1. /\ job[Saver].at = "parse" /\ m \in Names /\ o \in Ids /\ Engaged(Saver, m, o)
    BY <1>1, <1>3, JobShape DEF SaverParses, OwnerOf
  <2>2. disk[m] = Own(o)
    BY <2>1 DEF Inductive, FilesInv, SaverInv
  <2>3. [disk[m] EXCEPT !.tok = o] = Own(o)
    BY <2>2 DEF Own
  <2>4. /\ job' = [job EXCEPT ![Saver] = j]
        /\ UNCHANGED <<disk, tmp, importing, login, current, pool>>
    BY <1>1, <1>3 DEF SaverParses, FileTypes
  <2>5. j \in FileJobs /\ j.at = "parsed" /\ j.name = m /\ OwnerOf(j) = o
    BY <2>1, <2>3, OwnContents DEF FileJobs, Owned, OwnerOf
  <2> HIDE DEF j, m, o
  <2>6. FilesInv' /\ \A l \in Logins : job'[l] = job[l]
    BY <1>1, <2>1, <2>2, <2>4, <2>5, SaverBetweenWrites
  <2>7. QED
    BY <2>4, <2>6, OtherWriter DEF DiskGrows
<1>4. CASE SaverWrites
  <2>1. UNCHANGED <<login, current, pool>> /\ importing' = importing
    BY <1>4 DEF SaverWrites
  <2>2. CASE job[Saver].at = "parsed" /\ OpenTmp(Saver, job[Saver].name, job[Saver].content)
    <3>1. PICK m \in Names, o \in Ids :
            /\ m = job[Saver].name /\ o = OwnerOf(job[Saver]) /\ Engaged(Saver, m, o)
            /\ job[Saver].content = Own(o)
      BY <1>1, <2>2, JobShape
    <3>2. disk[m] = Own(o) /\ Owns(o, m)
      BY <1>1, <3>1 DEF FilesInv, SaverInv, Owns
    <3>3. m \in {BaseName[o], AltName[o]} /\ \A b \in Ids : Owns(b, m) => b = o
      BY <1>1, <3>2 DEF FilesInv, OwnersInv
    <3>4. \A n, a : Engaged(Saver, n, a) => n = m /\ a = o
      BY <3>1 DEF Engaged
    <3>5. FilesInv' /\ disk' = disk /\ \A v \in Writers \ {Saver} : job'[v] = job[v]
      BY <1>1, <2>1, <2>2, <3>1, <3>2, <3>3, <3>4, OpenKeepsFiles
    <3>6. QED
      BY <1>1, <2>1, <3>5, OtherWriter DEF DiskGrows
  <2>3. CASE FillTmp(Saver) \/ ReplaceTmp(Saver) \/ WriteRaises(Saver)
    BY <2>1, <2>3, WriterStep
  <2>4. QED
    BY <1>4, <2>2, <2>3 DEF SaverWrites
<1>5. QED
  BY <1>2, <1>3, <1>4

LEMMA PoolStep ==
  ASSUME Inductive, PoolReload \/ \E a \in Ids : DeleteAccount(a)
  PROVE  Inductive'
<1>1. UNCHANGED <<fileVars, login, current, importing>> /\ disk' = disk /\ job' = job
  BY DEF PoolReload, DeleteAccount, fileVars
<1>2. FilesInv' /\ FileTypes
  BY <1>1, FilesFrame DEF Inductive, FilesInv
<1>3. LoginInv'
  BY <1>1, LoginsFrame DEF Inductive, DiskGrows, Engaged, OwnerOf
<1>4. CASE PoolReload
  <2>1. pool' = [a \in Ids |-> IF pool[a] = NotPooled /\ a \in Loadable THEN FileOf(a) ELSE pool[a]]
    BY <1>4 DEF PoolReload
  <2>2. ASSUME NEW a \in Ids
        PROVE  /\ pool'[a] \in Names \cup {NotPooled, FromLogin}
               /\ pool'[a] \in Names => disk[pool'[a]] = Own(a)
               /\ pool'[a] = FromLogin => \E n \in Names : disk[n] = Own(a)
    BY <1>2, <2>1, LoadableFile, AccountsAssumption DEF Inductive, PoolInv
  <2>3. PoolInv'
    BY <1>1, <2>1, <2>2 DEF PoolInv
  <2>4. QED
    BY <1>2, <1>3, <2>3 DEF Inductive
<1>5. ASSUME NEW a \in Ids, DeleteAccount(a) PROVE Inductive'
  <2>1. pool' = [pool EXCEPT ![a] = NotPooled]
    BY <1>5 DEF DeleteAccount
  <2>2. NotPooled \notin Names /\ NotPooled # FromLogin
    BY AccountsAssumption DEF NotPooled, FromLogin
  <2>3. PoolInv'
    BY <1>1, <2>1, <2>2 DEF Inductive, PoolInv
  <2>4. QED
    BY <1>2, <1>3, <2>3 DEF Inductive
<1>6. QED
  BY <1>4, <1>5

LEMMA CrashStep ==
  ASSUME Inductive, CrashAndRestart
  PROVE  Inductive'
<1>1. /\ pool' = [a \in Ids |-> IF a \in Loadable THEN FileOf(a) ELSE NotPooled]
      /\ job' = [w \in Writers |-> NoJob] /\ tmp' = [n \in Names |-> NoFile] /\ disk' = disk
      /\ login' = [l \in Logins |-> IF login[l].at = "unborn" THEN login[l]
                                    ELSE [login[l] EXCEPT !.at = "end", !.state = "idle"]]
      /\ current' = NoLogin /\ importing' = NoImport
  BY DEF CrashAndRestart
<1>2. \A w \in Writers : job'[w] = NoJob /\ job'[w].at = "none"
  BY <1>1 DEF NoJob
<1>3. \A w \in Writers : \A n, a : ~Engaged(w, n, a)'
  BY <1>2 DEF Engaged
<1>4. \A n \in Names : tmp'[n] = NoFile
  BY <1>1
<1>5. Saver \in Writers /\ Import \in Writers /\ Logins \subseteq Writers
  BY AccountsAssumption
<1>6. FilesInv'
  <2>1. FileTypes'
    BY <1>1 DEF Inductive, FilesInv, FileTypes, NoImport
  <2>2. OwnersInv'
    <3>1. ASSUME NEW n \in Names, NEW a \in Ids, Owns(a, n)' PROVE Owns(a, n)
      <4>1. tmp'[n] # Own(a)
        BY <1>4, OwnContents DEF Owned
      <4>2. QED
        BY <1>1, <1>3, <3>1, <4>1 DEF Owns, NoImport
    <3>2. QED
      BY <3>1, ClaimsFall DEF Inductive, FilesInv
  <2>3. TmpInv'
    BY <1>4, OwnContents DEF TmpInv
  <2>4. SaverInv' /\ ImportInv'
    BY <1>1, <1>2, <1>3, <1>5 DEF SaverInv, ImportInv, NoImport
  <2>5. QED
    BY <2>1, <2>2, <2>3, <2>4 DEF FilesInv
<1>7. LoginInv'
  <2>1. ASSUME NEW l \in Logins
        PROVE  /\ login'[l] \in LoginRecords /\ RecordOK(login'[l])
               /\ login'[l].at \notin {"persist", "upsert"}
    <3>1. login[l] \in LoginRecords /\ RecordOK(login[l])
      BY DEF Inductive, LoginInv, LoginOK
    <3>2. CASE login[l].at = "unborn"
      BY <1>1, <3>1, <3>2
    <3>3. CASE login[l].at # "unborn"
      BY <1>1, <3>1, <3>3 DEF LoginRecords, RecordOK, Points, States, Before
    <3>4. QED
      BY <3>2, <3>3
  <2>2. ASSUME NEW l \in Logins PROVE LoginOK(l)'
    BY <1>2, <1>5, <2>1 DEF LoginOK, RecordOK
  <2>3. QED
    BY <1>1, <2>1, <2>2 DEF LoginInv
<1>8. PoolInv'
  <2>1. ASSUME NEW a \in Ids
        PROVE  /\ pool'[a] \in Names \cup {NotPooled, FromLogin}
               /\ pool'[a] \in Names => disk[pool'[a]] = Own(a)
               /\ pool'[a] # FromLogin
    <3>1. NotPooled # FromLogin
      BY DEF NotPooled, FromLogin
    <3>2. QED
      BY <1>1, <3>1, LoadableFile, AccountsAssumption DEF Inductive, FilesInv
  <2>2. QED
    BY <1>1, <2>1 DEF PoolInv
<1>9. QED
  BY <1>6, <1>7, <1>8 DEF Inductive

LEMMA InductiveStarts == Init => Inductive
<1> SUFFICES ASSUME Init PROVE Inductive
  OBVIOUS
<1> USE DEF Init, FilesInit
<1>1. \A w \in Writers : job[w] = NoJob /\ job[w].at = "none"
  BY DEF NoJob
<1>2. \A w \in Writers : \A n, a : ~Engaged(w, n, a)
  BY <1>1 DEF Engaged
<1>3. ASSUME NEW n \in Names
      PROVE  /\ disk[n] \in Owned \cup {NoFile}
             /\ \A a \in Ids : disk[n] = Own(a) => n = BaseName[a]
  <2>1. disk[n] # NoFile => disk[n].id \in Ids
    BY DEF Snapshots
  <2>2. disk[n] \in Owned \cup {NoFile}
    BY <2>1 DEF Owned
  <2>3. \A a \in Ids : disk[n] = Own(a) => n = BaseName[a]
    BY OwnContents DEF Owned
  <2>4. QED
    BY <2>2, <2>3
<1>4. Saver \in Writers /\ Import \in Writers /\ Logins \subseteq Writers
  BY AccountsAssumption
<1>5. FileTypes
  BY <1>3 DEF FileTypes, NoImport
<1>6. OwnersInv
  <2>1. ASSUME NEW n \in Names, NEW a \in Ids, Owns(a, n) PROVE disk[n] = Own(a)
    <3>1. tmp[n] # Own(a)
      BY OwnContents DEF Owned
    <3>2. QED
      BY <1>2, <2>1, <3>1 DEF Owns, NoImport
  <2>2. ASSUME NEW n \in Names, NEW a \in Ids, Owns(a, n)
        PROVE  n \in {BaseName[a], AltName[a]} /\ \A b \in Ids : Owns(b, n) => a = b
    BY <1>3, <2>1, <2>2, OwnContents
  <2>3. QED
    BY <2>2 DEF OwnersInv
<1>7. TmpInv
  BY OwnContents DEF TmpInv
<1>8. SaverInv /\ ImportInv
  BY <1>1, <1>2, <1>4 DEF SaverInv, ImportInv, NoImport
<1>9. LoginInv
  <2>1. ASSUME NEW l \in Logins
        PROVE  /\ login[l] \in LoginRecords /\ RecordOK(login[l])
               /\ login[l].at \notin {"persist", "upsert"}
    BY DEF LoginRecords, RecordOK, Points, States
  <2>2. \A l \in Logins : LoginOK(l)
    BY <1>1, <1>4, <2>1 DEF LoginOK
  <2>3. login \in [Logins -> LoginRecords]
    BY <2>1
  <2>4. QED
    BY <2>2, <2>3 DEF LoginInv
<1>10. PoolInv
  <2>1. ASSUME NEW a \in Ids
        PROVE  /\ pool[a] \in Names \cup {NotPooled, FromLogin}
               /\ pool[a] \in Names => disk[pool[a]] = Own(a)
               /\ pool[a] # FromLogin
    <3>1. NotPooled # FromLogin /\ NotPooled \notin Names /\ FromLogin \notin Names
      BY AccountsAssumption DEF NotPooled, FromLogin
    <3>2. BaseName[a] \in Names
      BY NamesAssumption
    <3>3. a \in Loadable => disk[BaseName[a]] = Own(a)
      BY <1>3, <1>5, LoadableFile
    <3>4. pool[a] = IF a \in Loadable THEN BaseName[a] ELSE NotPooled
      OBVIOUS
    <3>5. QED
      BY <3>1, <3>2, <3>3, <3>4
  <2>2. QED
    BY <2>1 DEF PoolInv
<1>11. QED
  BY <1>5, <1>6, <1>7, <1>8, <1>9, <1>10 DEF Inductive, FilesInv

LEMMA InductiveStep ==
  ASSUME Inductive, UnsharedNames, [Next]_vars
  PROVE  Inductive'
<1>1. ASSUME NEW l \in Logins, LoginStart(l) \/ LoginStep(l) \/ LoginCancel(l) PROVE Inductive'
  BY <1>1, StartStep, QuietSteps, RegisteredStep, LoginWritesStep, UpsertStep DEF LoginStep
<1>2. CASE ImportStarts \/ ImportNext \/ ImportWrites
  BY <1>2, ImportStep
<1>3. CASE (\E a \in Ids : TokenRefreshed(a)) \/ SaverParses \/ SaverWrites
  BY <1>3, SaverStep
<1>4. CASE PoolReload \/ \E a \in Ids : DeleteAccount(a)
  BY <1>4, PoolStep
<1>5. CASE CrashAndRestart
  BY <1>5, CrashStep
<1>6. CASE UNCHANGED vars
  <2>1. UNCHANGED <<fileVars, importing, login, current, pool>> /\ disk' = disk /\ job' = job
    BY <1>6 DEF vars, fileVars
  <2>2. FilesInv'
    BY <2>1, FilesFrame DEF Inductive
  <2>3. QED
    BY <2>1, <2>2, OtherWriter DEF DiskGrows
<1>7. QED
  BY <1>1, <1>2, <1>3, <1>4, <1>5, <1>6 DEF Next

(* The inductive invariant of the accounts folder (write_snapshot,          *)
(* DeviceLogin.run, the import and the saver), as long as no login shares   *)
(* its file name with another account.                                      *)
THEOREM AccountsInvariant ==
  ASSUME UnsharedNames
  PROVE  Spec => []Inductive
<1>1. Init => Inductive
  BY InductiveStarts
<1>2. Inductive /\ [Next]_vars => Inductive'
  BY InductiveStep
<1>3. QED
  BY <1>1, <1>2, PTL DEF Spec

(* Every part keeps its shape, and the dashboard is told the truth of each  *)
(* login (DeviceLogin.run, write_snapshot, on_account).                     *)
THEOREM LoginsTellTruth ==
  ASSUME UnsharedNames
  PROVE  Spec => []AccountsInv
<1>1. Inductive => AccountsInv
  <2> SUFFICES ASSUME Inductive PROVE AccountsInv
    OBVIOUS
  <2>1. /\ disk \in [Names -> Snapshots \cup {NoFile}]
        /\ tmp \in [Names -> Snapshots \cup {NoFile, Torn}]
        /\ pool \in [Ids -> Names \cup {NotPooled, FromLogin}]
        /\ current \in Logins \cup {NoLogin}
    BY OwnContents DEF Inductive, FilesInv, FileTypes, PoolInv, LoginInv
  <2>2. \A l \in Logins : /\ login[l].at \in Points /\ login[l].state \in States
                          /\ job[l] # NoJob <=> login[l].at = "persist"
    BY DEF Inductive, LoginInv, LoginOK, LoginRecords
  <2>3. job[Import] # NoJob => importing # NoImport
    <3> SUFFICES ASSUME job[Import] # NoJob PROVE importing # NoImport
      OBVIOUS
    <3>1. Import \in Writers /\ job[Import].at # "none"
      BY AccountsAssumption DEF Inductive, FilesInv, FileTypes, FileJobs
    <3>2. Engaged(Import, job[Import].name, OwnerOf(job[Import]))
          /\ job[Import].name \in Names /\ OwnerOf(job[Import]) \in Ids
      BY <3>1, JobShape DEF Inductive, FilesInv
    <3>3. importing.used # {}
      BY <3>2 DEF Inductive, FilesInv, ImportInv
    <3>4. QED
      BY <3>3 DEF NoImport
  <2>4. LoginTellsTruth
    BY DEF LoginTellsTruth, Inductive, LoginInv, LoginOK, RecordOK
  <2>5. QED
    BY <2>1, <2>2, <2>3, <2>4 DEF AccountsInv, AccountsTypeOK
<1>2. QED
  BY <1>1, AccountsInvariant, PTL

(* Whatever writes, fails, is cancelled or dies, each pooled account can be *)
(* loaded again and every snapshot is whole and holds the token of the      *)
(* account it names (accounts_dir.write_snapshot, load_from_accounts_dir),  *)
(* as long as no login shares its file name with another account.           *)
THEOREM SnapshotsAreSafe ==
  ASSUME UnsharedNames
  PROVE  Spec => []SnapshotsSurvive
<1>1. Inductive => SnapshotsSurvive
  <2> SUFFICES ASSUME Inductive PROVE SnapshotsSurvive
    OBVIOUS
  <2>1. ASSUME NEW a \in Ids, pool[a] # NotPooled PROVE a \in Loadable
    <3>1. \E n \in Names : disk[n] = Own(a)
      BY <2>1 DEF Inductive, PoolInv
    <3>2. QED
      BY <3>1, LoadableFile DEF Inductive, FilesInv
  <2>2. ASSUME NEW n \in Names, disk[n] # NoFile PROVE Readable(n) /\ disk[n].tok = disk[n].id
    <3>1. PICK a \in Ids : disk[n] = Own(a)
      BY <2>2 DEF Inductive, FilesInv, FileTypes, Owned
    <3>2. QED
      BY <3>1, ReadableIsOwned, OwnContents DEF Inductive, FilesInv
  <2>3. QED
    BY <2>1, <2>2 DEF SnapshotsSurvive
<1>2. QED
  BY <1>1, AccountsInvariant, PTL
=============================================================================
