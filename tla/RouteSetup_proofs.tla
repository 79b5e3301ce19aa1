-------------------------- MODULE RouteSetup_proofs --------------------------
(***************************************************************************)
(* Proofs about RouteSetup: what the disk and the task's static variables  *)
(* hold after any history of runs, cut off at any point, for every set of  *)
(* editions of the ITMS folder and whatever the operator enters.           *)
(***************************************************************************)
EXTENDS RouteSetup, TLAPS

\* Every file in ITMS is one of the edition it was copied from.
Placed ==
    \A p \in Paths : /\ itms[p].edition # 0 => p \in FilesOf(itms[p].edition)
                     /\ itms[p].whole => itms[p].edition # 0

\* There is nothing before the folder exists; it is filled from one source.
OnlyFrom(e) ==
    /\ \A p \in Paths : itms[p].edition \in {0, e}
    /\ \A n \in 1 .. MaxFiles : dest[n].from.edition \in {0, e}
OneSource ==
    /\ ~hasItms => OnlyFrom(0)
    /\ pc = "copy" => hasItms /\ source \in Editions /\ OnlyFrom(source)
    /\ OneEdition

\* A book is read from a whole file and behind the copy; without one there is no route
\* and no station.
BookRead ==
    /\ book # 0 => itms[Bus].whole /\ pc \notin {"off", "empty", "clone", "copy", "fetch"}
    /\ book = 0 => routeCount = 0 /\ numStations = 0

\* Only files of the chosen folder wait for conversion.
Waiting ==
    /\ pc = "convert" => todo \subseteq Listed
    /\ out # 0 => pc = "convert" /\ out \in todo

IInv == TypeOK /\ Placed /\ OneSource /\ BookRead /\ Waiting

-----------------------------------------------------------------------------
(* The files of an edition.                                                *)

\* The files of the editions are the paths, and some edition has a book.
LEMMA EditionPaths ==
    /\ \A e \in Editions : FilesOf(e) \subseteq Paths
    /\ Bus \in Paths
<1>1. \A e \in Editions : FilesOf(e) \subseteq Paths
  BY DEF Paths
<1>2. \A e \in Editions : Bus \in FilesOf(e)
  BY DEF FilesOf
<1> QED
  BY <1>1, <1>2, EditionAssumption

\* The settings files of an edition are in the folders it has stations for.
LEMMA SettingsOf ==
    ASSUME NEW e, NEW r, Settings(r) \in FilesOf(e)
    PROVE  r \in DOMAIN Stations[e]
<1>1. Settings(r) \notin {Bus, Leds}
  BY DEF Settings, Bus, Leds
<1>2. \A f, n : Settings(r) # Dat(f, n)
  BY DEF Settings, Dat
<1>3. \A s : Settings(r) = Settings(s) => r = s
  BY DEF Settings
<1> QED
  BY <1>1, <1>2, <1>3 DEF FilesOf

\* The .dat files of the paths are in the folders and have the names of the editions.
LEMMA DatOf ==
    ASSUME NEW f, NEW n, Dat(f, n) \in Paths
    PROVE  f \in Folders
<1>1. PICK e \in Editions : Dat(f, n) \in FilesOf(e)
  BY DEF Paths
<1>2. Dat(f, n) \notin {Bus, Leds} /\ \A r : Dat(f, n) # Settings(r)
  BY DEF Settings, Bus, Leds, Dat
<1>3. \A g, m : Dat(f, n) = Dat(g, m) => f = g
  BY DEF Dat
<1>4. f \in DOMAIN DatFiles[e]
  BY <1>1, <1>2, <1>3 DEF FilesOf
<1> QED
  BY <1>4 DEF Folders

-----------------------------------------------------------------------------
(* The inductive invariant.                                                *)

\* The initial states satisfy it.
LEMMA InitInv == Init => IInv
<1> SUFFICES ASSUME Init PROVE IInv
  OBVIOUS
<1>1. Absent \in Copies /\ Absent.edition = 0 /\ Absent.whole = FALSE
  BY DEF Absent, Copy, Copies
<1>2. /\ NoFile \in [folder : Folders, from : Copies, whole : BOOLEAN]
      /\ NoFile.from = Absent
  BY <1>1 DEF NoFile, Converted, Folders
<1>3. TypeOK
  <2>1. itms \in [Paths -> Copies]
    BY <1>1 DEF Init
  <2>2. dest \in [1 .. MaxFiles -> [folder : Folders, from : Copies, whole : BOOLEAN]]
    BY <1>2 DEF Init
  <2>3. 0 \in 0 .. MaxStations /\ 0 \in 0 .. MaxFiles /\ 0 \in 0 .. MAX_STRINGS
    BY SizeAssumption DEF MAX_STRINGS
  <2> QED
    BY <2>1, <2>2, <2>3 DEF Init, TypeOK, Pcs
<1>4. Placed
  BY <1>1 DEF Init, Placed
<1>5. OnlyFrom(0)
  BY <1>1, <1>2 DEF Init, OnlyFrom
<1>6. OneSource
  BY <1>5 DEF Init, OneSource, OneEdition, OnlyFrom
<1> QED
  BY <1>3, <1>4, <1>6 DEF Init, IInv, BookRead, Waiting

\* A step that leaves the disk as it is preserves what is said of the files.
LEMMA DiskKept ==
    ASSUME IInv, UNCHANGED disk, pc' # "copy"
    PROVE  Placed' /\ OneSource'
<1>1. itms' = itms /\ dest' = dest /\ hasItms' = hasItms
  BY DEF disk
<1>2. Placed'
  BY <1>1 DEF IInv, Placed
<1>3. (~hasItms => OnlyFrom(0)) /\ OneEdition
  BY DEF IInv, OneSource
<1>4. (~hasItms' => OnlyFrom(0)') /\ OneEdition'
  BY <1>1, <1>3 DEF OnlyFrom, OneEdition
<1> QED
  BY <1>2, <1>4 DEF OneSource

\* A copy step writes a file of the edition being copied.
LEMMA CopyStep ==
    ASSUME IInv, pc = "copy", NEW p \in FilesOf(source), NEW w \in BOOLEAN,
           itms' = [itms EXCEPT ![p] = Copy(source, w)],
           UNCHANGED <<pc, media, source, hasItms, dest, conversion, statics>>
    PROVE  IInv'
<1>1. source \in Editions /\ source # 0 /\ OnlyFrom(source) /\ hasItms
  BY EditionAssumption DEF IInv, OneSource
<1>2. p \in Paths /\ Copy(source, w) \in Copies
  BY <1>1, EditionPaths DEF Copy, Copies
<1>3. Copy(source, w).edition = source
  BY DEF Copy
<1>4. itms \in [Paths -> Copies] /\ itms' \in [Paths -> Copies]
  BY <1>2 DEF IInv, TypeOK
<1>5. itms'[p] = Copy(source, w) /\ \A q \in Paths \ {p} : itms'[q] = itms[q]
  BY <1>2, <1>4
<1>6. /\ pc' = pc /\ media' = media /\ source' = source /\ hasItms' = hasItms
      /\ dest' = dest /\ todo' = todo /\ out' = out
      /\ routeCount' = routeCount /\ book' = book /\ input' = input
      /\ numStations' = numStations
  BY DEF conversion, statics
<1>7. TypeOK'
  BY <1>4, <1>6 DEF IInv, TypeOK
<1>8. Placed'
  <2> SUFFICES ASSUME NEW q \in Paths
               PROVE  /\ itms'[q].edition # 0 => q \in FilesOf(itms'[q].edition)
                      /\ itms'[q].whole => itms'[q].edition # 0
    BY DEF Placed
  <2>1. CASE q = p
    BY <1>1, <1>3, <1>5, <2>1
  <2>2. CASE q # p
    BY <1>5, <2>2 DEF IInv, Placed
  <2> QED
    BY <2>1, <2>2
<1>9. OneSource'
  <2>1. \A q \in Paths : itms'[q].edition \in {0, source}
    BY <1>1, <1>3, <1>5 DEF OnlyFrom
  <2>2. OnlyFrom(source)'
    BY <1>1, <1>6, <2>1 DEF OnlyFrom
  <2>3. OneEdition'
    BY <1>1, <1>6, <2>2 DEF OneEdition, OnlyFrom
  <2> QED
    BY <1>1, <1>6, <2>2, <2>3 DEF OneSource
<1>10. BookRead' /\ Waiting'
  <2>1. book = 0 /\ out = 0 /\ routeCount = 0 /\ numStations = 0
    BY DEF IInv, BookRead, Waiting
  <2> QED
    BY <1>6, <2>1 DEF BookRead, Waiting
<1> QED
  BY <1>7, <1>8, <1>9, <1>10 DEF IInv

\* A conversion step writes a file of ./Dest made from one in ITMS, or finishes it.
LEMMA ConvertStep ==
    ASSUME IInv, pc = "convert", NEW n \in todo, NEW w \in BOOLEAN,
           NEW file, dest' = [dest EXCEPT ![n] = file],
           \/ file = Converted(Folder(input + 1), itms[Dat(Folder(input + 1), n)], w)
           \/ file = Converted(dest[n].folder, dest[n].from, w),
           UNCHANGED <<media, source, hasItms, itms, statics>>
    PROVE  /\ dest' \in [1 .. MaxFiles -> [folder : Folders, from : Copies, whole : BOOLEAN]]
           /\ pc' # "copy" => OneSource'
<1> DEFINE p == Dat(Folder(input + 1), n)
<1>1. n \in 1 .. MaxFiles /\ p \in Paths
  BY DEF IInv, Waiting, Listed
<1>2. itms[p] \in Copies /\ Folder(input + 1) \in Folders
  BY <1>1, DatOf DEF IInv, TypeOK
<1>3. dest \in [1 .. MaxFiles -> [folder : Folders, from : Copies, whole : BOOLEAN]]
  BY DEF IInv, TypeOK
<1>4. /\ file \in [folder : Folders, from : Copies, whole : BOOLEAN]
      /\ file.from \in {dest[n].from, itms[p]}
  BY <1>1, <1>2, <1>3 DEF Converted
<1>5. dest' \in [1 .. MaxFiles -> [folder : Folders, from : Copies, whole : BOOLEAN]]
  BY <1>1, <1>3, <1>4
<1>6. ASSUME NEW e, OnlyFrom(e) PROVE OnlyFrom(e)'
  <2>1. dest'[n] = file /\ \A m \in 1 .. MaxFiles \ {n} : dest'[m] = dest[m]
    BY <1>1, <1>3
  <2>2. file.from.edition \in {0, e}
    BY <1>1, <1>4, <1>6 DEF OnlyFrom
  <2>3. \A m \in 1 .. MaxFiles : dest'[m].from.edition \in {0, e}
    BY <1>6, <2>1, <2>2 DEF OnlyFrom
  <2> QED
    BY <1>6, <2>3 DEF OnlyFrom
<1>7. ~hasItms' => OnlyFrom(0)'
  BY <1>6 DEF IInv, OneSource
<1>8. OneEdition'
  <2>1. PICK e \in Editions \cup {0} : OnlyFrom(e)
    BY DEF IInv, OneSource, OneEdition, OnlyFrom
  <2> QED
    BY <1>6, <2>1 DEF OneEdition, OnlyFrom
<1> QED
  BY <1>5, <1>7, <1>8 DEF OneSource

\* Every step preserves the inductive invariant.
LEMMA StepInv == IInv /\ [Next]_vars => IInv'
<1> SUFFICES ASSUME IInv, [Next]_vars PROVE IInv'
  OBVIOUS
<1> USE DEF Go
<1>1. CASE PowerOff
  <2>1. /\ UNCHANGED <<media, disk>> /\ pc' = "off" /\ source' = 0 /\ todo' = {}
        /\ out' = 0 /\ routeCount' = 0 /\ book' = 0 /\ input' = 0 /\ numStations' = 0
    BY <1>1 DEF PowerOff
  <2>2. TypeOK'
    BY <2>1, SizeAssumption DEF IInv, TypeOK, Pcs, disk, MAX_STRINGS
  <2>3. Placed' /\ OneSource'
    BY <2>1, DiskKept
  <2> QED
    BY <2>1, <2>2, <2>3 DEF IInv, BookRead, Waiting
<1>2. CASE ChangeMedia \/ Boot \/ EmptyFolder
  <2>1. /\ UNCHANGED <<source, disk, conversion, statics>>
        /\ media' \subseteq Editions /\ pc \in {"off", "empty"}
        /\ pc' \in {"off", "empty", "clone"}
    BY <1>2 DEF ChangeMedia, Boot, EmptyFolder, IInv, TypeOK
  <2>2. TypeOK'
    BY <2>1 DEF IInv, TypeOK, Pcs, disk, conversion, statics
  <2>3. Placed' /\ OneSource'
    BY <2>1, DiskKept
  <2> QED
    BY <2>1, <2>2, <2>3 DEF IInv, BookRead, Waiting, disk, conversion, statics
<1>3. CASE Clone
  <2>1. /\ UNCHANGED <<media, itms, dest, conversion, statics>> /\ pc = "clone"
        /\ media \subseteq Editions
    BY <1>3 DEF Clone, IInv, TypeOK
  <2>2. book = 0 /\ book' = 0 /\ out' = 0 /\ pc' \in {"copy", "fetch"}
    BY <1>3, <2>1 DEF Clone, IInv, BookRead, Waiting, conversion, statics
  <2>3. BookRead' /\ Waiting'
    BY <2>1, <2>2 DEF IInv, BookRead, Waiting, statics
  <2>4. Placed'
    BY <2>1 DEF IInv, Placed
  <2>5. CASE UNCHANGED <<source, hasItms>> /\ pc' = "fetch"
    <3>1. TypeOK'
      BY <2>1, <2>5 DEF IInv, TypeOK, Pcs, conversion, statics
    <3>2. OneSource'
      BY <2>1, <2>5, DiskKept DEF disk
    <3> QED
      BY <2>3, <2>4, <3>1, <3>2 DEF IInv
  <2>6. CASE ~hasItms /\ pc' = "copy" /\ source' \in media /\ hasItms'
    <3>1. TypeOK'
      <4>1. source' \in Editions /\ hasItms' \in BOOLEAN
        BY <1>3, <2>1, <2>6 DEF Clone, IInv, TypeOK
      <4> QED
        BY <2>1, <2>6, <4>1 DEF IInv, TypeOK, Pcs, conversion, statics
    <3>2. OnlyFrom(0)
      BY <2>6 DEF IInv, OneSource
    <3>3. (\A p \in Paths : itms'[p].edition = 0)
            /\ \A n \in 1 .. MaxFiles : dest'[n].from.edition = 0
      BY <2>1, <3>2 DEF OnlyFrom
    <3>4. OneSource'
      BY <2>1, <2>6, <3>3 DEF OneSource, OneEdition, OnlyFrom
    <3> QED
      BY <2>3, <2>4, <3>1, <3>4 DEF IInv
  <2> QED
    BY <1>3, <2>5, <2>6 DEF Clone
<1>4. ASSUME NEW p \in Paths, CopyOpen(p) PROVE IInv'
  BY <1>4, CopyStep DEF CopyOpen
<1>5. ASSUME NEW p \in Paths, CopyClose(p) PROVE IInv'
  <2>1. itms[p].edition = source /\ source # 0
    BY <1>5, EditionAssumption DEF CopyClose, Copy, IInv, OneSource
  <2>2. p \in FilesOf(source)
    BY <2>1 DEF IInv, Placed
  <2> QED
    BY <1>5, <2>2, CopyStep DEF CopyClose
<1>6. CASE CopyEnd
  <2>1. /\ UNCHANGED <<media, disk, conversion, statics>>
        /\ pc = "copy" /\ pc' = "fetch" /\ source' = 0
    BY <1>6 DEF CopyEnd
  <2>2. TypeOK'
    BY <2>1 DEF IInv, TypeOK, Pcs, disk, conversion, statics
  <2>3. Placed' /\ OneSource'
    BY <2>1, DiskKept
  <2> QED
    BY <2>1, <2>2, <2>3 DEF IInv, BookRead, Waiting, disk, conversion, statics
<1>7. CASE FetchData
  <2>1. /\ UNCHANGED <<media, source, disk, conversion, input, numStations>>
        /\ pc = "fetch" /\ pc' = "choose"
    BY <1>7 DEF FetchData
  <2>2. Placed' /\ OneSource'
    BY <2>1, DiskKept
  <2>3. book = 0 /\ routeCount = 0 /\ numStations = 0 /\ out = 0
    BY <2>1 DEF IInv, BookRead, Waiting
  <2>4. \/ book' = 0 /\ routeCount' = 0
        \/ /\ itms[Bus].whole /\ book' \in Editions
           /\ routeCount' \in 0 .. MAX_STRINGS
    <3>1. ASSUME itms[Bus].whole PROVE itms[Bus].edition \in Editions
      <4>1. itms[Bus] \in Copies /\ itms[Bus].edition # 0
        BY <3>1, EditionPaths DEF IInv, TypeOK, Placed
      <4> QED
        BY <4>1 DEF Copies
    <3> QED
      BY <1>7, <2>3, <3>1, EditionAssumption DEF FetchData
  <2>5. routeCount' \in 0 .. MAX_STRINGS /\ book' \in Editions \cup {0}
    BY <2>4 DEF MAX_STRINGS
  <2>6. TypeOK'
    BY <2>1, <2>5 DEF IInv, TypeOK, Pcs, disk, conversion
  <2>7. BookRead' /\ Waiting'
    BY <2>1, <2>3, <2>4, EditionAssumption DEF IInv, BookRead, Waiting, disk, conversion
  <2> QED
    BY <2>2, <2>6, <2>7 DEF IInv
<1>8. CASE Choose
  <2>1. /\ UNCHANGED <<media, source, disk, conversion, routeCount, book, numStations>>
        /\ pc = "choose" /\ pc' \in {"text", "crashed"} /\ input' \in Inputs
    BY <1>8 DEF Choose
  <2>2. TypeOK'
    BY <2>1 DEF IInv, TypeOK, Pcs, disk, conversion
  <2>3. Placed' /\ OneSource'
    BY <2>1, DiskKept
  <2> QED
    BY <2>1, <2>2, <2>3 DEF IInv, BookRead, Waiting, disk, conversion
<1>9. CASE TextFetch
  <2>1. /\ UNCHANGED <<media, source, out, disk, statics>>
        /\ pc = "text" /\ pc' = "convert" /\ todo' \subseteq Listed
    BY <1>9 DEF TextFetch
  <2>2. Listed' = Listed /\ Listed \subseteq 1 .. MaxFiles
    BY <2>1 DEF Listed, disk, statics
  <2>3. TypeOK'
    BY <2>1, <2>2 DEF IInv, TypeOK, Pcs, disk, statics
  <2>4. Placed' /\ OneSource'
    BY <2>1, DiskKept
  <2>5. BookRead' /\ Waiting'
    BY <2>1, <2>2 DEF IInv, BookRead, Waiting, disk, statics
  <2> QED
    BY <2>3, <2>4, <2>5 DEF IInv
<1>10. ASSUME NEW n \in 1 .. MaxFiles, Convert(n) PROVE IInv'
  <2>1. /\ UNCHANGED <<media, source, hasItms, itms, todo, statics>>
        /\ pc = "convert" /\ n \in todo /\ out = 0
    BY <1>10 DEF Convert
  <2>2. CASE pc' = "crashed" /\ UNCHANGED <<dest, out>>
    <3>1. Placed' /\ OneSource'
      BY <2>1, <2>2, DiskKept DEF disk
    <3>2. TypeOK'
      BY <2>1, <2>2 DEF IInv, TypeOK, Pcs, statics
    <3> QED
      BY <2>1, <2>2, <3>1, <3>2 DEF IInv, BookRead, Waiting, statics
  <2>3. CASE /\ dest' = [dest EXCEPT ![n] =
                           Converted(Folder(input + 1), itms[Dat(Folder(input + 1), n)], FALSE)]
             /\ out' = n /\ UNCHANGED pc
    <3>1. /\ dest' \in [1 .. MaxFiles -> [folder : Folders, from : Copies, whole : BOOLEAN]]
          /\ OneSource'
      BY <2>1, <2>3, ConvertStep
    <3>2. Placed'
      BY <2>1 DEF IInv, Placed
    <3>3. TypeOK'
      <4>1. out' \in 0 .. MaxFiles
        BY <2>3, SizeAssumption
      <4> QED
        BY <2>1, <2>3, <3>1, <4>1 DEF IInv, TypeOK, statics
    <3>4. Listed' = Listed
      BY <2>1 DEF Listed, statics
    <3> QED
      BY <2>1, <2>3, <3>1, <3>2, <3>3, <3>4 DEF IInv, BookRead, Waiting, statics
  <2> QED
    BY <1>10, <2>2, <2>3 DEF Convert
<1>11. CASE ConvertClose
  <2>1. /\ UNCHANGED <<pc, media, source, hasItms, itms, statics>>
        /\ pc = "convert" /\ out # 0 /\ todo' = todo \ {out} /\ out' = 0
        /\ dest' = [dest EXCEPT ![out] = Converted(dest[out].folder, dest[out].from, TRUE)]
    BY <1>11 DEF ConvertClose
  <2>2. out \in todo
    BY <2>1 DEF IInv, Waiting
  <2>3. /\ dest' \in [1 .. MaxFiles -> [folder : Folders, from : Copies, whole : BOOLEAN]]
        /\ OneSource'
    BY <2>1, <2>2, ConvertStep
  <2>4. Placed'
    BY <2>1 DEF IInv, Placed
  <2>5. TypeOK'
    <3>1. out' \in 0 .. MaxFiles /\ todo' \subseteq 1 .. MaxFiles
      BY <2>1, SizeAssumption DEF IInv, TypeOK
    <3> QED
      BY <2>1, <2>3, <3>1 DEF IInv, TypeOK, statics
  <2>6. Listed' = Listed
    BY <2>1 DEF Listed, statics
  <2> QED
    BY <2>1, <2>3, <2>4, <2>5, <2>6 DEF IInv, BookRead, Waiting, statics
<1>12. CASE ConvertEnd \/ CheckInput \/ ReadLeds \/ OpenPort
  <2>1. /\ UNCHANGED <<media, source, disk, conversion, statics>>
        /\ pc' \in {"check", "done", "stations", "open", "crashed", "poll"}
        /\ pc = "convert" => todo = {}
        /\ pc \notin {"off", "empty", "clone", "copy", "fetch"}
    BY <1>12 DEF ConvertEnd, CheckInput, ReadLeds, OpenPort
  <2>2. out = 0
    BY <2>1 DEF IInv, Waiting
  <2>3. TypeOK'
    BY <2>1 DEF IInv, TypeOK, Pcs, disk, conversion, statics
  <2>4. Placed' /\ OneSource'
    BY <2>1, DiskKept
  <2> QED
    BY <2>1, <2>2, <2>3, <2>4 DEF IInv, BookRead, Waiting, disk, conversion, statics
<1>13. CASE FetchStations
  <2>1. /\ UNCHANGED <<media, source, disk, conversion, routeCount, book, input>>
        /\ pc = "stations" /\ pc' \in {"leds", "crashed"}
        /\ \/ UNCHANGED numStations
           \/ SettingsRead /\ numStations' = StationCount
    BY <1>13 DEF FetchStations
  <2>2. SettingsRead => book # 0 /\ StationCount \in 0 .. MaxStations
    <3> SUFFICES ASSUME SettingsRead PROVE StationCount \in 0 .. MaxStations
      BY DEF SettingsRead
    <3> DEFINE r == Entries[book][input]  e == itms[Settings(r)].edition
    <3>1. Settings(r) \in Paths /\ itms[Settings(r)].whole
      BY DEF SettingsRead
    <3>2. e # 0 /\ Settings(r) \in FilesOf(e)
      BY <3>1 DEF IInv, Placed
    <3>3. itms[Settings(r)] \in Copies
      BY <3>1 DEF IInv, TypeOK
    <3>4. e \in Editions
      BY <3>2, <3>3 DEF Copies
    <3>5. r \in DOMAIN Stations[e]
      BY <3>2, SettingsOf
    <3> HIDE DEF r, e
    <3>6. Stations[e][r] \in 0 .. MaxStations
      BY <3>4, <3>5, EditionAssumption
    <3> QED
      BY <3>6 DEF StationCount, r, e
  <2>3. TypeOK'
    BY <2>1, <2>2 DEF IInv, TypeOK, Pcs, disk, conversion
  <2>4. Placed' /\ OneSource'
    BY <2>1, DiskKept
  <2>5. BookRead' /\ Waiting'
    BY <2>1, <2>2 DEF IInv, BookRead, Waiting, disk, conversion
  <2> QED
    BY <2>3, <2>4, <2>5 DEF IInv
<1>14. CASE UNCHANGED vars
  <2>1. UNCHANGED <<pc, media, source, disk, conversion, statics>>
    BY <1>14 DEF vars
  <2>2. /\ pc' = pc /\ media' = media /\ source' = source /\ hasItms' = hasItms
        /\ itms' = itms /\ dest' = dest /\ todo' = todo /\ out' = out
        /\ routeCount' = routeCount /\ book' = book /\ input' = input
        /\ numStations' = numStations
    BY <2>1 DEF disk, conversion, statics
  <2>3. TypeOK' /\ Placed' /\ BookRead'
    BY <2>2 DEF IInv, TypeOK, Placed, BookRead
  <2>4. OneSource'
    BY <2>2 DEF IInv, OneSource, OnlyFrom, OneEdition
  <2>5. Waiting'
    BY <2>2 DEF IInv, Waiting, Listed
  <2> QED
    BY <2>3, <2>4, <2>5 DEF IInv
<1> QED
  BY <1>1, <1>2, <1>3, <1>4, <1>5, <1>6, <1>7, <1>8, <1>9, <1>10, <1>11,
     <1>12, <1>13, <1>14 DEF Next

\* The inductive invariant holds in every reachable state.
THEOREM Invariance == Spec => []IInv
  BY InitInv, StepInv, PTL DEF Spec

\* The state keeps the shape of the declarations in the code.
THEOREM TypeCorrect == Spec => []TypeOK
<1>1. IInv => TypeOK
  BY DEF IInv
<1> QED
  BY <1>1, Invariance, PTL

\* Whatever fails and wherever copies and runs break off, ITMS and ./Dest never mix two
\* editions.
THEOREM EditionsNeverMix == Spec => []OneEdition
<1>1. IInv => OneEdition
  BY DEF IInv, OneSource
<1> QED
  BY <1>1, Invariance, PTL

\* Whatever is plugged in later, a copy that was cut before its book was whole leaves
\* the program without routes and stations for good.
THEOREM CutCopyStays == Spec => CutCopyIsForGood
<1>1. IInv /\ IInv' /\ [Next]_vars
        => [RoutesLost => RoutesLost' /\ routeCount' = 0 /\ numStations' = 0]_vars
  <2> SUFFICES ASSUME IInv, IInv', [Next]_vars, RoutesLost
               PROVE  RoutesLost' /\ routeCount' = 0 /\ numStations' = 0
    OBVIOUS
  <2>1. hasItms' = hasItms /\ itms'[Bus] = itms[Bus] /\ pc' # "copy"
    <3>1. pc # "copy" /\ hasItms
      BY DEF RoutesLost
    <3>2. itms' = itms /\ (hasItms' = hasItms) /\ pc' # "copy"
      BY <3>1 DEF Next, vars, disk, PowerOff, ChangeMedia, Boot, EmptyFolder, Clone,
         CopyOpen, CopyClose, CopyEnd, FetchData, Choose, TextFetch, Convert,
         ConvertClose, ConvertEnd, CheckInput, FetchStations, ReadLeds, OpenPort, Go
    <3> QED
      BY <3>2
  <2>2. RoutesLost'
    BY <2>1 DEF RoutesLost
  <2>3. book' = 0
    BY <2>2 DEF RoutesLost, IInv, BookRead
  <2> QED
    BY <2>2, <2>3 DEF IInv, BookRead
<1> QED
  BY <1>1, Invariance, PTL DEF Spec, CutCopyIsForGood

-----------------------------------------------------------------------------
(* Without failures.                                                       *)

\* The display file of name n is this run's.
Current(n) ==
    LET f == Folder(input + 1)
    IN  dest[n] = Converted(f, itms[Dat(f, n)], TRUE)

\* Once the conversion has begun, the chosen folder's files are converted but for those
\* still to do, whatever was in ./Dest before.
Fresh ==
    /\ pc = "convert" => \A n \in Listed \ todo : Current(n)
    /\ pc = "convert" /\ out # 0 =>
         LET f == Folder(input + 1)
         IN  dest[out] = Converted(f, itms[Dat(f, out)], FALSE)
    /\ pc \in {"check", "stations", "leds", "open", "poll"} =>
         \A n \in Listed : Current(n)

\* No step fails: every step preserves Fresh.
LEMMA StepFresh ==
    ASSUME ~Faults
    PROVE  IInv /\ Fresh /\ [Next]_vars => Fresh'
<1> SUFFICES ASSUME IInv, Fresh, [Next]_vars PROVE Fresh'
  OBVIOUS
<1> USE DEF Go
<1>1. dest \in [1 .. MaxFiles -> [folder : Folders, from : Copies, whole : BOOLEAN]]
  BY DEF IInv, TypeOK
<1>2. CASE pc' \notin {"convert", "check", "stations", "leds", "open", "poll"}
  BY <1>2 DEF Fresh
<1>3. CASE TextFetch
  <2>1. /\ pc' = "convert" /\ todo' = Listed /\ out' = out /\ pc = "text"
        /\ UNCHANGED <<disk, statics>>
    BY <1>3 DEF TextFetch
  <2>2. Listed' = Listed
    BY <2>1 DEF Listed, disk, statics
  <2>3. out = 0
    BY <2>1 DEF IInv, Waiting
  <2> QED
    BY <2>1, <2>2, <2>3 DEF Fresh
<1>4. ASSUME NEW n \in 1 .. MaxFiles, Convert(n) PROVE Fresh'
  <2>1. /\ pc = "convert" /\ pc' = "convert" /\ n \in todo /\ todo' = todo
        /\ out' = n /\ itms' = itms /\ input' = input
        /\ dest' = [dest EXCEPT ![n] =
                      Converted(Folder(input + 1), itms[Dat(Folder(input + 1), n)], FALSE)]
    BY <1>4 DEF Convert, statics
  <2>2. /\ dest'[n] = Converted(Folder(input + 1), itms[Dat(Folder(input + 1), n)], FALSE)
        /\ \A m \in 1 .. MaxFiles \ {n} : dest'[m] = dest[m]
    BY <1>1, <1>4, <2>1
  <2>3. Listed' = Listed /\ Listed \subseteq 1 .. MaxFiles
    BY <2>1 DEF Listed
  <2>4. \A m \in Listed \ todo : dest'[m] = dest[m] /\ Current(m)
    BY <2>1, <2>2, <2>3 DEF Fresh
  <2>5. \A m \in Listed \ todo : Current(m)'
    BY <2>1, <2>4 DEF Current
  <2> QED
    BY <2>1, <2>2, <2>3, <2>5 DEF Fresh
<1>5. CASE ConvertClose
  <2>1. /\ pc = "convert" /\ pc' = "convert" /\ todo' = todo \ {out} /\ out # 0
        /\ out' = 0 /\ itms' = itms /\ input' = input
        /\ dest' = [dest EXCEPT ![out] = Converted(dest[out].folder, dest[out].from, TRUE)]
    BY <1>5 DEF ConvertClose, statics
  <2>2. PICK n \in 1 .. MaxFiles : n = out
    BY <2>1 DEF IInv, TypeOK, Waiting
  <2>3. dest[n] = Converted(Folder(input + 1), itms[Dat(Folder(input + 1), n)], FALSE)
    BY <2>1, <2>2 DEF Fresh
  <2>4. /\ dest'[n] = Converted(dest[n].folder, dest[n].from, TRUE)
        /\ \A m \in 1 .. MaxFiles \ {n} : dest'[m] = dest[m]
    BY <1>1, <2>1, <2>2
  <2>5. Current(n)'
    <3>1. dest'[n] = Converted(Folder(input + 1), itms[Dat(Folder(input + 1), n)], TRUE)
      BY <2>3, <2>4 DEF Converted
    <3> QED
      BY <2>1, <3>1 DEF Current
  <2>6. Listed' = Listed /\ Listed \subseteq 1 .. MaxFiles
    BY <2>1 DEF Listed
  <2>7. \A m \in Listed \ todo : Current(m)
    BY <2>1 DEF Fresh
  <2>8. ASSUME NEW m \in Listed \ todo' PROVE Current(m)'
    <3>1. CASE m = n
      BY <2>5, <3>1
    <3>2. CASE m # n
      <4>1. m \in Listed \ todo /\ m \in 1 .. MaxFiles
        BY <2>1, <2>2, <2>6, <2>8, <3>2
      <4>2. Current(m) /\ dest'[m] = dest[m]
        BY <2>4, <2>7, <3>2, <4>1
      <4> QED
        BY <2>1, <4>2 DEF Current
    <3> QED
      BY <3>1, <3>2
  <2> QED
    BY <2>1, <2>6, <2>8 DEF Fresh
<1>6. CASE ConvertEnd \/ CheckInput \/ FetchStations \/ ReadLeds \/ OpenPort
  <2>1. /\ pc \in {"convert", "check", "stations", "leds", "open"} /\ pc' # "convert"
        /\ pc = "convert" => todo = {}
        /\ itms' = itms /\ input' = input /\ dest' = dest
    BY <1>6 DEF ConvertEnd, CheckInput, FetchStations, ReadLeds, OpenPort, disk, statics
  <2>2. \A n \in Listed : Current(n)
    BY <2>1 DEF Fresh
  <2>3. Listed' = Listed
    BY <2>1 DEF Listed
  <2>4. \A n \in Listed : Current(n)'
    BY <2>1, <2>2 DEF Current
  <2> QED
    BY <2>1, <2>3, <2>4 DEF Fresh
<1>7. CASE ChangeMedia \/ Boot \/ EmptyFolder \/ Clone \/ CopyEnd \/ FetchData \/ Choose
             \/ PowerOff \/ \E p \in Paths : CopyOpen(p) \/ CopyClose(p)
  BY <1>2, <1>7 DEF ChangeMedia, Boot, EmptyFolder, Clone, CopyOpen, CopyClose, CopyEnd,
                    FetchData, Choose, PowerOff
<1>8. CASE UNCHANGED vars
  <2>1. /\ pc' = pc /\ itms' = itms /\ input' = input /\ dest' = dest
        /\ todo' = todo /\ out' = out
    BY <1>8 DEF vars, disk, conversion, statics
  <2>2. Listed' = Listed /\ \A n : Current(n)' <=> Current(n)
    BY <2>1 DEF Listed, Current
  <2> QED
    BY <2>1, <2>2 DEF Fresh
<1> QED
  BY <1>3, <1>4, <1>5, <1>6, <1>7, <1>8 DEF Next

\* Nothing failing, no history of runs, cut off wherever, leaves the loop with a display
\* file of the chosen folder that is missing, cut or made from anything but what ITMS
\* holds.
THEOREM FilesAreCurrent ==
    ASSUME ~Faults
    PROVE  Spec => []DisplayFilesAreCurrent
<1>1. Init => Fresh
  BY DEF Init, Fresh
<1>2. IInv /\ Fresh /\ [Next]_vars => Fresh'
  BY StepFresh
<1>3. Fresh => DisplayFilesAreCurrent
  BY DEF Fresh, Current, DisplayFilesAreCurrent
<1> QED
  BY <1>1, <1>2, <1>3, Invariance, PTL DEF Spec

=============================================================================
