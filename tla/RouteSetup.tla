----------------------------- MODULE RouteSetup -----------------------------
(***************************************************************************)
(* The route preparation of geo_fence_task_func(), before its polling      *)
(* loop: copy the ITMS folder from a storage device, read the route book,  *)
(* let the operator choose a route, convert its display files into ./Dest  *)
(* and read its stations.  The disk outlives the process, which can end at *)
(* any point, also inside the copy and between the opening and the closing *)
(* of a file, and start again.                                             *)
(*                                                                         *)
(* Options are numbered from 0, routes from 1; option r is route r + 1.    *)
(* What the code looks up in different places is kept apart: RouteCount    *)
(* and the RouteDetail entries of the book, the settings in the folder     *)
(* that an entry's RouteID names, and the .dat files of AARGEE/0000<n>/02. *)
(***************************************************************************)
EXTENDS Integers, FiniteSets

CONSTANTS
    Editions,     \* editions of the ITMS folder that storage devices carry
    RouteCounts,  \* RouteCounts[e]: "RouteCount" of its .bus file
    Entries,      \* Entries[e][x]: the RouteID of entry x of its "RouteDetail"
    Stations,     \* Stations[e][r]: stations in the settings file of folder r
    DatFiles,     \* DatFiles[e][f]: the .dat files of folder AARGEE/0000<f>/02
    MaxStations,  \* bound: stations in a settings file
    MaxFiles,     \* bound: the names of .dat files are 1 .. MaxFiles
    Inputs,       \* what the operator can enter
    Faults        \* a copy, an allocation, a read or an open may fail

MAX_STRINGS == 10              \* size of the array of file names, strings
OPTIONS == 50                  \* size of routeOptions

ASSUME EditionAssumption ==
    /\ Editions \subseteq Nat \ {0} /\ Editions # {}
    /\ \A e \in Editions :
        /\ RouteCounts[e] \in 0 .. MAX_STRINGS
        /\ \A r \in DOMAIN Stations[e] : Stations[e][r] \in 0 .. MaxStations
        /\ \A f \in DOMAIN DatFiles[e] : DatFiles[e][f] \subseteq 1 .. MaxFiles
ASSUME InputAssumption == Inputs \subseteq Int
ASSUME SizeAssumption == MaxStations \in Nat /\ MaxFiles \in Nat
ASSUME FaultAssumption == Faults \in BOOLEAN

\* The files of a folder ITMS that the program reads; the LED files are taken as one.
Bus == <<"bus", 0, 0>>
Leds == <<"leds", 0, 0>>
Settings(r) == <<"settings", r, 0>>
Dat(f, n) == <<"dat", f, n>>
FilesOf(e) ==
    {Bus, Leds} \cup {Settings(r) : r \in DOMAIN Stations[e]}
                \cup UNION {{Dat(f, n) : n \in DatFiles[e][f]} : f \in DOMAIN DatFiles[e]}
Paths == UNION {FilesOf(e) : e \in Editions}

\* A copy of a file: the edition it is from, 0 if there is none, and whether it has
\* been written to its end.
Copy(e, w) == [edition |-> e, whole |-> w]
Absent == Copy(0, FALSE)

\* A file of ./Dest: the folder number and the .dat file it was made from.
Converted(f, copy, w) == [folder |-> f, from |-> copy, whole |-> w]
NoFile == Converted(0, Absent, FALSE)

VARIABLES
    pc,          \* where geo_fence_task is; "off": no process
    media,       \* the editions on the storage devices plugged in
    source,      \* the edition cp -r is copying, 0 otherwise
    hasItms,     \* the program's own folder ITMS exists
    itms,        \* its files
    dest,        \* the files of ./Dest, by name
    todo,        \* names TextFetch() has still to convert
    out,         \* the one it has open for writing, 0 if none
    routeCount,  \* RouteCount
    book,        \* the edition whose entries are in routeOptions, 0 if none
    input,       \* user_input
    numStations  \* numStations

disk == <<hasItms, itms, dest>>
conversion == <<todo, out>>
statics == <<routeCount, book, input, numStations>>
vars == <<pc, media, source, disk, conversion, statics>>

Pcs == {"off", "empty", "clone", "copy", "fetch", "choose", "text", "convert", "check",
        "stations", "leds", "open", "poll", "done", "crashed"}

Init ==
    /\ pc = "off" /\ media = {} /\ source = 0
    /\ hasItms = FALSE /\ itms = [p \in Paths |-> Absent]
    /\ dest = [n \in 1 .. MaxFiles |-> NoFile] /\ todo = {} /\ out = 0
    /\ routeCount = 0 /\ book = 0 /\ input = 0 /\ numStations = 0

\* The step of the task from label a to label b.
Go(a, b) == pc = a /\ pc' = b

-----------------------------------------------------------------------------
(* Around the process.                                                     *)

\* The process ends, by a failure, an exit of another thread or a power cut, and with
\* it cp and all that was in memory.
PowerOff ==
    /\ pc # "off" /\ pc' = "off" /\ source' = 0 /\ todo' = {} /\ out' = 0
    /\ routeCount' = 0 /\ book' = 0 /\ input' = 0 /\ numStations' = 0
    /\ UNCHANGED <<media, disk>>

ChangeMedia ==
    /\ pc = "off" /\ media' \in SUBSET Editions
    /\ UNCHANGED <<pc, source, disk, conversion, statics>>

Boot == Go("off", "empty") /\ UNCHANGED <<media, source, disk, conversion, statics>>

\* deleteFolderContents() empties ./ext_lib/user_led//Dest; the converted files are in
\* ./Dest, which it leaves alone.
EmptyFolder ==
    Go("empty", "clone") /\ UNCHANGED <<media, source, disk, conversion, statics>>

-----------------------------------------------------------------------------
(* clone_the_sourcefolder().                                               *)

\* Mutant: the files are copied into the folder that is there.
CloneMerges ==
    /\ \/ \E e \in media : Go("clone", "copy") /\ source' = e /\ hasItms' = TRUE
       \/ (media = {} \/ Faults) /\ Go("clone", "fetch") /\ UNCHANGED <<source, hasItms>>
    /\ UNCHANGED <<media, itms, dest, conversion, statics>>

\* For each device "cp -r device/ITMS ITMS".  Without the program's own folder the
\* first one creates it; into an existing folder cp copies as ITMS/ITMS, where
\* nothing is looked for.
Clone ==
    /\ \/ /\ ~hasItms /\ Go("clone", "copy")
          /\ \E e \in media : source' = e
          /\ hasItms' = TRUE
       \/ /\ hasItms \/ media = {} \/ Faults
          /\ Go("clone", "fetch") /\ UNCHANGED <<source, hasItms>>
    /\ UNCHANGED <<media, itms, dest, conversion, statics>>

\* cp creates a file of the edition, in the order of its directories; it goes on to the
\* next when it fails in the middle of one.
CopyOpen(p) ==
    /\ pc = "copy" /\ p \in FilesOf(source) /\ itms[p].edition # source
    /\ Faults \/ \A q \in FilesOf(source) : itms[q].edition = source => itms[q].whole
    /\ itms' = [itms EXCEPT ![p] = Copy(source, FALSE)]
    /\ UNCHANGED <<pc, media, source, hasItms, dest, conversion, statics>>

\* It has written all of it.
CopyClose(p) ==
    /\ pc = "copy" /\ itms[p] = Copy(source, FALSE)
    /\ itms' = [itms EXCEPT ![p] = Copy(source, TRUE)]
    /\ UNCHANGED <<pc, media, source, hasItms, dest, conversion, statics>>

\* cp ends, with all files copied or after an error, which system() does not tell.
CopyEnd ==
    /\ Go("copy", "fetch")
    /\ Faults \/ \A p \in FilesOf(source) : itms[p] = Copy(source, TRUE)
    /\ source' = 0
    /\ UNCHANGED <<media, disk, conversion, statics>>

-----------------------------------------------------------------------------
(* The rest of geo_fence_task_func().                                      *)

\* fetch_data(); its error result is not looked at.  A .bus file that was cut does
\* not parse.
FetchData ==
    /\ Go("fetch", "choose")
    /\ \/ /\ itms[Bus].whole
          /\ book' = itms[Bus].edition /\ routeCount' = RouteCounts[book']
       \/ (~itms[Bus].whole \/ Faults) /\ UNCHANGED <<book, routeCount>>
    /\ UNCHANGED <<media, source, disk, conversion, input, numStations>>

\* The operator enters an option; its name is printed before any check, which
\* reads outside routeOptions for some.
Choose ==
    /\ pc = "choose" /\ input' \in Inputs
    /\ \/ pc' = "text"
       \/ input' \notin 0 .. OPTIONS - 1 /\ pc' = "crashed"
    /\ UNCHANGED <<media, source, disk, conversion, routeCount, book, numStations>>

\* snprintf(RouteString, 6, "0000%d", r): one character of r fits, so that the
\* number of the folder is the leading digit of r; "-" is no folder's name.
Digits == 1 .. 9
Folder(r) ==
    IF r < 0 THEN -1
    ELSE IF r < 10 THEN r
    ELSE CHOOSE d \in Digits : \E k \in {10, 100, 1000} : r \div k = d

\* getDatFiles(): the .dat files the chosen folder holds, copied in full or not.
Listed ==
    {n \in 1 .. MaxFiles : LET p == Dat(Folder(input + 1), n)
                           IN  p \in Paths /\ itms[p].edition # 0}

\* TextFetch() takes the list; it leaves out some or all of it silently when the
\* folder cannot be opened or memory is short.
TextFetch ==
    /\ Go("text", "convert")
    /\ \/ todo' = Listed
       \/ Faults /\ todo' \in SUBSET Listed
    /\ UNCHANGED <<media, source, out, disk, statics>>

\* Mutant: a file that exists is not written again.
ConvertMissing(n) ==
    /\ pc = "convert" /\ out = 0 /\ n \in todo
    /\ IF dest[n] = NoFile
       THEN LET f == Folder(input + 1)
            IN  dest' = [dest EXCEPT ![n] = Converted(f, itms[Dat(f, n)], FALSE)]
       ELSE UNCHANGED dest
    /\ IF dest[n] = NoFile THEN out' = n /\ UNCHANGED todo
                           ELSE todo' = todo \ {n} /\ UNCHANGED out
    /\ UNCHANGED <<pc, media, source, hasItms, itms, statics>>

\* fnDat2hex_Converter() reads one of the files, in the order of the directory, and
\* fnHexmerger() opens its text file, which empties it.  An unreadable file or a
\* missing ./Dest is dereferenced.
Convert(n) ==
    /\ pc = "convert" /\ out = 0 /\ n \in todo
    /\ \/ /\ LET f == Folder(input + 1)
             IN  dest' = [dest EXCEPT ![n] = Converted(f, itms[Dat(f, n)], FALSE)]
          /\ out' = n /\ UNCHANGED pc
       \/ Faults /\ pc' = "crashed" /\ UNCHANGED <<dest, out>>
    /\ UNCHANGED <<media, source, hasItms, itms, todo, statics>>

\* It writes header, bytes and checksum, and closes the file.
ConvertClose ==
    /\ pc = "convert" /\ out # 0
    /\ dest' = [dest EXCEPT ![out] = Converted(@.folder, @.from, TRUE)]
    /\ todo' = todo \ {out} /\ out' = 0
    /\ UNCHANGED <<pc, media, source, hasItms, itms, statics>>

ConvertEnd ==
    /\ Go("convert", "check") /\ todo = {}
    /\ UNCHANGED <<media, source, disk, conversion, statics>>

\* The range check comes after the use, and lets RouteCount itself pass.
CheckInput ==
    /\ pc = "check"
    /\ pc' = IF input > routeCount \/ input < 0 THEN "done" ELSE "stations"
    /\ UNCHANGED <<media, source, disk, conversion, statics>>

\* The settings file of the option is there and whole: the book has an entry for the
\* option, whether or not RouteCount says so, and its folder has the file.
SettingsRead ==
    /\ book # 0 /\ input \in DOMAIN Entries[book]
    /\ LET p == Settings(Entries[book][input]) IN p \in Paths /\ itms[p].whole
StationCount == LET r == Entries[book][input]
                IN  Stations[itms[Settings(r)].edition][r]

\* Mutant: the stations of both directions are counted together.
FetchStationsTwice ==
    /\ Go("stations", "leds")
    /\ \/ SettingsRead /\ numStations' = 2 * StationCount
       \/ (~SettingsRead \/ Faults) /\ UNCHANGED numStations
    /\ UNCHANGED <<media, source, disk, conversion, routeCount, book, input>>

\* fetch_station_details() does not look for missing coordinates.
FetchStations ==
    /\ \/ /\ Go("stations", "leds")
          /\ \/ SettingsRead /\ numStations' = StationCount
             \/ (~SettingsRead \/ Faults) /\ UNCHANGED numStations
       \/ Faults /\ Go("stations", "crashed") /\ UNCHANGED numStations
    /\ UNCHANGED <<media, source, disk, conversion, routeCount, book, input>>

\* processLEDIDFolder() for every station goes on after its error messages with NULL
\* and freed pointers.  processFile() then finds none of its absolute paths.
ReadLeds ==
    /\ \/ (numStations = 0 \/ itms[Leds].whole) /\ Go("leds", "open")
       \/ numStations > 0 /\ (~itms[Leds].whole \/ Faults) /\ Go("leds", "crashed")
    /\ UNCHANGED <<media, source, disk, conversion, statics>>

OpenPort ==
    /\ \/ Go("open", "poll")
       \/ Faults /\ Go("open", "done")
    /\ UNCHANGED <<media, source, disk, conversion, statics>>

-----------------------------------------------------------------------------
Next ==
    \/ PowerOff \/ ChangeMedia \/ Boot \/ EmptyFolder
    \/ Clone \/ \E p \in Paths : CopyOpen(p) \/ CopyClose(p)
    \/ CopyEnd \/ FetchData \/ Choose \/ TextFetch
    \/ \E n \in 1 .. MaxFiles : Convert(n)
    \/ ConvertClose \/ ConvertEnd \/ CheckInput \/ FetchStations \/ ReadLeds \/ OpenPort

Spec == Init /\ [][Next]_vars

-----------------------------------------------------------------------------
(* Properties.                                                             *)

\* The state has the shape of the declarations in the code.
Folders == {0} \cup UNION {DOMAIN DatFiles[e] : e \in Editions}
Copies == [edition : Editions \cup {0}, whole : BOOLEAN]
TypeOK ==
    /\ pc \in Pcs /\ media \subseteq Editions /\ source \in Editions \cup {0}
    /\ hasItms \in BOOLEAN /\ itms \in [Paths -> Copies]
    /\ dest \in [1 .. MaxFiles -> [folder : Folders, from : Copies, whole : BOOLEAN]]
    /\ todo \subseteq 1 .. MaxFiles /\ out \in 0 .. MaxFiles
    /\ routeCount \in 0 .. MAX_STRINGS /\ book \in Editions \cup {0}
    /\ input \in Inputs \cup {0} /\ numStations \in 0 .. MaxStations

\* Nothing failing, the loop starts with a display file in ./Dest for every .dat file
\* of the folder that RouteString names: whole, of that folder, and made from the file
\* as ITMS holds it, whatever runs cut off in the copy or in a conversion, for other
\* routes or for options that are not listed, have left on the disk.
DisplayFilesAreCurrent ==
    pc = "poll" => \A n \in Listed :
        LET f == Folder(input + 1)
        IN  dest[n] = Converted(f, itms[Dat(f, n)], TRUE)

\* Even when copies break off and devices of several editions come and go, the folder
\* ITMS and the files made from it never mix two editions.
OneEdition ==
    \E e \in Editions \cup {0} :
        /\ \A p \in Paths : itms[p].edition \in {0, e}
        /\ \A n \in 1 .. MaxFiles : dest[n].from.edition \in {0, e}

\* A copy that was cut before the .bus file was whole is never repaired: no later run,
\* with whatever device, has a route to offer or reads a station.
RoutesLost == hasItms /\ pc # "copy" /\ ~itms[Bus].whole
CutCopyIsForGood ==
    [][RoutesLost => RoutesLost' /\ routeCount' = 0 /\ numStations' = 0]_vars

\* "User input is out of scope" (geo_fence_task.c): the options on offer are 0
\* to RouteCount - 1, and no other gets past the check.
AcceptedInputIsListed == pc = "stations" => input \in 0 .. routeCount - 1

\* 'Copy the "ITMS" folder to the directory of the executing program'
\* (CopyITMS.c): after copying, the program's folder has nothing but what a device
\* has now.
CopyIsCurrent ==
    pc = "fetch" /\ media # {} => \A p \in Paths : itms[p].edition \in media \cup {0}

=============================================================================
