-------------------------------- MODULE User --------------------------------
(***************************************************************************)
(* The User object of user.mm: whether the app is in the foreground and    *)
(* connected, the status derived from the two, and the file t.txt that     *)
(* holds the tags recorded while the status was "offline" (-1).            *)
(*                                                                         *)
(* The object is built by User() (user.mm:13-16), which sets none of these *)
(* fields: each starts with whatever the heap held.  The sets Boot...      *)
(* say which values that may be.                                           *)
(***************************************************************************)
EXTENDS Integers, Sequences

CONSTANTS
    BootFlags,      \* values a never-initialised foreground/online/fileIsOnep flag may hold
    BootReady,      \* values the never-initialised txt_ready_for_upload may hold
    BootB,          \* values the never-initialised b may hold
    OpenResults     \* outcomes of ofFile::open on t.txt that are considered

ASSUME UserAssumption ==
    /\ BootFlags \subseteq BOOLEAN
    /\ BootReady \subseteq BOOLEAN
    /\ BootB \subseteq Int
    /\ OpenResults \subseteq BOOLEAN

VARIABLES
    foreground,     \* appState_foreground_
    online,         \* appConnection_online_
    b,              \* the status status_changed() saw last
    fileOpen,       \* tempfile.is_open()
    fileIsOnep,     \* the code's own idea of fileOpen
    txtReady,       \* txt_ready_for_upload
    file            \* contents of t.txt, a sequence of fields; it outlives the process

flags     == <<foreground, online>>
fileState == <<b, fileOpen, fileIsOnep, txtReady>>
userVars  == <<flags, fileState, file>>

\* User(): tempfile is a closed ofFile, every other field is uninitialised.
UserBoot ==
    /\ foreground \in BootFlags
    /\ online \in BootFlags
    /\ b \in BootB
    /\ fileOpen = FALSE
    /\ fileIsOnep \in BootFlags
    /\ txtReady \in BootReady

\* The same in a later process.
UserReboot ==
    /\ foreground' \in BootFlags
    /\ online' \in BootFlags
    /\ b' \in BootB
    /\ fileOpen' = FALSE
    /\ fileIsOnep' \in BootFlags
    /\ txtReady' \in BootReady

\* User::getStatus()
getStatus == IF foreground /\ online THEN 1 ELSE -1

\* Mutant of WentOffline: t.txt is opened for appending.
WentOfflineAppend(status) ==
    /\ status < b
    /\ b' = status
    /\ \E ok \in OpenResults :
          /\ fileOpen' = ok
          /\ fileIsOnep' = ok
    /\ UNCHANGED <<txtReady, file>>

\* The branch "went ofline": open t.txt with ofFile::WriteOnly, which truncates it.
WentOffline(status) ==
    /\ status < b
    /\ b' = status
    /\ \E ok \in OpenResults :
          /\ fileOpen' = ok
          /\ fileIsOnep' = ok
          /\ file' = IF ok THEN <<>> ELSE file
    /\ UNCHANGED txtReady

\* Mutants of WentOnline: t.txt stays open; its upload is never asked for.
WentOnlineNoClose(status) ==
    /\ status > b
    /\ b' = status
    /\ txtReady' = TRUE
    /\ UNCHANGED <<fileOpen, fileIsOnep, file>>
WentOnlineNoUpload(status) ==
    /\ status > b
    /\ b' = status
    /\ fileOpen' = FALSE /\ fileIsOnep' = FALSE
    /\ UNCHANGED <<txtReady, file>>

\* The branch "Go ONline": close t.txt and ask for its upload.
WentOnline(status) ==
    /\ status > b
    /\ b' = status
    /\ fileOpen' = FALSE
    /\ fileIsOnep' = FALSE
    /\ txtReady' = TRUE
    /\ UNCHANGED file

\* User::status_changed(int)
status_changed(status) ==
    \/ WentOffline(status)
    \/ WentOnline(status)
    \/ status = b /\ UNCHANGED <<fileState, file>>

\* One "tempfile << field << endl" of User::addTagToFile(): a closed stream drops the field.
WriteField(field) ==
    /\ file' = IF fileOpen THEN Append(file, field) ELSE file
    /\ UNCHANGED fileState
=============================================================================
