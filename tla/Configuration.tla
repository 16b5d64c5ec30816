---------------------------- MODULE Configuration ----------------------------
(***************************************************************************)
(* Where the settings of the server come from: defaults, the configuration *)
(* file and the command line when it starts (main), and the file again on  *)
(* SIGHUP (super_sighup_handler), where some keys are read one by one with *)
(* readKeyFromConfigurationFile and the others together with               *)
(* readConfigurationParametersFromFile.  Each of these calls opens the     *)
(* file anew, and the administrator may change it in between.              *)
(*                                                                         *)
(* A file is a sequence of lines key=value (blank lines are skipped); a    *)
(* value of PEERS is one peer.  Settings are kept under the names of their *)
(* keys.  DAEMON, which is used only at the start, is left out.            *)
(***************************************************************************)
EXTENDS Naturals, Sequences

CONSTANTS
    Values,      \* the values in files and on the command line
    Default,     \* the value of a setting nobody gives
    MaxLines,    \* bound on the lines of a file
    MaxEdits     \* bound on the changes of the file

ASSUME ConfigurationAssumption ==
    /\ Default \notin Values
    /\ MaxLines \in Nat
    /\ MaxEdits \in Nat

Keys == {"THMAX", "BBPORT", "SYNCPORT", "BBFILE", "DEBUG", "PEERS"}

Files == UNION {[1 .. n -> [key : Keys, value : Values]] : n \in 0 .. MaxLines}

\* The options -T, -p, -s, -b and -d by the keys they stand for; at most one
\* is given, and the list of peers that may follow has at most one member.
CommandLines == {<<>>} \cup {<<option>> : option \in [key : Keys, value : Values]}

VARIABLES
    file,        \* bbserv.conf
    options,     \* the command line
    settings,    \* the variables the settings are kept in
    pc,          \* "start", "running", "exited", or the next read of the handler
    edits,       \* how often the file was changed
    kept,        \* the settings when the signal came, for the property
    edited       \* the file was changed while the handler ran, for the property

vars == <<file, options, settings, pc, edits, kept, edited>>

-----------------------------------------------------------------------------
(* Reading.                                                                *)

Assign(s, setting) ==
    [s EXCEPT ![setting.key] = IF setting.key = "PEERS" THEN Append(@, setting.value)
                                                       ELSE setting.value]

\* One assignment after the other.
AssignAll(s, lines) ==
    LET after[n \in 0 .. Len(lines)] ==
            IF n = 0 THEN s ELSE Assign(after[n - 1], lines[n])
    IN  after[Len(lines)]

\* A later line overrides an earlier one; peers are collected.
readConfigurationParametersFromFile(s) == AssignAll(s, file)

HasKey(key) == \E i \in DOMAIN file : file[i].key = key

\* The first line with the key counts.
readKeyFromConfigurationFile(key, default) ==
    IF HasKey(key)
    THEN file[CHOOSE i \in DOMAIN file : /\ file[i].key = key
                                         /\ \A j \in 1 .. i - 1 : file[j].key # key].value
    ELSE default

Defaults == [k \in Keys |-> IF k = "PEERS" THEN <<>> ELSE Default]

\* What a start gives: the file over the defaults, the command line over the file,
\* and the peers of the command line after those of the file.
Started == AssignAll(readConfigurationParametersFromFile(Defaults), options)

-----------------------------------------------------------------------------

Init ==
    /\ file \in Files
    /\ options \in CommandLines
    /\ settings = Defaults
    /\ pc = "start"
    /\ edits = 0
    /\ kept = settings /\ edited = FALSE

\* main: without a board file the server does not start.
Start ==
    /\ pc = "start"
    /\ settings' = Started
    /\ pc' = IF settings'["BBFILE"] = Default THEN "exited" ELSE "running"
    /\ UNCHANGED <<file, options, edits, kept, edited>>

Edit ==
    /\ pc \notin {"start", "exited"} /\ edits < MaxEdits
    /\ file' \in Files
    /\ edits' = edits + 1
    /\ edited' = (pc # "running")
    /\ UNCHANGED <<options, settings, pc, kept>>

Sighup ==
    /\ pc = "running"
    /\ pc' = "debug"
    /\ kept' = settings
    /\ edited' = FALSE
    /\ UNCHANGED <<file, options, settings, edits>>

ReadKey(key, here, next) ==
    /\ pc = here
    /\ settings' = [settings EXCEPT ![key] = readKeyFromConfigurationFile(key, @)]
    /\ pc' = next
    /\ UNCHANGED <<file, options, edits, kept, edited>>

BugPeersAppended ==
    /\ pc = "board"
    /\ settings' =
         LET s == readConfigurationParametersFromFile(settings) IN
             [settings EXCEPT !["THMAX"] = s["THMAX"], !["BBPORT"] = s["BBPORT"],
                              !["PEERS"] = s["PEERS"]]
    /\ pc' = "sync"
    /\ UNCHANGED <<file, options, edits, kept, edited>>

\* The other settings of the file are read into variables nobody looks at; the
\* peers are replaced if the file has any.
reconfigureBoardServerGlobalVars ==
    /\ pc = "board"
    /\ settings' =
         LET s == readConfigurationParametersFromFile([settings EXCEPT !["PEERS"] = <<>>]) IN
             [settings EXCEPT !["THMAX"] = s["THMAX"], !["BBPORT"] = s["BBPORT"],
                              !["PEERS"] = IF s["PEERS"] = <<>> THEN @ ELSE s["PEERS"]]
    /\ pc' = "sync"
    /\ UNCHANGED <<file, options, edits, kept, edited>>

\* DEBUG is a truth value, which goes through to_string and is_true unchanged.
setDebuggingPreference == ReadKey("DEBUG", "debug", "bbfile")
setBulletinBoardFile == ReadKey("BBFILE", "bbfile", "board")
reconfigureSyncServerPort == ReadKey("SYNCPORT", "sync", "running")

Next ==
    \/ Start
    \/ Edit
    \/ Sighup
    \/ setDebuggingPreference \/ setBulletinBoardFile
    \/ reconfigureBoardServerGlobalVars
    \/ reconfigureSyncServerPort

Spec == Init /\ [][Next]_vars

-----------------------------------------------------------------------------
(* Properties.                                                             *)

\* The keys of the file that are read one by one take the first line with the key,
\* a start takes the last.
Unambiguous(k) ==
    k \in {"DEBUG", "BBFILE", "SYNCPORT"} =>
        \A i, j \in DOMAIN file : file[i].key = k /\ file[j].key = k => i = j

Given(k) == \E i \in DOMAIN options : options[i].key = k

\* A reload gives every setting of the file the value a start with the same file
\* and the same command line would give it, and leaves those alone the file does not
\* have, if the file is not changed meanwhile: no key is missed by the four calls,
\* and the two ways of reading agree.  There are two exceptions: a setting the
\* command line gives too, where a start takes the command line (or adds its peers)
\* and a reload takes the file alone; and a key that is several times in the file
\* and is read on its own.  Code: super_sighup_handler against main.
ReloadIsRestart ==
    [][pc = "sync" /\ pc' = "running" /\ ~edited =>
          \A k \in Keys :
              /\ ~HasKey(k) => settings'[k] = kept[k]
              /\ HasKey(k) /\ Unambiguous(k) =>
                    settings'[k] = IF Given(k)
                                   THEN readConfigurationParametersFromFile(Defaults)[k]
                                   ELSE Started[k]]_vars
=============================================================================
