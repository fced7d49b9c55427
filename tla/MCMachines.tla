------------------------------- MODULE MCMachines ------------------------------
(***************************************************************************)
(* Six machines that share nothing, each explored by itself: `on` says     *)
(* which one runs, the others stay where they began.                       *)
(*                                                                         *)
(* LocalMoves: two notes, two folders, two names, three changes, so that a *)
(* note is renamed twice and edited, or takes the other's place, and one   *)
(* miss between any two of them.  The first note is synced; the second is  *)
(* synced beside it, or has still to be made.                              *)
(*                                                                         *)
(* ConflictResolution: an edit on each side, one more while the conflict   *)
(* is being resolved or after it, and one failure or death.                *)
(*                                                                         *)
(* RowColumns: two rows, two columns and two spare names, so that a column *)
(* and a key are renamed to them or to each other's name, or both keys in  *)
(* one push; two changes of either side and one failure or death.  The     *)
(* first row has every cell filled, the second leaves one empty; the       *)
(* second column is computed by Notion, or is not.                         *)
(*                                                                         *)
(* PluginSync: the vault and one folder, an edit of each or two of one, an *)
(* operation or a question of the user, one change of the settings.        *)
(*                                                                         *)
(* NotionRequests: three calls for two slots, one that creates blocks, one *)
(* more that must not be applied twice, and a read; one retry each, and a  *)
(* Retry-After that outlasts the place another call is waiting for, or no  *)
(* such header.                                                            *)
(*                                                                         *)
(* FolderPages: two folders, one in the other, each with a note, and their *)
(* folder notes or the notes beside them; three failures or deaths, so     *)
(* that an answer is lost, and the attempts to find the page fail.         *)
(***************************************************************************)
EXTENDS LocalMoves, ConflictResolution, RowColumns, PluginSync, NotionRequests,
        FolderPages

CONSTANTS
    x, y, d1, d2, m1, m2, p1, p2,           \* LocalMoves
    r1, r2, c1, c2, k1, k2, spare, other,   \* RowColumns
    vault, folder,                          \* PluginSync
    create, patch, read,                    \* NotionRequests
    top, sub, leaf                          \* FolderPages

Folders == <<folder>>

WithFolderNotes == {<<top, leaf>>, <<top, top>>, <<top, sub, leaf>>, <<top, sub, sub>>}
WithNotesBeside == {<<top, leaf>>, <<top>>, <<top, sub, leaf>>, <<top, sub>>}
TwoNoteSets == {WithFolderNotes, WithNotesBeside}

VARIABLE on

all == <<on, movesVars, conflictVars, columnsVars, pluginVars, requestVars, folderVars>>

Initially ==
    /\ on \in {"moves", "conflict", "columns", "plugin", "requests", "folders"}
    /\ MovesInit
    /\ where[x] = <<d1, m1>> /\ where[y] \in {<<d1, m2>>, Nowhere}
    /\ on # "moves" => hinting /\ where[y] = Nowhere
    /\ ConflictInit
    /\ on # "conflict" => uploads
    /\ PluginInit
    /\ on # "plugin" => autoSync
    /\ RequestsInit
    /\ FoldersInit
    /\ on # "folders" => toWrite = WithFolderNotes
    /\ ColumnsInit
    /\ computed \in {{}, {c2}}
    /\ on # "columns" => computed = {}
    /\ schema.name = [c \in Cols |-> IF c = c1 THEN k1 ELSE k2]
    /\ \A r \in Rows, c \in Cols \ computed : cells[r][c] = Nothing <=> r = r2 /\ c = c2
    /\ \A r \in Rows : notes[r][spare] = Nothing /\ notes[r][other] = Nothing

Either ==
    \/ /\ on = "moves" /\ MovesNext
       /\ UNCHANGED <<on, conflictVars, columnsVars, pluginVars, requestVars, folderVars>>
    \/ /\ on = "conflict" /\ ConflictNext
       /\ UNCHANGED <<on, movesVars, columnsVars, pluginVars, requestVars, folderVars>>
    \/ /\ on = "columns" /\ ColumnsNext
       /\ UNCHANGED <<on, movesVars, conflictVars, pluginVars, requestVars, folderVars>>
    \/ /\ on = "plugin" /\ PluginNext
       /\ UNCHANGED <<on, movesVars, conflictVars, columnsVars, requestVars, folderVars>>
    \/ /\ on = "requests" /\ RequestsNext
       /\ UNCHANGED <<on, movesVars, conflictVars, columnsVars, pluginVars, folderVars>>
    \/ /\ on = "folders" /\ FoldersNext
       /\ UNCHANGED <<on, movesVars, conflictVars, columnsVars, pluginVars, requestVars>>

EitherSpec == Initially /\ [][Either]_all

(* What the variables of the six hold. *)
TypesOK ==
    /\ MovesTypeOK /\ ConflictTypeOK /\ ColumnsTypeOK
    /\ PluginTypeOK /\ RequestsTypeOK /\ FoldersTypeOK
================================================================================
