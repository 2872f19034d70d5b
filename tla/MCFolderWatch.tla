---------------------------- MODULE MCFolderWatch ----------------------------
(* Small instances of FolderWatch: two revisions of one workbook, and a     *)
(* notes file that is no spreadsheet.                                       *)
EXTENDS FolderWatch, TLC

CONSTANTS w1, w2, old, new, notes, x, junk

MCConfig == [f \in Files |-> IF f = notes THEN "notes" ELSE "frame"]
Revisions == [f \in Files |-> CASE f = old -> <<1, 1, 1>> [] f = new -> <<2, 1, 2>> [] OTHER -> <<0, 0, 3>>]
SameRevision == [f \in Files |-> CASE f = old -> <<1, 1, 1>> [] f = new -> <<1, 1, 2>> [] OTHER -> <<0, 0, 3>>]
AllThere == [f \in Files |-> IF f = notes THEN [sha |-> junk, mtime |-> 0] ELSE [sha |-> x, mtime |-> 0]]
NewIsMissing == [AllThere EXCEPT ![new] = None]
===============================================================================
