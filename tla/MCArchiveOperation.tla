------------------------ MODULE MCArchiveOperation ------------------------
(* TLC values for ArchiveOperation: the requests an exporting source and a *)
(* restored destination receive, and two interchangeable callers.          *)
EXTENDS ArchiveOperation, TLC

CONSTANTS c1, c2

ExportRequests == {"startExport", "exportPage", "finishExport"}
RestoreRequests == {"beginRestore", "appendRestore", "activateRestore", "discardRestore"}

CallerSymmetry == Permutations(Caller)
===========================================================================
