------------------------------ MODULE MCSessions ------------------------------
(***************************************************************************)
(* Instances of Sessions for TLC.                                          *)
(***************************************************************************)
EXTENDS Sessions, TLC

CONSTANTS conversation, chat, project, uuid, bare, session, poll, callback

\* A Claude file; a Gemini file, whose ID is its name without "session-".
Logs == {conversation, chat}
Owner == conversation :> "claude" @@ chat :> "gemini"
Dirs == conversation :> project @@ chat :> project
Stems == conversation :> <<uuid>> @@ chat :> <<session, bare>>
LinesOf == conversation :> 1 @@ chat :> 2
Deleted == {conversation}
Order == <<"claude", "gemini">>
=============================================================================
