----------------------------- MODULE MCDesktopShell -----------------------------
(* DesktopShell on every platform. *)
EXTENDS DesktopShell

MCPlatforms == {"mas", "darwin", "other"}
=============================================================================
