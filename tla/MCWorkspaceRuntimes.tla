------------------------ MODULE MCWorkspaceRuntimes ------------------------
(* WorkspaceRuntimes with one workspace, two directories, two chains and a  *)
(* request that creates, changes or deletes the workspace.                  *)
EXTENDS WorkspaceRuntimes

=============================================================================
