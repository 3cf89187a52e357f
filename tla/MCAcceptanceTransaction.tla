---------------------- MODULE MCAcceptanceTransaction ----------------------
(* Instances of AcceptanceTransaction for TLC.                              *)
EXTENDS AcceptanceTransaction

(* A transition that changes two files, writes an artifact and derives a    *)
(* task.                                                                    *)
MCPlan == <<"delete_changed_file", "promote_changed_file", "commit_repo_changes",
            "promote_artifact", "create_task", "link_derived_tasks", "move_task">>
=============================================================================
