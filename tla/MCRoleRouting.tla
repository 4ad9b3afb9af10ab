---------------------------- MODULE MCRoleRouting ----------------------------
(* Labels for module RoleRouting: three resumes may all differ or collide;   *)
(* ids for their blocks: two blocks, and one the LLM may invent.             *)
EXTENDS RoleRouting

MCLabels == {"backend", "applied ai", "data"}
MCBlockIds == {"exp-1", "exp-2", "exp-3"}
==============================================================================
