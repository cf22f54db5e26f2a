---------------------------- MODULE MCServerConfig ----------------------------
(* Instance of ServerConfig for TLC: one host and one Params name, so     *)
(* that doubles, unknown names and backups replacing their own host       *)
(* occur, and two connections referencing the configuration.              *)
EXTENDS ServerConfig

CONSTANTS h1, p1, c1, c2
====
