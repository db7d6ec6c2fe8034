------------------------------ MODULE MCBullet ------------------------------
(* Two clients, the server, and a pool and a table that both run full.     *)
EXTENDS Bullet
============================================================================
