---------------------------- MODULE MCSshServer ----------------------------
(***************************************************************************)
(* Clients: a shell and an SFTP client that know the account, one with a   *)
(* wrong password, one that offers a key.                                  *)
(***************************************************************************)
EXTENDS SshServer

Account == [name |-> "admin", password |-> "right"]
Shell == [method |-> "password", name |-> "admin", password |-> "right", wants |-> "shell"]
Sftp == [Shell EXCEPT !.wants = "sftp"]
Wrong == [Shell EXCEPT !.password = "wrong"]
Key == [Sftp EXCEPT !.method = "publickey"]

AllClients == {Shell, Sftp, Wrong, Key}
OneClient == {Shell}
=============================================================================
