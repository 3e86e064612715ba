------------------------- MODULE MCBootstrapSketch -------------------------
(***************************************************************************)
(* Instances of BootstrapSketch.  `blank` has the SSID "home net"; the     *)
(* line that names it is taken for the SSID "home" and a password that     *)
(* begins with "net", the credential `half`.  `wide` has a password and    *)
(* `long` an SSID longer than their buffers, and an old name of the SSH    *)
(* user does not fit the ESP-IDF image's.                                  *)
(*                                                                         *)
(* The apps touch nothing the Wi-Fi service does: they are tested on a     *)
(* device without a profile.                                               *)
(***************************************************************************)
EXTENDS BootstrapSketch, TLC

CONSTANTS home, away, wide, long, blank, half, cut, old, new

AllCreds == {home, away, wide, long, blank, half, cut}
OneCred == {home}
TwoSecrets == {old, new}

Wide == {wide}
Long == {long}
Old == {old}
Shorter == [c \in AllCreds |-> IF c \in {wide, long} THEN cut ELSE c]
Split ==
    [w \in (Slots \cup {Nil}) \X AllCreds |->
        <<IF w[1] = Nil THEN 0 ELSE w[1], IF w[2] = blank THEN half ELSE w[2]>>]

Empty == [k \in Keys |-> Nil]
General == ("wifi_ssid" :> away) @@ ("wifi_password" :> away) @@ Empty
Before == ("wifi_ssid_0" :> away) @@ ("wifi_password_0" :> away)
          @@ ("ssh_username" :> Str(old)) @@ ("ssh_pw_hash" :> Blob(old))
          @@ ("ssh_host_key" :> Blob(old)) @@ General

\* What provision_ssh.ps1 sends, and build_flash_monitor.ps1 for two profiles.
Provision(c, name) ==
    <<WifiLine(Nil, c), SetLine("ssh_username", name), SetLine("ssh_password", new),
      SetLine("ssh_host_key", new)>>
Profiles(c, d) == <<WifiLine(0, c), WifiLine(1, d)>>

At(who, list, store) == [user |-> who, script |-> list, nvs |-> store]
SixSituations ==
    {At("tool", Provision(home, new), Before), At("tool", Profiles(home, away), General),
     At("tool", Profiles(blank, wide), Empty), At("tool", Provision(long, new), Empty),
     At("operator", << >>, General), At("tester", << >>, Empty)}

BlankInSsid == {At("tool", Provision(blank, new), Empty)}
=============================================================================
