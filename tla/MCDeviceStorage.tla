-------------------------- MODULE MCDeviceStorage --------------------------
(***************************************************************************)
(* An instance of DeviceStorage: two credentials and one with a password   *)
(* that is too long, an SSH user's name that is, a file whose temporary    *)
(* name is also the name of a file of the operator's, and four images: a   *)
(* good one, one signed by someone else, one that is no application and    *)
(* one that no slot has room for.                                          *)
(***************************************************************************)
EXTENDS DeviceStorage, TLC

CONSTANTS home, away, long, x, old, new, good, foreign, junk, huge

ThreeCreds == {home, away, long}
NoCreds == {}
LongCreds == {long}
TwoTexts == {x, long}
LongTexts == {long}
TwoContents == {old, new}
TwoFiles == {"a", "a.tmp"}
TempOf == [f \in TwoFiles |-> IF f = "a" THEN "a.tmp" ELSE "a.tmp.tmp"]
FourImages == {good, foreign, junk, huge}
SignerOf == [image \in FourImages |-> IF image = foreign THEN Nil ELSE x]
NoApplication == {junk}
TooLarge == {huge}

\* What provision_ssh.ps1 leaves; and what config-set leaves of it when wifi-config
\* has stored a password that is too long and the keys without a number are then
\* set to the right one.
Numbered ==
    [k \in Keys |-> CASE k \in WifiKeys \ {"wifi_ssid_1", "wifi_password_1"} -> home
                      [] k = "ssh_username" -> Str(x)
                      [] k \in {"ssh_pw_hash", "ssh_host_key"} -> Blob(x)
                      [] OTHER -> Nil]
Mended == [Numbered EXCEPT !["wifi_ssid_0"] = long, !["wifi_password_0"] = long]
Bootstrapped == {Numbered, Mended}
=============================================================================
