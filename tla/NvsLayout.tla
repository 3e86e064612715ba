----------------------------- MODULE NvsLayout -----------------------------
(***************************************************************************)
(* The NVS namespace "esp32shell" that the two images of the device share: *)
(* the Arduino image fills it while the device is provisioned, the ESP-IDF *)
(* image reads it at boot (wifi_station.cpp, ssh_server.cpp).              *)
(***************************************************************************)
EXTENDS Naturals

CONSTANTS
    Nil,           \* no value
    LongSsids,     \* values too long for the buffers an image reads them into: 32
    LongPasswords, \* characters of an SSID, 64 of a password,
    LongNames      \* 31 of the SSH user's name

Slots == 0..1
Other(slot) == 1 - slot
SsidKey == [s \in Slots |-> IF s = 0 THEN "wifi_ssid_0" ELSE "wifi_ssid_1"]
PasswordKey == [s \in Slots |-> IF s = 0 THEN "wifi_password_0" ELSE "wifi_password_1"]
WifiKeys == {"wifi_ssid_0", "wifi_password_0", "wifi_ssid_1", "wifi_password_1",
             "wifi_ssid", "wifi_password"}
AuthKeys == {"ssh_username", "ssh_pw_hash", "ssh_host_key"}

\* A value of another key has a type, and a read asks for one; Wi-Fi keys hold
\* strings only.
Str(v) == <<"str", v>>
Blob(v) == <<"blob", v>>
IsStr(v) == v # Nil /\ v[1] = "str"
IsBlob(v) == v # Nil /\ v[1] = "blob"

\* Variant: an SSID without a password makes a profile.
LoadProfile_SsidOnly(m, slot) ==
    IF m[SsidKey[slot]] # Nil
    THEN <<m[SsidKey[slot]], m[PasswordKey[slot]]>>
    ELSE IF slot = 0 /\ m["wifi_ssid"] # Nil
         THEN <<m["wifi_ssid"], m["wifi_password"]>>
         ELSE Nil

\* readString(): a value that does not fit is not read.
Fits(m, ssidKey, passwordKey) ==
    m[ssidKey] \notin {Nil} \cup LongSsids /\ m[passwordKey] \notin {Nil} \cup LongPasswords

\* loadProfiles(): profile 0 falls back on the keys without a number, as a pair.
LoadProfile(m, slot) ==
    IF Fits(m, SsidKey[slot], PasswordKey[slot])
    THEN <<m[SsidKey[slot]], m[PasswordKey[slot]]>>
    ELSE IF slot = 0 /\ Fits(m, "wifi_ssid", "wifi_password")
         THEN <<m["wifi_ssid"], m["wifi_password"]>>
         ELSE Nil

\* load_auth_config(): a string that fits its buffer, and two blobs, which always
\* do: the sketch bounds the key it stores and computes the digest.
LoadAuth(m) ==
    IF /\ IsStr(m["ssh_username"]) /\ m["ssh_username"][2] \notin LongNames
       /\ IsBlob(m["ssh_pw_hash"]) /\ IsBlob(m["ssh_host_key"])
    THEN <<m["ssh_username"][2], m["ssh_pw_hash"][2], m["ssh_host_key"][2]>>
    ELSE Nil
=============================================================================
