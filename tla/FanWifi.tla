------------------------------- MODULE FanWifi ------------------------------
(***************************************************************************)
(* The Wi-Fi handler of the smart fan, ch12/smart_fan/lib/wifi/app_wifi.c. *)
(* It asks for a connection when the station starts and after each loss,   *)
(* and gives up when retry_cnt has reached MAX_RETRY.  Nothing in the file *)
(* sets retry_cnt back.                                                    *)
(***************************************************************************)
EXTENDS Integers

CONSTANT MAX_RETRY
ASSUME WifiAssumption == MAX_RETRY \in Nat

VARIABLES
  wifi,       \* the station
  retry_cnt

wifiVars == <<wifi, retry_cnt>>

WifiTypeOK ==
  /\ wifi \in {"stopped", "connecting", "up", "failed"}
  /\ retry_cnt \in 0 .. MAX_RETRY + 1

WifiInit == wifi = "stopped" /\ retry_cnt = 0

\* appwifi_connect, up to the STA_START event and its esp_wifi_connect.
appwifi_connect ==
  /\ wifi = "stopped"
  /\ wifi' = "connecting"
  /\ UNCHANGED retry_cnt

\* IP_EVENT_STA_GOT_IP: on_connected is called.  A station that is associated
\* gets another address, or its own again after it was lost, without a
\* disconnection: the handler does not tell that from a connection.
GotIp ==
  /\ wifi \in {"connecting", "up"}
  /\ wifi' = "up"
  /\ UNCHANGED retry_cnt

\* Mutant: one attempt too many.
StaDisconnectedOnceMore ==
  /\ wifi \in {"connecting", "up"}
  /\ retry_cnt' = retry_cnt + 1
  /\ wifi' = IF retry_cnt <= MAX_RETRY THEN "connecting" ELSE "failed"

\* WIFI_EVENT_STA_DISCONNECTED, of an association or of an attempt at one.
\* retry_cnt++ happens in the comparison, whichever branch is taken.
StaDisconnected ==
  /\ wifi \in {"connecting", "up"}
  /\ retry_cnt' = retry_cnt + 1
  /\ wifi' = IF retry_cnt < MAX_RETRY THEN "connecting" ELSE "failed"

WifiReset == wifi' = "stopped" /\ retry_cnt' = 0

WifiNext == appwifi_connect \/ GotIp \/ StaDisconnected \/ WifiReset

WifiSafety == WifiInit /\ [][WifiNext]_wifiVars

\* The counter overruns its limit by one, and exactly when the station gave up.
RetryMatchesState == wifi = "failed" <=> retry_cnt > MAX_RETRY

=============================================================================
