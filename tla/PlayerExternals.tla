--------------------------- MODULE PlayerExternals ---------------------------
(***************************************************************************)
(* PlayerExternalsInterface and PlayerExternalsRdkInterface: what the       *)
(* player knows of the HDMI display and of the network interface, and what  *)
(* OCDMSessionAdapter makes of it before it decrypts.                       *)
(*                                                                         *)
(* PlayerExternalsInterface makes a PlayerExternalsRdkInterface of its own  *)
(* and is asked through it; the handlers of the IARM events get theirs from *)
(* GetPlayerExternalsRdkInterfaceInstance.  They are two objects.  One      *)
(* player at a time builds session adapters (DrmSessionManager does it      *)
(* under mDrmSessionLock), so that the first call of                        *)
(* GetPlayerExternalsInterfaceInstance is one step; the static pointer      *)
(* keeps the object for good.  Display, network and decoder are external.   *)
(***************************************************************************)
EXTENDS Naturals, Sequences

CONSTANTS
  Resolutions,          \* resolutions of a display; "other" is not in the table
  MaxDisplayChanges,    \* bound: changes of the display
  MaxInterfaceChanges,  \* bound: changes of the active interface
  MaxSources            \* bound: videos played

ASSUME ExternalsAssumption ==
  {MaxDisplayChanges, MaxInterfaceChanges, MaxSources} \subseteq Nat

VARIABLES
  fake,           \* in a container, or built without IARM: FakePlayerIarmInterface
  hdmi,        \* what is plugged in: the HDCP in use and the resolution
  displayEvents,  \* IARM_BUS_DSMGR events on their way to the handlers
  asked,          \* the object of s_pPlayerOP, or NotMade
  handled,        \* the object the handlers update, s_pPlayerIarmRdkOP
  changed,        \* history: the display changed since asked read it
  source,         \* the video decoder of the pipeline: none, or what it decodes
  gstElement,     \* asked has m_gstElement
  interface,      \* the active network interface
  interfaceEvents, registered,  \* IARM_BUS_NETWORK_MANAGER events, if registered for
  query,          \* what IsActiveStreamingInterfaceWifi read and did not store
  isInterfaceWifi,
  missed,         \* history: the interface changed during a query, or it failed
  displayChanges, interfaceChanges, sources

displayVars == <<hdmi, displayEvents, asked, handled, changed, displayChanges>>
sourceVars == <<source, gstElement, sources>>
interfaceVars == <<interface, interfaceEvents, registered, query, isInterfaceWifi, missed,
                   interfaceChanges>>
externalsVars == <<fake, displayVars, sourceVars, interfaceVars>>

Protocols == {"1X", "2X"}
Displays == [hdcp : {"none"} \union Protocols, resolution : Resolutions]
Unplugged == [hdcp |-> "unplugged", resolution |-> "NA"]

\* m_hdcpCurrentProtocol, the resolution, and how the last SetHDMIStatus ended.
DisplayStatuses == [protocol : Protocols, resolution : Resolutions \union {"NA", "unknown"},
              read : {"never", "whole", "threw"}]
NotMade == [protocol |-> "1X", resolution |-> "NA", read |-> "not made"]

\* The members that no constructor sets.
Garbage == {[protocol |-> p, resolution |-> "NA", read |-> "never"] : p \in Protocols}

ExternalsTypeOK ==
  /\ fake \in BOOLEAN /\ hdmi \in Displays \union {Unplugged}
  /\ asked \in DisplayStatuses \union {NotMade} /\ handled \in DisplayStatuses
  /\ source \in {"none", "hd", "uhd"} /\ gstElement \in BOOLEAN
  /\ interface \in {"wlan0", "eth0"} /\ query \in {"none", "WIFI", "ETHERNET", "failed"}
  /\ {changed, registered, isInterfaceWifi, missed} \subseteq BOOLEAN

ExternalsInit ==
  /\ fake \in BOOLEAN
  /\ hdmi \in Displays \union {Unplugged} /\ displayEvents = <<>>
  /\ asked = NotMade /\ handled \in Garbage /\ changed = FALSE
  /\ source = "none" /\ gstElement = FALSE
  /\ interface \in {"wlan0", "eth0"} /\ interfaceEvents = <<>> /\ registered = FALSE
  /\ query = "none" /\ isInterfaceWifi = FALSE /\ missed = FALSE
  /\ displayChanges = 0 /\ interfaceChanges = 0 /\ sources = 0

-----------------------------------------------------------------------------
(* The display.                                                            *)

Connected == hdmi # Unplugged

\* Without content protection the protocol is left as it was.
ReadProtocol(before) ==
  IF ~Connected THEN "1X" ELSE IF hdmi.hdcp = "none" THEN before ELSE hdmi.hdcp

ReadResolution == IF hdmi.resolution = "other" THEN "unknown" ELSE hdmi.resolution

\* Faulty variant: an unplugged display leaves the protocol as it was.
SetHDMIStatus_KeepsUnplugged(s) ==
  {[protocol |-> IF Connected THEN ReadProtocol(s.protocol) ELSE s.protocol,
    resolution |-> ReadResolution, read |-> "whole"]}
  \union {[protocol |-> "1X", resolution |-> s.resolution, read |-> "threw"]}

\* What SetHDMIStatus may leave of a status: an exception of device settings
\* may come before the protocol is read or after, and keeps the resolution.
SetHDMIStatus(s) ==
  {[protocol |-> ReadProtocol(s.protocol), resolution |-> ReadResolution, read |-> "whole"]}
  \union {[protocol |-> p, resolution |-> s.resolution, read |-> "threw"]
            : p \in {"1X", ReadProtocol("1X")}}

\* FakePlayerIarmInterface::SetHDMIStatus
FakeStatus == {[protocol |-> "1X", resolution |-> "NA", read |-> "whole"]}

\* The first session adapter: the constructor reads the display and registers
\* the handlers.
GetPlayerExternalsInterfaceInstance ==
  /\ asked = NotMade
  /\ IF fake THEN asked' \in FakeStatus
             ELSE \E s \in Garbage : asked' \in SetHDMIStatus(s)
  /\ changed' = FALSE
  /\ UNCHANGED <<fake, hdmi, displayEvents, handled, displayChanges, sourceVars,
                 interfaceVars>>

\* The handlers are told of changes once the constructor registered them.
Changes(d, event) ==
  /\ displayChanges < MaxDisplayChanges
  /\ displayChanges' = displayChanges + 1
  /\ hdmi' = d /\ changed' = TRUE
  /\ displayEvents' = IF fake \/ asked = NotMade THEN displayEvents
                      ELSE Append(displayEvents, event)
  /\ UNCHANGED <<fake, asked, handled, sourceVars, interfaceVars>>

DisplayChanges ==
  \/ Connected /\ Changes(Unplugged, "hotplug")
  \/ /\ ~Connected
     /\ \E r \in Resolutions : Changes([hdcp |-> "none", resolution |-> r], "hotplug")
  \/ /\ Connected
     /\ \E p \in {"none"} \union Protocols :
          p # hdmi.hdcp /\ Changes([hdmi EXCEPT !.hdcp = p], "hdcp")
  \/ /\ Connected
     /\ \E r \in Resolutions :
          r # hdmi.resolution /\ Changes([hdmi EXCEPT !.resolution = r], r)

\* HDMIEventHandler reads the display; ResolutionHandler takes the event's word.
HandleDisplayEvent ==
  /\ displayEvents # <<>>
  /\ displayEvents' = Tail(displayEvents)
  /\ IF Head(displayEvents) \in {"hotplug", "hdcp"}
     THEN handled' \in SetHDMIStatus(handled)
     ELSE handled' = [handled EXCEPT !.resolution = Head(displayEvents)]
  /\ UNCHANGED <<fake, hdmi, asked, changed, displayChanges, sourceVars, interfaceVars>>

-----------------------------------------------------------------------------
(* The video decoder, and what may be decrypted.                           *)

\* The pipeline gets a decoder, whose first state change is on its way.
DecoderStarts ==
  /\ source = "none" /\ sources < MaxSources
  /\ sources' = sources + 1
  /\ source' \in {"hd", "uhd"}
  /\ UNCHANGED <<fake, displayVars, gstElement, interfaceVars>>

\* bus_message: a state change of the video decoder.
DecoderStateChanged ==
  /\ source # "none" /\ ~gstElement
  /\ asked # NotMade
  /\ gstElement' = TRUE
  /\ UNCHANGED <<fake, displayVars, source, sources, interfaceVars>>

\* InterfacePlayerRDK::Stop takes the element away before the pipeline goes.
StopClearsElement ==
  /\ source # "none"
  /\ source' = "none"
  /\ gstElement' = (gstElement /\ asked = NotMade)
  /\ UNCHANGED <<fake, displayVars, sources, interfaceVars>>

IsSourceUHD == gstElement /\ source = "uhd"

isHDCPConnection2_2 == asked.protocol = "2X"

\* For a helper that requires HDCP 2.2 (isHdcp22Required).
VerifyOutputProtection == IsSourceUHD => isHDCPConnection2_2

-----------------------------------------------------------------------------
(* The network interface.                                                  *)

\* IARM_Bus_Call of IsActiveStreamingInterfaceWifi
QueryInterface ==
  /\ ~fake /\ query = "none"
  /\ \/ query' = (IF interface = "wlan0" THEN "WIFI" ELSE "ETHERNET") /\ missed' = FALSE
     \/ query' = "failed" /\ missed' = TRUE
  /\ UNCHANGED <<fake, displayVars, sourceVars, interface, interfaceEvents, registered,
                 isInterfaceWifi, interfaceChanges>>

\* It registers the handler, and stores what it read.
IsActiveStreamingInterfaceWifi ==
  /\ query # "none"
  /\ query' = "none" /\ registered' = TRUE
  /\ isInterfaceWifi' = (query = "WIFI")
  /\ UNCHANGED <<fake, displayVars, sourceVars, interface, interfaceEvents, missed,
                 interfaceChanges>>

InterfaceChanges ==
  /\ interfaceChanges < MaxInterfaceChanges
  /\ interfaceChanges' = interfaceChanges + 1
  /\ interface' = IF interface = "wlan0" THEN "eth0" ELSE "wlan0"
  /\ interfaceEvents' = IF registered THEN Append(interfaceEvents, interface')
                        ELSE interfaceEvents
  /\ missed' = (query # "none")
  /\ UNCHANGED <<fake, displayVars, sourceVars, registered, query, isInterfaceWifi>>

\* getActiveInterfaceEventHandler
HandleInterfaceEvent ==
  /\ interfaceEvents # <<>>
  /\ interfaceEvents' = Tail(interfaceEvents)
  /\ isInterfaceWifi' = (Head(interfaceEvents) = "wlan0")
  /\ UNCHANGED <<fake, displayVars, sourceVars, interface, registered, query, missed,
                 interfaceChanges>>

GetActiveInterface == ~fake /\ isInterfaceWifi

DisplayNext ==
  \/ GetPlayerExternalsInterfaceInstance \/ DisplayChanges \/ HandleDisplayEvent
  \/ DecoderStarts \/ DecoderStateChanged \/ StopClearsElement

\* It shares nothing with the display.
NetworkNext ==
  \/ QueryInterface \/ IsActiveStreamingInterfaceWifi
  \/ InterfaceChanges \/ HandleInterfaceEvent

ExternalsNext == DisplayNext \/ NetworkNext

ExternalsSpec == ExternalsInit /\ [][ExternalsNext]_externalsVars

-----------------------------------------------------------------------------
(* Properties.                                                             *)

\* Nothing is said of the protocol of a display that is not protected: the
\* code keeps the one before.
SaysOf(s) ==
  s.read = "whole" =>
    /\ hdmi.hdcp \in Protocols => s.protocol = hdmi.hdcp
    /\ hdmi.hdcp = "unplugged" => s.protocol = "1X"
    /\ s.resolution \in {hdmi.resolution, ReadResolution}

\* While the display is as the constructor found it, UHD is decrypted under
\* output protection over HDCP 2.2 only and everything else always; the object
\* of the handlers says what is plugged in once they ran; and the interface is
\* the active one, unless it changed between the call of
\* IsActiveStreamingInterfaceWifi to the network manager and its store.
ExternalsFollow ==
  /\ (asked # NotMade /\ ~changed /\ ~fake) => SaysOf(asked)
  /\ (gstElement /\ ~changed /\ ~fake /\ asked.read = "whole" /\ hdmi.hdcp # "none")
       => (VerifyOutputProtection <=> (source = "uhd" => hdmi.hdcp = "2X"))
  /\ gstElement => source # "none"
  /\ displayEvents = <<>> /\ handled.read # "never" => SaysOf(handled)
  /\ (registered /\ interfaceEvents = <<>> /\ query = "none" /\ ~missed)
       => GetActiveInterface = (interface = "wlan0")

\* "Check if HDCP is 2.2, @retval true if 2.2 false otherwise": once the
\* handlers of hot plug and HDCP events ran, and device settings did not fail,
\* the player is told the HDCP of the display.
HdcpAsDisplayed ==
  (asked.read = "whole" /\ handled.read # "threw" /\ ~fake /\ displayEvents = <<>>)
    => (isHDCPConnection2_2 <=> hdmi.hdcp = "2X") \/ hdmi.hdcp = "none"
=============================================================================
