----------------------------- MODULE MCRendering -----------------------------
(***************************************************************************)
(* What is shown: the sender with its two kinds of clients, and what is     *)
(* read from the segments and texts that are injected.                      *)
(* A behaviour may also be one of the elements that show it (PlayerElements) *)
(* or of the monitor of what they have shown (Monitoring).                  *)
(* The two kinds of clients have channels of their own and share nothing    *)
(* but the sender, so that a behaviour has calls of one kind: packets of    *)
(* the two would only multiply the states.  The renderer restarts and the   *)
(* sender is closed among captions only: what is said of the sink is said   *)
(* of behaviours without a loss.                                            *)
(***************************************************************************)
EXTENDS MCFormats, ClosedCaptions, SubtecSink, PlayerElements, Monitoring
CONSTANTS h1, h2
AllClients == {manager, decoder, application, streaming}
TwoChannels == {"cc", "subtitle"}
OwnChannels == [c \in AllClients |-> IF c \in {manager, decoder} THEN "cc" ELSE "subtitle"]
TwoHandles == {h1, h2}
TwoRates == {1, -4}
MinusOne == -1

VARIABLE calling      \* the kind of client that calls, or "none"

renderingVars == <<senderVars, captionVars, sinkVars>>
allVars == <<renderingVars, formatVars, reads, elementVars, monitoringVars, calling>>

Init ==
  /\ calling \in {"captions", "subtitles", "elements", "monitor", "none"}
  /\ ElementsInit /\ (calling # "elements" => platform = "default")
  /\ MonitoringInit
  /\ calling # "monitor" => config = [progressive |-> FALSE, restamp |-> FALSE, posQuery |-> FALSE]
  /\ FormatsInit /\ (calling = "none" <=> reads # "nothing")
  /\ SenderInit /\ CaptionsInit /\ SinkInit
  /\ calling \notin {"captions", "subtitles"} => up
  /\ script = [c \in Clients |-> IF c = manager /\ calling = "captions" THEN CaptionsScript
                                 ELSE <<>>]

Next ==
  /\ \/ /\ calling = "captions" /\ CaptionsNext
        /\ UNCHANGED <<sinkVars, formatVars, reads, elementVars, monitoringVars>>
     \/ /\ calling = "subtitles" /\ SinkNext
        /\ UNCHANGED <<captionVars, formatVars, reads, elementVars, monitoringVars>>
        /\ restarts' = 0 /\ closing' = "no"
     \/ /\ calling = "none" /\ FormatsNext
        /\ UNCHANGED <<renderingVars, elementVars, monitoringVars>>
     \/ /\ calling = "elements" /\ ElementsNext
        /\ UNCHANGED <<renderingVars, formatVars, reads, monitoringVars>>
     \/ /\ calling = "monitor" /\ MonitoringNext
        /\ UNCHANGED <<renderingVars, formatVars, reads, elementVars>>
  /\ UNCHANGED calling

Spec == Init /\ [][Next]_allVars
=============================================================================
