--------------------------- MODULE IndependentParts ---------------------------
(***************************************************************************)
(* Model checking of the components that share no state the properties of  *)
(* either depend on: a behaviour of this module is one of one of them.     *)
(***************************************************************************)
EXTENDS SampleTiers, SegmentUtilization, TracerouteTrigger, ErrorCounters, IcmpProbe,
        SignalEvents, Backups, MeasurementImports, DesktopInstance, LauncherWindow,
        SignalHealth, ModuleSwitches, ConfigStore, ModemSession, SurfboardDriver,
        ModulationViews, DashboardRefresh, ChannelCompare, EventFeed

VARIABLE part     \* the component whose behaviour this is

vars == <<part, tierVars, segmentVars, traceVars, counterVars, probeVars, signalVars, backupVars, importVars,
          instanceVars, windowVars, healthVars, switchVars, configVars,
          sessionVars, surfVars, modulationVars, dashVars, compareVars, feedVars>>

TierAgeValue   == <<3, 6, 10>>
TierWidthValue == <<2, 4, 8>>

Report30(qam, rate) == [version |-> "3.0", family |-> "sc_qam", qam |-> qam, rate |-> rate]
Ofdm(qam)           == [version |-> "3.1", family |-> "ofdm", qam |-> qam, rate |-> Unknown]

\* A channel of the old version, whose modulation one report does not name, and one
\* that is moved between the versions.
ReportsValue ==
  [c \in Carriers |-> IF c = "b" THEN {Ofdm(64), Ofdm(256), Report30(64, Unknown)}
                                 ELSE {Report30(16, Unknown), Report30(64, Unknown), Report30(Unknown, 5)}]
DirectionOfValue == [c \in Channel |-> IF c = "u" THEN "us" ELSE "ds"]

Init ==
  /\ part \in {"tiers", "segment", "traces", "counters", "probes", "signal", "backups", "imports",
              "instances", "window", "health", "switches", "config", "session", "surfboard",
              "modulation", "dashboard", "compare", "feed"}
  /\ TierInit /\ SegmentInit /\ TraceInit /\ ProbeInit /\ BackupInit /\ ImportInit /\ InstanceInit /\ WindowInit
  /\ HealthInit /\ SwitchInit /\ ConfigInit /\ ModulationInit /\ DashInit /\ CompareInit /\ FeedInit
  /\ SessionInit /\ (part = "session" \/ session = NoClient)
  /\ SurfInit /\ (part = "surfboard" \/ (speaks = "Moto" /\ foreign = "500"))
  /\ CounterInit /\ (part = "counters" \/ \A c \in Channels : counter[c] = Size - 1)
  /\ SignalInit  /\ (part = "signal"   \/ \A c \in Ids : analysis[c] = Absent)

Next ==
  /\ UNCHANGED part
  /\ IF part = "imports"    THEN ImportNext     ELSE UNCHANGED importVars
  /\ IF part = "config"     THEN ConfigNext     ELSE UNCHANGED configVars
  /\ IF part = "window"     THEN WindowNext     ELSE UNCHANGED windowVars
  /\ IF part = "modulation" THEN ModulationNext ELSE UNCHANGED modulationVars
  /\ IF part = "segment"    THEN SegmentNext    ELSE UNCHANGED segmentVars
  /\ IF part = "traces"     THEN TraceNext      ELSE UNCHANGED traceVars
  /\ IF part = "probes"     THEN ProbeNext      ELSE UNCHANGED probeVars
  /\ IF part = "backups"    THEN BackupNext     ELSE UNCHANGED backupVars
  /\ IF part = "switches"   THEN SwitchNext     ELSE UNCHANGED switchVars
  /\ IF part = "surfboard"  THEN SurfNext       ELSE UNCHANGED surfVars
  /\ IF part = "dashboard"  THEN DashNext       ELSE UNCHANGED dashVars
  /\ IF part = "feed"       THEN FeedNext       ELSE UNCHANGED feedVars
  /\ IF part = "session"    THEN SessionNext    ELSE UNCHANGED sessionVars
  /\ IF part = "compare"    THEN CompareNext    ELSE UNCHANGED compareVars
  /\ IF part = "signal"     THEN SignalNext     ELSE UNCHANGED signalVars
  /\ IF part = "tiers"      THEN TierNext       ELSE UNCHANGED tierVars
  /\ IF part = "counters"   THEN CounterNext    ELSE UNCHANGED counterVars
  /\ IF part = "health"     THEN HealthNext     ELSE UNCHANGED healthVars
  /\ IF part = "instances"  THEN InstanceNext   ELSE UNCHANGED instanceVars

Spec == Init /\ [][Next]_vars
=============================================================================
