---- MODULE HostnameProofs ----
(***************************************************************************)
(* What TLAPS proves of the name of a node, for any names, failures and    *)
(* losses of power.                                                        *)
(***************************************************************************)
EXTENDS Hostname, FiniteSetTheorems, TLAPS

\* What the node is given does not change; without a name in the configuration that the
\* boot phase reads there is none in the image either.
GivenInv == image \in Configured \cup {""} /\ cloud \in Configured \cup {image}

\* The places of the name, step by step.
PlacesInv ==
    /\ pc \in {"bootstrap", "initrd", "hostname", "hosts"} => hosts = "missing"
    /\ pc = "initrd" => etc = "missing"
    /\ pc = "hostname" => etc \in {"missing", image}
    /\ pc \in {"hosts", "config", "openrc"} => etc # "missing"
    /\ pc \in {"config", "openrc", "up"} /\ ~failed => hosts = etc
    /\ pc \in {"openrc", "up"} /\ ~failed /\ cloud # "" => etc = cloud
    /\ pc = "up" /\ ~failed /\ etc # "" => kernel = etc \/ NamedByDhcp

\* How many names there are beside one.
Beside(S, name) == Cardinality(S \ {name})

\* A node without a configured name has the saved one, and the names it had before that
\* are no more than the losses.
SavedInv ==
    /\ lost \in Nat /\ IsFiniteSet(called) /\ "missing" \notin called
    /\ cloud = "" /\ pc \in {"hosts", "config", "openrc"} => etc = saved
    /\ cloud = "" /\ etc # "missing" => etc = saved
    /\ Beside(called, saved) <= lost

HostnameInv == GivenInv /\ PlacesInv /\ SavedInv

LEMMA InitInv == Init => HostnameInv
  <1> SUFFICES ASSUME Init PROVE HostnameInv
    OBVIOUS
  <1>1. GivenInv /\ PlacesInv
    BY DEF Init, GivenInv, PlacesInv
  <1>2. IsFiniteSet({}) /\ Cardinality({}) = 0
    BY FS_EmptySet
  <1>3. called \ {saved} = {} /\ called = {} /\ lost = 0
    BY DEF Init
  <1>4. IsFiniteSet(called) /\ Beside(called, saved) <= lost
    BY <1>2, <1>3 DEF Beside
  <1>5. lost \in Nat /\ "missing" \notin called
    BY <1>3
  <1>6. pc = "bootstrap" /\ etc = "missing"
    BY DEF Init
  <1>7. SavedInv
    BY <1>4, <1>5, <1>6 DEF SavedInv
  <1>. QED
    BY <1>1, <1>7 DEF HostnameInv

LEMMA NextGivenPlaces == ASSUME HostnameInv, [Next]_vars PROVE GivenInv' /\ PlacesInv'
  <1> USE HostnameAssumption DEF HostnameInv, GivenInv, PlacesInv, Goes, given, names, store, history,
              NamedByDhcp
  <1>1. CASE Bootstrap
    BY <1>1 DEF Bootstrap
  <1>2. CASE Initrd
    BY <1>2 DEF Initrd, SetHostname, LineOf
  <1>3. CASE SetupHostname
    BY <1>3 DEF SetupHostname, SavedOrDrawn
  <1>4. CASE SetupHosts
    BY <1>4 DEF SetupHosts
  <1>5. CASE Config
    BY <1>5 DEF Config, SetHostname, LineOf
  <1>6. CASE ConfigFails
    BY <1>6 DEF ConfigFails
  <1>7. CASE OpenRC
    BY <1>7 DEF OpenRC, TakenOver
  <1>8. CASE Flush
    BY <1>8 DEF Flush
  <1>9. CASE PowerCut
    BY <1>9 DEF PowerCut, Boots
  <1>10. CASE Dhcp
    BY <1>10 DEF Dhcp
  <1>11. CASE UNCHANGED vars
    BY <1>11 DEF vars
  <1>. QED
    BY <1>1, <1>2, <1>3, <1>4, <1>5, <1>6, <1>7, <1>8, <1>9, <1>10, <1>11 DEF Next, Step

\* One name more or less.
LEMMA OneName ==
    ASSUME NEW S, IsFiniteSet(S), NEW x, NEW y, NEW n \in Nat, Beside(S, x) <= n
    PROVE  /\ n + 1 \in Nat /\ Beside(S, y) <= n + 1
           /\ x \notin S => Beside(S, y) <= n
           /\ Cardinality(S) <= 1 + n
  <1>1. /\ IsFiniteSet(S \ {x}) /\ Cardinality(S) \in Nat
        /\ Beside(S, x) = IF x \in S THEN Cardinality(S) - 1 ELSE Cardinality(S)
    BY FS_RemoveElement, FS_CardinalityType DEF Beside
  <1>2. /\ IsFiniteSet(S \ {y})
        /\ Beside(S, y) = IF y \in S THEN Cardinality(S) - 1 ELSE Cardinality(S)
    BY FS_RemoveElement DEF Beside
  <1>3. Beside(S, x) \in Nat /\ Beside(S, y) \in Nat
    BY <1>1, <1>2, FS_CardinalityType DEF Beside
  <1>. QED
    BY <1>1, <1>2, <1>3

LEMMA NextSaved == ASSUME HostnameInv, [Next]_vars PROVE SavedInv'
  <1>1. /\ lost \in Nat /\ IsFiniteSet(called) /\ "missing" \notin called
        /\ Beside(called, saved) <= lost
    BY DEF HostnameInv, SavedInv
  <1>2. cloud = "" => image = ""
    BY HostnameAssumption DEF HostnameInv, GivenInv
  \* A step that leaves the names in use, the saved one and the losses alone.
  <1>3. ASSUME UNCHANGED <<called, saved, lost>>, cloud' = cloud,
               cloud = "" /\ pc' \in {"hosts", "config", "openrc"} => etc' = saved,
               cloud = "" /\ etc' # "missing" => etc' = saved
        PROVE  SavedInv'
    BY <1>1, <1>3 DEF SavedInv
  <1> USE DEF HostnameInv, SavedInv, Goes, given, names, store, history
  <1>4. CASE Bootstrap
    <2>. UNCHANGED <<called, saved, lost>> /\ cloud' = cloud /\ etc' = "missing"
         /\ pc' \in {"hostname", "initrd"}
      BY <1>4 DEF Bootstrap
    <2>. QED
      BY <1>3
  <1>5. CASE Initrd
    <2>. UNCHANGED <<called, saved, lost>> /\ cloud' = cloud /\ (image = "" => etc' = etc)
         /\ pc' \in {"hostname", "bootstrap"}
      BY <1>5 DEF Initrd, SetHostname
    <2>. QED
      BY <1>2, <1>3
  <1>6. CASE SetupHostname
    <2>1. CASE etc # "missing"
      BY <1>3, <1>6, <2>1 DEF SetupHostname
    <2>2. CASE etc = "missing"
      <3>1. PICK name \in SavedOrDrawn : etc' = name /\ saved' = name
        BY <1>6, <2>2 DEF SetupHostname
      <3>2. saved' = saved \/ saved = "missing"
        BY <3>1 DEF SavedOrDrawn
      <3>3. saved' = saved \/ saved \notin called
        BY <1>1, <3>2
      <3>4. UNCHANGED <<called, lost>> /\ cloud' = cloud /\ pc' = "hosts" /\ etc' = saved'
        BY <1>6, <3>1 DEF SetupHostname
      <3>. HIDE DEF HostnameInv
      <3>5. Beside(called, saved') <= lost
        BY <1>1, <3>3, OneName
      <3>. QED
        BY <1>1, <3>4, <3>5
    <2>. QED
      BY <2>1, <2>2
  <1>7. CASE SetupHosts
    BY <1>3, <1>7 DEF SetupHosts
  <1>8. CASE Config
    BY <1>3, <1>8 DEF Config, SetHostname
  <1>9. CASE ConfigFails
    <2>. UNCHANGED <<called, saved, lost>> /\ cloud' = cloud /\ cloud # ""
      BY <1>9 DEF ConfigFails
    <2>. QED
      BY <1>3
  <1>10. CASE OpenRC
    <2>1. /\ UNCHANGED <<saved, lost>> /\ cloud' = cloud /\ etc' = etc /\ pc' = "up"
          /\ cloud = "" => etc = saved
      BY <1>10 DEF OpenRC
    <2>2. CASE cloud = "" /\ etc # ""
      <3>1. kernel' = saved /\ saved # "missing"
        BY <1>10, <2>2 DEF OpenRC, TakenOver, PlacesInv
      <3>2. called' = called \cup {saved}
        BY <1>10, <2>2, <3>1 DEF OpenRC
      <3>. HIDE DEF HostnameInv
      <3>3. IsFiniteSet(called') /\ called' \ {saved} = called \ {saved} /\ "missing" \notin called'
        BY <1>1, <3>1, <3>2, FS_AddElement
      <3>4. Beside(called', saved) <= lost
        BY <1>1, <3>3 DEF Beside
      <3>. QED
        BY <1>1, <2>1, <3>3, <3>4
    <2>3. CASE ~(cloud = "" /\ etc # "")
      <3>. called' = called
        BY <1>10, <2>3 DEF OpenRC
      <3>. QED
        BY <1>3, <2>1
    <2>. QED
      BY <2>2, <2>3
  <1>11. CASE Flush
    BY <1>3, <1>11 DEF Flush
  <1>12. CASE PowerCut
    <2>1. called' = called /\ etc' = "missing" /\ pc' = "bootstrap" /\ cloud' = cloud
      BY <1>12 DEF PowerCut, Boots
    <2>2. \/ saved' = saved /\ lost' = lost
          \/ lost' = lost + 1
      BY <1>12 DEF PowerCut
    <2>. HIDE DEF HostnameInv
    <2>3. lost' \in Nat /\ Beside(called, saved') <= lost'
      BY <1>1, <2>2, OneName
    <2>. QED
      BY <1>1, <2>1, <2>3
  <1>13. CASE Dhcp
    BY <1>3, <1>13 DEF Dhcp
  <1>14. CASE UNCHANGED vars
    BY <1>3, <1>14 DEF vars
  <1>. QED
    BY <1>4, <1>5, <1>6, <1>7, <1>8, <1>9, <1>10, <1>11, <1>12, <1>13, <1>14
       DEF Next, Step

\* The inductive invariant of any number of boots.
THEOREM HostnameInvariant == Spec => []HostnameInv
  <1>1. HostnameInv /\ [Next]_vars => HostnameInv'
    BY NextGivenPlaces, NextSaved DEF HostnameInv
  <1>. QED
    BY InitInv, <1>1, PTL DEF Spec

\* cc.BootApply, hostname.go, boot: the configured name, or else the drawn one, is in both
\* files when the node is up, and in the kernel unless DHCP supplied another.
THEOREM ConfigurationWins == Spec => []NamedAsConfigured
  <1>1. HostnameInv => NamedAsConfigured
    BY HostnameAssumption DEF HostnameInv, GivenInv, PlacesInv, NamedAsConfigured, Agree,
                              ConfiguredWins
  <1>. QED
    BY <1>1, HostnameInvariant, PTL

\* boot, setup_hostname: a node without a configured name changes it only with its disk.
THEOREM NameIsKept == Spec => []NameKept
  <1>1. HostnameInv => NameKept
    <2> SUFFICES ASSUME HostnameInv PROVE NameKept
      OBVIOUS
    <2>1. IsFiniteSet(called) /\ Beside(called, saved) <= lost /\ lost \in Nat
      BY DEF HostnameInv, SavedInv
    <2>2. Cardinality(called) <= 1 + lost
      BY <2>1, OneName
    <2>. QED
      BY <2>2 DEF NameKept
  <1>. QED
    BY <1>1, HostnameInvariant, PTL
====
