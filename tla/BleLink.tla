------------------------------ MODULE BleLink ------------------------------
(***************************************************************************)
(* The connection side of the BLE transport                                *)
(* (components/triwhirl_ble/ble_transport.cpp): what the GAP event handler *)
(* and the host's reset and sync callbacks make of the link.  The firmware *)
(* keeps one connection handle and a subscription flag per characteristic; *)
(* nothing that is queued belongs to a connection.                         *)
(***************************************************************************)
EXTENDS Naturals, FiniteSets

CONSTANT
    MaxEpochs         \* bound: connections and subscription changes considered

ASSUME LinkAssumption == MaxEpochs \in Nat

VARIABLES
    link,             \* connection_handle: 0 is none, else which connection it is
    subs,             \* tx_subscribed, trace_tx_subscribed: the subscribed channels
    advertising,      \* the controller is advertising
    synced,           \* the NimBLE host is in sync with its controller
    deaf,             \* history: the last attempt to advertise was refused
    epoch             \* history: connections and subscription changes so far

linkVars == <<link, subs, advertising, synced, deaf, epoch>>

Channels == {"tx", "trace"}

LinkInit ==
    /\ link = 0 /\ subs = {}
    /\ advertising = FALSE /\ synced = FALSE /\ deaf = FALSE
    /\ epoch = 0

Turn == epoch < MaxEpochs /\ epoch' = epoch + 1

\* The controller may refuse; the event handler does not look at the result.
StartAdvertising ==
    \E accepted \in BOOLEAN : advertising' = accepted /\ deaf' = ~accepted

\* BLE_GAP_EVENT_CONNECT.  A connection ends the advertising.
Connect ==
    /\ advertising
    /\ Turn
    /\ link' = epoch'
    /\ subs' = {}
    /\ advertising' = FALSE
    /\ UNCHANGED <<synced, deaf>>

ConnectFails ==
    /\ advertising
    /\ StartAdvertising
    /\ UNCHANGED <<link, subs, synced, epoch>>

\* Faulty: advertising is left to the end of the advertising period.
ForgetfulDisconnect ==
    /\ link # 0
    /\ link' = 0 /\ subs' = {}
    /\ UNCHANGED <<advertising, deaf, synced, epoch>>

\* BLE_GAP_EVENT_DISCONNECT
Disconnect ==
    /\ link # 0
    /\ link' = 0 /\ subs' = {}
    /\ StartAdvertising
    /\ UNCHANGED <<synced, epoch>>

\* BLE_GAP_EVENT_SUBSCRIBE
Subscribe ==
    /\ link # 0
    /\ Turn
    /\ \E ch \in Channels : subs' \in {subs \cup {ch}, subs \ {ch}} \ {subs}
    /\ UNCHANGED <<link, advertising, synced, deaf>>

\* BLE_GAP_EVENT_ADV_COMPLETE
AdvComplete ==
    /\ advertising
    /\ IF link = 0 THEN StartAdvertising ELSE advertising' = FALSE /\ UNCHANGED deaf
    /\ UNCHANGED <<link, subs, synced, epoch>>

OnReset ==
    /\ synced
    /\ synced' = FALSE
    /\ link' = 0 /\ subs' = {} /\ advertising' = FALSE /\ deaf' = FALSE
    /\ UNCHANGED epoch

OnSync ==
    /\ ~synced
    /\ synced' = TRUE
    /\ StartAdvertising
    /\ UNCHANGED <<link, subs, epoch>>

LinkEvent ==
    \/ Connect \/ ConnectFails \/ Disconnect
    \/ Subscribe
    \/ AdvComplete \/ OnReset \/ OnSync

LinkTypeOK ==
    /\ link \in 0 .. MaxEpochs /\ epoch \in link .. MaxEpochs
    /\ subs \subseteq Channels
    /\ {advertising, synced, deaf} \subseteq BOOLEAN

\* Whatever became of the last connection, the device can be found again,
\* unless the controller itself refused to advertise: nobody tries again then.
CanBeFound == synced /\ link = 0 /\ ~deaf => advertising
=============================================================================
