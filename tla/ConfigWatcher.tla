---------------------------- MODULE ConfigWatcher ----------------------------
(***************************************************************************)
(* config/config_watcher.go: the watched file, the stored configuration,   *)
(* and the channel of capacity one by which the server, its subscriber,    *)
(* hears of a change.                                                      *)
(***************************************************************************)
EXTENDS Integers, Sequences, FiniteSets

CONSTANTS Configs,     \* the contents that LoadFile and Validate accept
          Initial,     \* the configuration with which the program starts
          Invalid,     \* any other content, a half-written file for instance
          MaxWrites    \* bound: how often the file is written

ASSUME ConfigsAssumption == Initial \in Configs /\ Invalid \notin Configs
ASSUME WritesAssumption  == MaxWrites \in Nat

VARIABLES file,       \* the content of the file
          writes,     \* how often it was written
          events,     \* the write events that are not handled
          current,    \* cw.currentConfig
          sending,    \* what handleConfigChange has stored and not yet sent
          subscribed, \* whether the server has subscribed
          channel,    \* the subscriber's channel
          missed      \* history: whether the last change could not be sent

watcherVars == <<file, writes, events, current, sending, subscribed, channel, missed>>

WatcherInit == /\ file = Initial
               /\ writes = 0
               /\ events = 0
               /\ current = Initial
               /\ sending = <<>>
               /\ subscribed = FALSE
               /\ channel = <<>>
               /\ missed = FALSE

\* Somebody writes the file.
WriteFile(content) ==
    /\ writes < MaxWrites
    /\ file' = content
    /\ writes' = writes + 1
    /\ events' = events + 1
    /\ UNCHANGED <<current, sending, subscribed, channel, missed>>

\* Faulty variant: the subscribers are told, but the configuration is not
\* stored.
LoadUnstored ==
    /\ events > 0 /\ sending = <<>>
    /\ events' = events - 1
    /\ sending' = IF file = Invalid THEN <<>> ELSE <<file>>
    /\ UNCHANGED <<file, writes, current, subscribed, channel, missed>>

\* handleConfigChange loads the file as it is when the event is handled, and
\* stores what is valid.
Load ==
    /\ events > 0 /\ sending = <<>>
    /\ events' = events - 1
    /\ IF file = Invalid
       THEN UNCHANGED <<current, sending>>
       ELSE current' = file /\ sending' = <<file>>
    /\ UNCHANGED <<file, writes, subscribed, channel, missed>>

\* handleConfigChange offers it to the subscriber, who misses it unless its
\* channel is empty.
Notify ==
    /\ sending # <<>>
    /\ sending' = <<>>
    /\ IF subscribed /\ channel = <<>>
       THEN channel' = sending /\ missed' = FALSE
       ELSE missed' = TRUE /\ UNCHANGED channel
    /\ UNCHANGED <<file, writes, events, current, subscribed>>

Subscribe ==
    /\ ~subscribed
    /\ subscribed' = TRUE
    /\ UNCHANGED <<file, writes, events, current, sending, channel, missed>>

\* The subscriber receives a configuration.
Received(config) ==
    /\ subscribed
    /\ channel = <<config>>
    /\ channel' = <<>>
    /\ UNCHANGED <<file, writes, events, current, sending, subscribed, missed>>

WatcherTypeOK == /\ file \in Configs \cup {Invalid}
                 /\ writes \in 0..MaxWrites
                 /\ events \in Nat
                 /\ current \in Configs
                 /\ sending \in {<<>>} \cup {<<c>> : c \in Configs}
                 /\ channel \in {<<>>} \cup {<<c>> : c \in Configs}
                 /\ subscribed \in BOOLEAN /\ missed \in BOOLEAN
=============================================================================
