---------------------------- MODULE MCSyncBroker ----------------------------
(* Small instances of SyncBroker: entities and collections of one model, every *)
(* collection global.                                                          *)
EXTENDS SyncBroker

MCGlobalEntityModel == [e \in Entities |-> "m"]
MCGlobalCollModel == [c \in Collections |-> "m"]
MCGlobalScope == [c \in Collections |-> Global]
=============================================================================
