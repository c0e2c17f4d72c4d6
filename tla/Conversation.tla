---------------------------- MODULE Conversation ----------------------------
(***************************************************************************)
(* The window a chat session is kept in (crates/ai-runtime/src/            *)
(* conversation.rs).  A message is reduced to who produced it and its      *)
(* kind; the three tool-result kinds are the user-role messages whose      *)
(* content starts with "tool_result:".                                     *)
(***************************************************************************)
EXTENDS Naturals, Sequences, FiniteSets

CONSTANT MaxMessages  \* ConversationStore::max_messages, after max(4)

ASSUME MaxMessagesAssumption == MaxMessages \in Nat /\ MaxMessages >= 4

ToolResultKind == {"result", "denied", "cancelled"}
MessageKind == {"user", "assistant"} \cup ToolResultKind

\* The most recent MaxMessages messages.
Recent(messages) ==
  SubSeq(messages, Len(messages) - MaxMessages + 1, Len(messages))

\* The tool results a cut window would start with.
LeadingResults(messages) ==
  {i \in DOMAIN messages : \A j \in 1..i : messages[j].kind \in ToolResultKind}

\* Mutant: the cut window keeps the tool results it starts with.
TrimmedKeepingOrphans(messages) ==
  IF Len(messages) <= MaxMessages THEN messages ELSE Recent(messages)

\* trim_messages: nothing happens until the window overflows; then the oldest
\* messages go, and with them the tool results the cut left without a call.
Trimmed(messages) ==
  IF Len(messages) <= MaxMessages THEN messages
  ELSE LET kept == Recent(messages)
       IN  SubSeq(kept, Cardinality(LeadingResults(kept)) + 1, Len(kept))
=============================================================================
