------------------------------ MODULE AgentAdmin ------------------------------
(***************************************************************************)
(* The owner's calls on one agent: created, patched, deleted, its channels *)
(* configured, their tokens handed out, its Telegram webhook registered,   *)
(* and a channel's own subscription check. What they share is agents.config,*)
(* one JSON column: a call reads it, works on its copy (get_agent, then an  *)
(* answer of Telegram's), and update_agent reads it again, merges what the *)
(* call wants into it and writes the whole back.                           *)
(*                                                                         *)
(* Messenger is as WhatsApp. Stored secrets are encrypted under one key:    *)
(* a value stands for itself and its cipher text.                          *)
(***************************************************************************)
EXTENDS Naturals

CONSTANTS
    AdminCall,
    NumCreds,       \* sets of credentials; for Telegram, bots
    NumPrompts,
    MaxTokensMade,
    MaxAdminFaults  \* bound on calls that raise halfway

ASSUME AdminAssumption ==
    {NumCreds, NumPrompts, MaxTokensMade, MaxAdminFaults} \subseteq Nat

VARIABLES
    agent,      \* the row: there, instructions, prompt (config.system_prompt), channels
    adminCall,  \* [AdminCall -> op, step, its copy of channels, the update it is at]
    bot,        \* [1 .. NumCreds -> the secret Telegram has for this bot, 0: no webhook]
    told,       \* [Channel -> tokens handed out]
    made,       \* tokens made
    given,      \* history: the last credentials and prompt a call has committed
    commits,    \* history: commits so far
    raced,      \* history: a commit came of a copy older than another's commit
    adminFaults

adminVars == <<agent, adminCall, bot, told, made, given, commits, raced, adminFaults>>

-----------------------------------------------------------------------------
Channel == {"whatsapp", "telegram"}

(* One channel's part of the config; 0 is a field that is not there.        *)
NoChannel == [creds |-> 0, token |-> 0, verified |-> FALSE]
ChannelConfig == [creds : 0 .. NumCreds, token : 0 .. MaxTokensMade, verified : BOOLEAN]
Configs == [Channel -> ChannelConfig]
Bare == [ch \in Channel |-> NoChannel]

NotCalled == [op |-> "none", step |-> "idle", seen |-> 0, copy |-> Bare, prompt |-> 0,
              channels |-> Bare, channel |-> "whatsapp"]

AdminInit ==
    /\ agent = [there |-> "none", instructions |-> 0, prompt |-> 0, channels |-> Bare]
    /\ adminCall = [r \in AdminCall |-> NotCalled]
    /\ bot = [b \in 1 .. NumCreds |-> 0] /\ told = [ch \in Channel |-> {}] /\ made = 0
    /\ given = [creds |-> [ch \in Channel |-> 0], prompt |-> 0]
    /\ commits = 0 /\ raced = FALSE /\ adminFaults = 0

Stands(r, op, step) == adminCall[r].op = op /\ adminCall[r].step = step

Answered(code) == [NotCalled EXCEPT !.step = code]
Ends(r, code) == adminCall' = [adminCall EXCEPT ![r] = Answered(code)]

(* A commit of r; it raced if another has been since r took its copy.       *)
Commits(r) ==
    /\ commits' = commits + 1
    /\ raced' = (raced \/ adminCall[r].seen # commits)

-----------------------------------------------------------------------------
(* create_agent: one insert; its knowledge is ingested behind the answer.    *)
CreateAgent ==
    /\ agent.there = "none"
    /\ \E p \in 1 .. NumPrompts :
         /\ agent' = [agent EXCEPT !.there = "live", !.instructions = p, !.prompt = p]
         /\ given' = [given EXCEPT !.prompt = p]
    /\ UNCHANGED <<adminCall, bot, told, made, commits, raced, adminFaults>>

(* get_agent, with which most calls begin.                                   *)
LoadAgent(r) ==
    /\ adminCall[r].step = "idle"
    /\ \E op \in {"tokens", "set_whatsapp", "set_telegram", "verify", "status", "details"} :
         adminCall' = [adminCall EXCEPT ![r] =
           IF agent.there # "live" THEN Answered("404")
           ELSE [@ EXCEPT !.op = op, !.step = "loaded", !.seen = commits,
                          !.copy = agent.channels]]
    /\ UNCHANGED <<agent, bot, told, made, given, commits, raced, adminFaults>>

(* What is only read: the agent, or which channels are set up.               *)
Configured(c, ch) == c.creds # 0 /\ (ch = "telegram" => c.token # 0)

ReadStatus(r) ==
    /\ Stands(r, "status", "loaded")
    /\ Ends(r, IF \E ch \in Channel : Configured(adminCall[r].copy[ch], ch)
               THEN "200_configured" ELSE "200")
    /\ UNCHANGED <<agent, bot, told, made, given, commits, raced, adminFaults>>

ReadDetails(r) ==
    /\ Stands(r, "details", "loaded") /\ Ends(r, "200")
    /\ UNCHANGED <<agent, bot, told, made, given, commits, raced, adminFaults>>

WithTokens_Anew(copy, chs) ==
    [ch \in Channel |->
       IF ch \in chs THEN [copy[ch] EXCEPT !.token = made + (IF ch = "telegram" THEN 2 ELSE 1)]
       ELSE copy[ch]]

(* What the copy is once each channel of chs has a token.                    *)
WithTokens(copy, chs) ==
    [ch \in Channel |->
       IF ch \in chs /\ copy[ch].token = 0
       THEN [copy[ch] EXCEPT !.token = made + (IF ch = "telegram" THEN 2 ELSE 1)]
       ELSE copy[ch]]

Wanting(chs) == made' = made + 2 /\ made' <= MaxTokensMade

(* merge_channel_config: what is given over what is there, and a token.      *)
MergedConfig(copy, ch, creds) ==
    [WithTokens(copy, {ch}) EXCEPT ![ch].creds = creds]

(* get_agent_webhook_config: written back only if a token was missing.       *)
EnsureTokens(r) ==
    /\ Stands(r, "tokens", "loaded")
    /\ LET copy == WithTokens(adminCall[r].copy, Channel)
           same == copy = adminCall[r].copy
       IN /\ adminCall' = [adminCall EXCEPT ![r] =
               [@ EXCEPT !.copy = copy, !.step = IF same THEN "stored" ELSE "update"]]
          /\ IF same THEN UNCHANGED made ELSE Wanting(Channel)
    /\ UNCHANGED <<agent, bot, told, given, commits, raced, adminFaults>>

TellTokens(r) ==
    /\ Stands(r, "tokens", "stored") /\ Ends(r, "200")
    /\ told' = [ch \in Channel |-> told[ch] \cup {adminCall[r].copy[ch].token}]
    /\ UNCHANGED <<agent, bot, made, given, commits, raced, adminFaults>>

(* set_agent_channel_config.                                                *)
SetChannel(r) ==
    /\ adminCall[r].op \in {"set_whatsapp", "set_telegram"} /\ adminCall[r].step = "loaded"
    /\ \E creds \in 1 .. NumCreds :
         LET ch == IF adminCall[r].op = "set_telegram" THEN "telegram" ELSE "whatsapp"
             copy == adminCall[r].copy
         IN /\ adminCall' = [adminCall EXCEPT ![r] =
                 [@ EXCEPT !.copy = MergedConfig(copy, ch, creds), !.channel = ch,
                           !.step = "update"]]
            /\ IF MergedConfig(copy, ch, creds)[ch].token = copy[ch].token
               THEN UNCHANGED made ELSE Wanting({ch})
    /\ UNCHANGED <<agent, bot, told, given, commits, raced, adminFaults>>

(* _register_telegram_webhook, of the bot just given and with the token just *)
(* stored: it fails, or Telegram takes it over and says so, or does not.     *)
RegisterWebhook(r) ==
    /\ Stands(r, "set_telegram", "stored")
    /\ LET copy == adminCall[r].copy
           c == copy["telegram"]
       IN
         \/ /\ Ends(r, "200") /\ UNCHANGED bot
         \/ /\ bot' = [bot EXCEPT ![c.creds] = c.token]
            /\ Ends(r, "500")
         \/ /\ bot' = [bot EXCEPT ![c.creds] = c.token]
            /\ adminCall' = [adminCall EXCEPT ![r] =
                 [@ EXCEPT !.copy = [copy EXCEPT !["telegram"].verified = TRUE],
                           !.op = "set_verified", !.step = "update"]]
    /\ UNCHANGED <<agent, told, made, given, commits, raced, adminFaults>>

(* The provider checks the subscription: with the token it was told, or one  *)
(* that is wrong. The agent is then read a second time.                      *)
VerifySubscription(r) ==
    /\ Stands(r, "verify", "loaded")
    /\ \/ Ends(r, "403")
       \/ /\ adminCall[r].copy["whatsapp"].token # 0
          /\ adminCall' = [adminCall EXCEPT ![r] = [@ EXCEPT !.step = "checked"]]
    /\ UNCHANGED <<agent, bot, told, made, given, commits, raced, adminFaults>>

SetVerified(r) ==
    /\ Stands(r, "verify", "checked")
    /\ adminCall' = [adminCall EXCEPT ![r] =
         IF agent.there # "live" THEN Answered("404")
         ELSE IF agent.channels["whatsapp"].verified THEN Answered("200")
         ELSE [@ EXCEPT !.seen = commits, !.step = "update",
                        !.copy = [agent.channels EXCEPT !["whatsapp"].verified = TRUE]]]
    /\ UNCHANGED <<agent, bot, told, made, given, commits, raced, adminFaults>>

-----------------------------------------------------------------------------
(* PATCH. Only instructions: a column of its own. The system prompt: that    *)
(* column and the config.                                                   *)
PatchAgent(r) ==
    /\ adminCall[r].step = "idle" /\ agent.there # "none"
    /\ \E p \in 1 .. NumPrompts :
         \/ /\ agent' = [agent EXCEPT !.instructions = p]
            /\ Ends(r, "200")
         \/ /\ adminCall' = [adminCall EXCEPT ![r] =
                 [@ EXCEPT !.op = "prompt", !.step = "update", !.seen = commits, !.prompt = p]]
            /\ UNCHANGED agent
    /\ UNCHANGED <<bot, told, made, given, commits, raced, adminFaults>>

(* A deleted agent is no longer found, and keeps what it has.                *)
SoftDelete(r) ==
    /\ adminCall[r].step = "idle" /\ agent.there # "none"
    /\ agent' = [agent EXCEPT !.there = "deleted"]
    /\ Ends(r, "200")
    /\ UNCHANGED <<bot, told, made, given, commits, raced, adminFaults>>

-----------------------------------------------------------------------------
(* _deep_merge, field by field: what an update does not mention stays.       *)
OrElse(new, old) == IF new = 0 THEN old ELSE new

DeepMerge(base, updates) ==
    [ch \in Channel |->
       [creds |-> OrElse(updates[ch].creds, base[ch].creds),
        token |-> OrElse(updates[ch].token, base[ch].token),
        verified |-> base[ch].verified \/ updates[ch].verified]]

(* update_agent, first half: the config is read (of a deleted agent too) and *)
(* merged ...                                                               *)
MergeUpdate(r) ==
    /\ adminCall[r].step = "update"
    /\ adminCall' = [adminCall EXCEPT ![r] =
         IF adminCall[r].op = "prompt"
         THEN [@ EXCEPT !.step = "merged", !.channels = agent.channels]
         ELSE [@ EXCEPT !.step = "merged", !.prompt = agent.prompt,
                        !.channels = DeepMerge(agent.channels, adminCall[r].copy)]]
    /\ UNCHANGED <<agent, bot, told, made, given, commits, raced, adminFaults>>

(* ... and second half: the whole of it is written and committed.            *)
CommitUpdate(r) ==
    LET a == adminCall[r] IN
      /\ a.step = "merged" /\ Commits(r)
      /\ agent' = [agent EXCEPT !.channels = a.channels, !.prompt = a.prompt,
                                !.instructions = IF a.op = "prompt" THEN a.prompt ELSE @]
      /\ given' = CASE a.op \in {"set_whatsapp", "set_telegram"} ->
                         [given EXCEPT !.creds[a.channel] = a.copy[a.channel].creds]
                    [] a.op = "prompt" -> [given EXCEPT !.prompt = a.prompt]
                    [] OTHER -> given
      /\ adminCall' = [adminCall EXCEPT ![r] =
           IF a.op \in {"tokens", "set_telegram"}
           THEN [@ EXCEPT !.step = "stored", !.seen = commits'] ELSE Answered("200")]
      /\ UNCHANGED <<bot, told, made, adminFaults>>

(* An await that raises: the handler answers 500 and what is done stays.     *)
CallRaises(r) ==
    /\ adminCall[r].step \in {"loaded", "update", "merged", "stored", "checked"}
    /\ adminFaults < MaxAdminFaults /\ adminFaults' = adminFaults + 1
    /\ Ends(r, "500")
    /\ UNCHANGED <<agent, bot, told, made, given, commits, raced>>

AdminNext ==
    \/ CreateAgent
    \/ \E r \in AdminCall :
         \/ LoadAgent(r) \/ ReadStatus(r) \/ ReadDetails(r) \/ EnsureTokens(r) \/ TellTokens(r) \/ SetChannel(r)
         \/ RegisterWebhook(r) \/ VerifySubscription(r) \/ SetVerified(r) \/ PatchAgent(r)
         \/ SoftDelete(r) \/ MergeUpdate(r) \/ CommitUpdate(r) \/ CallRaises(r)

AdminSpec == AdminInit /\ [][AdminNext]_adminVars

-----------------------------------------------------------------------------
AdminTypeOK ==
    /\ agent.there \in {"none", "live", "deleted"} /\ agent.channels \in Configs
    /\ agent.instructions \in 0 .. NumPrompts /\ agent.prompt \in 0 .. NumPrompts
    /\ \A r \in AdminCall : adminCall[r].copy \in Configs /\ adminCall[r].channels \in Configs
    /\ bot \in [1 .. NumCreds -> 0 .. MaxTokensMade] /\ made \in 0 .. MaxTokensMade
    /\ raced \in BOOLEAN

(* Whatever call fails or overlaps, credentials are never stored without the *)
(* token their deliveries are checked with, and Telegram is never called     *)
(* verified unless it took a webhook. And until a call writes a copy older   *)
(* than another's commit, every token that was handed out or that Telegram   *)
(* sends is the one stored, for each bot ever given, however often the       *)
(* channels were configured since, so no delivery is refused; and the stored *)
(* credentials and prompt are the last that were set.                       *)
TokensSettled ==
    /\ \A ch \in Channel : agent.channels[ch].creds # 0 => agent.channels[ch].token # 0
    /\ agent.channels["telegram"].verified => \E b \in 1 .. NumCreds : bot[b] # 0
    /\ raced \/ /\ \A ch \in Channel : told[ch] \subseteq {agent.channels[ch].token}
                /\ \A b \in 1 .. NumCreds : bot[b] \in {0, agent.channels["telegram"].token}
                /\ \A ch \in Channel : agent.channels[ch].creds = given.creds[ch]
                /\ agent.prompt = given.prompt
=============================================================================
