----------------------------- MODULE MCBotwall ------------------------------
(***************************************************************************)
(* A small instance of Botwall: two crawlers with address ranges, one of   *)
(* them listed under a key whose slug is not that of its UA category, as   *)
(* in defaultBotDef.json; rules from three sources; policies whose keys    *)
(* collide; requests that tell the truth and requests that do not.         *)
(***************************************************************************)
EXTENDS Botwall

NoText == ""

MCSlugs == {"openai", "mistral", "mistralai"}
MCNames == MCSlugs \union {"OpenAI", "Openai", "Mistral", "MistralAI", NoText}
MCSlugOf ==
  [n \in MCNames |-> CASE n \in {"openai", "OpenAI", "Openai"} -> "openai"
                       [] n \in {"mistral", "Mistral"} -> "mistral"
                       [] n \in {"mistralai", "MistralAI"} -> "mistralai"
                       [] n = NoText -> NoText]
MCTitleOf ==
  [n \in MCNames |-> CASE n \in {"openai", "OpenAI", "Openai"} -> "Openai"
                       [] n \in {"mistral", "Mistral"} -> "Mistral"
                       [] n \in {"mistralai", "MistralAI"} -> "MistralAI"
                       [] n = NoText -> NoText]

MCCategories ==
  {"ai_access_agents", "AI.data-scrapers", "ai", "ai/access_agents",
   "AI.access agents", "traditional", "/"}
MCSegments == {"ai_access_agents", "ai", "access_agents", "data_scrapers", "traditional", "bots"}
MCPathOf ==
  [c \in MCCategories |->
     CASE c = "ai_access_agents" -> <<"ai_access_agents">>
       [] c = "AI.data-scrapers" -> <<"ai", "data_scrapers">>
       [] c = "ai" -> <<"ai">>
       [] c \in {"ai/access_agents", "AI.access agents"} -> <<"ai", "access_agents">>
       [] c = "traditional" -> <<"traditional">>
       [] c = "/" -> <<>>]

\* "+mist" is a pattern with the prefix that normalizePattern drops.
MCTokens == {"gpt", "mist", "+mist"}
MCPlain == [t \in MCTokens |-> IF t = "gpt" THEN "gpt" ELSE "mist"]

MCAddrs == {"proxy", "openai1", "mistral1", "home"}
MCCovers == [openaiNet |-> {"openai1"}, mistralNet |-> {"mistral1"}, garbage |-> {}]
MCRanges == DOMAIN MCCovers

-----------------------------------------------------------------------------
Bot(tokens, ranges) == [tokens |-> tokens, ranges |-> ranges]
UA(category, tokens) == [category |-> category, tokens |-> tokens]
None == [x \in {} |-> x]

\* Like the file that comes with the plugin.
Builtin ==
  [ua |-> <<UA("OpenAI", {"gpt"}), UA("MistralAI", {"+mist"})>>,
   mappings |-> [ai_access_agents |-> {"OpenAI", "MistralAI"}],
   categories |-> <<>>,
   portal |-> [openai |-> Bot({"gpt"}, {"openaiNet"}), mistral |-> Bot({"mist"}, {"mistralNet"})],
   legacy |-> None]

\* Two spellings of a key, the legacy section beside them, two groups for a bot.
Crowded ==
  [ua |-> <<UA("OpenAI", {"gpt"}), UA("MistralAI", {"+mist"})>>,
   mappings |-> [x \in {"ai_access_agents", "AI.data-scrapers"} |-> {"OpenAI"}],
   categories |-> <<UA("ai_access_agents", {"mist"})>>,
   portal |-> [x \in {"openai", "OpenAI"} |->
                 Bot({"gpt"}, IF x = "openai" THEN {"openaiNet", "garbage"} ELSE {})],
   legacy |-> [x \in {"openai", "mistralai"} |-> Bot({}, {"mistralNet"})]]

\* Rules without addresses.
Plainer ==
  [ua |-> <<UA("OpenAI", {"gpt"})>>,
   mappings |-> None, categories |-> <<UA("ai_access_agents", {"mist"})>>,
   portal |-> None, legacy |-> None]

MCDefinitions == {Builtin, Crowded, Plainer}

-----------------------------------------------------------------------------
Policy(global, byCategory, byBot) ==
  [global |-> global, rules |-> byCategory, overrides |-> byBot]

\* Closed but for two bots; a general rule and a closer one; open, with overrides.
Strict == Policy("denied", None, [n \in {"OpenAI", "MistralAI"} |-> "allow"])
Layered ==
  Policy("deny",
         [x \in {"ai", "ai/access_agents", "AI.access agents", "/"} |->
            CASE x = "ai" -> "allow" [] x = "/" -> "allow"
              [] x = "ai/access_agents" -> "deny" [] OTHER -> "maybe"],
         [mistral |-> "deny"])
Open ==
  Policy("allow",
         [x \in {"ai", "ai/access_agents"} |-> IF x = "ai" THEN "deny" ELSE "allow"],
         [x \in {"mistral", "Mistral"} |-> IF x = "mistral" THEN "allow" ELSE "deny"])

Config(softmax, beta, trusted, p) ==
  [softmax |-> softmax, alpha |-> 4, beta |-> beta, trusted |-> trusted, policy |-> p]
MCConfigs ==
  {Config(TRUE, 0, {}, Strict), Config(TRUE, 2, {"proxy"}, Layered),
   Config(FALSE, 4, {"proxy"}, Open)}

MCSnapshots ==
  {{[path |-> <<"news", "/">>, wild |-> TRUE]}, {[path |-> <<"news">>, wild |-> FALSE]}}

-----------------------------------------------------------------------------
Agent(tokens, identity, keyword) ==
  [tokens |-> tokens, identity |-> identity, keyword |-> keyword]

Browser == Agent({}, NoText, FALSE)
GPT == Agent({"gpt"}, NoText, TRUE)
Both == Agent({"gpt", "mist", "+mist"}, NoText, FALSE)
Mistral == Agent({"mist"}, "mistral", FALSE)
Spider == Agent({}, NoText, TRUE)

From(ua, peer, forwarded, own) ==
  [path |-> <<"news", "/", "today">>, ua |-> ua, peer |-> peer, forwarded |-> forwarded,
   own |-> own]

\* With a header of the client's own; through a proxy that overwrites X-Forwarded-For,
\* or appends to it; straight from the client.
MCRequests ==
  {From(ua, "home", <<"openai1">>, {1}) : ua \in {Browser, GPT, Mistral}}
  \union {From(ua, "proxy", <<NoText, "mistral1", "home">>, {1}) : ua \in {GPT, Both, Mistral}}
  \union {From(Mistral, "proxy", <<NoText, "mistral1", "home">>, {1, 2})}
  \union {From(ua, "openai1", <<>>, {}) : ua \in {Both, Spider}}
  \union {[From(Browser, "home", <<>>, {}) EXCEPT !.path = <<"news">>]}
=============================================================================
