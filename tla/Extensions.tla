----------------------------- MODULE Extensions -----------------------------
(***************************************************************************)
(* The extensions page (ui/mod.rs, plugin.rs): a plugin, an app, and the   *)
(* requests that list and change them.  The local catalog is small; the    *)
(* full one is fetched when the page shows more than what is installed.    *)
(* The app-server (external) takes requests and answers in one order, and  *)
(* tells nothing of itself: every change is followed by a new listing.     *)
(***************************************************************************)
EXTENDS Integers, Sequences

CONSTANTS
    MaxAsks,    \* bound on the user's changes and refreshes
    MaxOutages

VARIABLES
    plugin,        \* external: "available", "disabled" or "enabled"
    app,           \* external: "on" or "off"
    sent,          \* external: requests the server has yet to take
    answers,       \* external: answers on their way
    connected,
    opened,        \* extensions_bootstrapped
    installedOnly, \* extensions_installed_only
    catalog,       \* plugins: which catalog, and what it says of the plugin
    appShown,      \* apps
    loading,       \* plugins_full_catalog_loading
    loaded,        \* plugins_full_catalog_loaded
    cut,           \* what an outage or an error may have left old, until listed
    asks, outages

server == <<plugin, app>>
shown == <<catalog, appShown>>
page == <<opened, installedOnly>>
flags == <<loading, loaded>>
bounds == <<asks, outages>>
vars == <<server, sent, answers, connected, page, shown, flags, cut, bounds>>

NotListed == "not listed"

Init ==
    /\ plugin \in {"available", "enabled"} /\ app \in {"on", "off"}
    /\ sent = <<>> /\ answers = <<>> /\ connected = TRUE
    /\ opened = FALSE /\ installedOnly = TRUE
    /\ catalog = [full |-> FALSE, plugin |-> NotListed] /\ appShown = NotListed
    /\ loading = FALSE /\ loaded = FALSE /\ cut = {}
    /\ asks = 0 /\ outages = 0

---------------------------------------------------------------------------
(* Requests.                                                               *)

Request(kind, to) == [kind |-> kind, to |-> to]
List(kind) == Request(kind, NotListed)
Ask(requests) == sent' = sent \o requests

MayLoadFull(force) == connected /\ ~loading /\ (force \/ ~loaded)

\* load_full_plugin_catalog, and the requests that go with it
load_full_plugin_catalog(force, others) ==
    IF MayLoadFull(force)
    THEN Ask(<<List("plugins")>> \o others) /\ loading' = TRUE /\ loaded' = loaded
    ELSE Ask(others) /\ UNCHANGED flags

load_local_plugin_catalog(others) == Ask(<<List("plugins-local")>> \o others) /\ UNCHANGED flags

\* A plausible mistake: the full catalog is only loaded when it is missing.
RefreshMissing ==
    IF installedOnly THEN load_local_plugin_catalog(<<List("apps")>>)
    ELSE load_full_plugin_catalog(FALSE, <<List("apps")>>)

refresh_extensions ==
    IF installedOnly THEN load_local_plugin_catalog(<<List("apps")>>)
    ELSE load_full_plugin_catalog(TRUE, <<List("apps")>>)

---------------------------------------------------------------------------
(* What the page shows.                                                    *)

filtered_entries ==
    IF installedOnly /\ catalog.plugin = "available" THEN NotListed ELSE catalog.plugin

render_extensions == [plugin |-> filtered_entries, app |-> appShown, more |-> loading]

---------------------------------------------------------------------------
(* The user.                                                               *)

Click == connected /\ asks < MaxAsks /\ asks' = asks + 1
PageSame == UNCHANGED <<server, answers, connected, page, shown, cut, outages>>

ensure_extensions_loaded ==
    /\ connected /\ ~opened /\ opened' = TRUE
    /\ load_local_plugin_catalog(<<List("apps")>>)
    /\ UNCHANGED <<server, answers, connected, installedOnly, shown, cut, bounds>>

ToggleInstalledOnly ==
    /\ opened /\ Click
    /\ installedOnly' = ~installedOnly
    /\ IF installedOnly THEN load_full_plugin_catalog(FALSE, <<>>) ELSE load_local_plugin_catalog(<<>>)
    /\ UNCHANGED <<server, answers, connected, opened, shown, cut, outages>>

Press(kind, to) ==
    /\ opened /\ Click
    /\ Ask(<<Request(kind, to)>>)
    /\ UNCHANGED flags /\ PageSame

\* Install, Uninstall and the switch of plugin_card, by what the catalog says.
PressPlugin ==
    LET p == render_extensions.plugin IN
    \/ p = "available" /\ Press("change", "enabled")
    \/ p \in {"disabled", "enabled"} /\ Press("change", "available")
    \/ p = "disabled" /\ Press("change", "enabled")
    \/ p = "enabled" /\ Press("change", "disabled")

\* The same plugin's switch on the Computer Use page, whatever is filtered.
set_computer_plugin_enabled ==
    \/ catalog.plugin \in {"available", "disabled"} /\ Press("change", "enabled")
    \/ catalog.plugin = "enabled" /\ Press("change", "disabled")

\* Settings that no list shows, followed by a reload.
PressSkill == Press("config", NotListed)
configure_macro_executor == Press("config", NotListed)
SetComputerPolicy == catalog.plugin \in {"disabled", "enabled"} /\ Press("config", NotListed)

PressApp == render_extensions.app # NotListed /\ Press("app", IF render_extensions.app = "on" THEN "off" ELSE "on")

refresh_extension_runtime == Press("reload", NotListed)
\* Adding, removing or upgrading a marketplace.
PressMarketplace == Press("marketplace", NotListed)

---------------------------------------------------------------------------
(* The server (external): a request may fail.                              *)

Said(r) ==
    CASE r.kind \in {"plugins", "plugins-local"} -> plugin
      [] r.kind = "apps" -> app
      [] OTHER -> r.to

Take ==
    /\ connected /\ sent # <<>> /\ sent' = Tail(sent)
    /\ LET r == Head(sent) IN
         \/ /\ plugin' = IF r.kind = "change" THEN r.to ELSE plugin
            /\ app' = IF r.kind = "app" THEN r.to ELSE app
            /\ answers' = Append(answers, [kind |-> r.kind, ok |-> TRUE, says |-> Said(r)])
         \/ /\ answers' = Append(answers, [kind |-> r.kind, ok |-> FALSE, says |-> NotListed])
            /\ UNCHANGED server
    /\ UNCHANGED <<connected, page, shown, flags, cut, bounds>>

---------------------------------------------------------------------------
(* Answers.                                                                *)

Listed(what) == cut' = cut \ {what}

\* A local catalog shows only for as long as that is all the page needs.
OnCatalog(full, says) ==
    /\ catalog' = [full |-> full, plugin |-> says] /\ Listed("plugin")
    /\ loaded' = full
    /\ IF ~full /\ ~installedOnly
       THEN loading' = TRUE /\ Ask(<<List("plugins")>>)
       ELSE loading' = FALSE /\ UNCHANGED sent
    /\ UNCHANGED <<appShown, opened>>

OnApps(says) == appShown' = says /\ Listed("app") /\ UNCHANGED <<sent, flags, catalog, opened>>

\* PluginInstall, PluginUninstall, PluginEnable, SkillEnable, MacroConfig
OnChanged == Ask(<<List("reload")>>) /\ UNCHANGED <<flags, shown, cut, opened>>

\* McpRefresh, Marketplace
OnReloaded == opened' = TRUE /\ refresh_extensions /\ UNCHANGED <<shown, cut>>

OnAppEnabled(to) ==
    /\ appShown' = IF appShown = NotListed THEN appShown ELSE to
    /\ UNCHANGED <<sent, flags, catalog, cut, opened>>

\* A listing that fails leaves the page as it was, and so does a failed reload.
OnError(kind) ==
    /\ loading' = (loading /\ kind \notin {"plugins", "plugins-local"})
    /\ cut' = cut \union
         CASE kind \in {"plugins", "plugins-local"} -> {"plugin"}
           [] kind = "apps" -> {"app"}
           [] kind \in {"reload", "marketplace"} -> {"plugin", "app"}
           [] OTHER -> {}
    /\ UNCHANGED <<sent, loaded, shown, opened>>

Receive ==
    /\ connected /\ answers # <<>> /\ answers' = Tail(answers)
    /\ LET a == Head(answers) IN
       \/ a.ok /\
         \/ a.kind = "plugins" /\ OnCatalog(TRUE, a.says)
         \/ a.kind = "plugins-local" /\ OnCatalog(FALSE, a.says)
         \/ a.kind = "apps" /\ OnApps(a.says)
         \/ a.kind \in {"change", "config"} /\ OnChanged
         \/ a.kind = "app" /\ OnAppEnabled(a.says)
         \/ a.kind \in {"reload", "marketplace"} /\ OnReloaded
       \/ ~a.ok /\ OnError(a.kind)
    /\ UNCHANGED <<server, connected, installedOnly, bounds>>

\* What was in flight is dropped; a request may have been carried out.
Disconnect ==
    /\ connected /\ outages < MaxOutages /\ outages' = outages + 1
    /\ connected' = FALSE /\ sent' = <<>> /\ answers' = <<>>
    /\ cut' = IF sent \o answers = <<>> THEN cut ELSE {"plugin", "app"}
    /\ UNCHANGED <<server, page, shown, flags, asks>>

Reconnect ==
    /\ ~connected /\ connected' = TRUE
    /\ UNCHANGED <<server, sent, answers, page, shown, flags, cut, bounds>>

Next ==
    \/ ensure_extensions_loaded \/ ToggleInstalledOnly
    \/ PressPlugin \/ PressApp \/ PressSkill \/ PressMarketplace \/ refresh_extension_runtime
    \/ set_computer_plugin_enabled \/ SetComputerPolicy \/ configure_macro_executor
    \/ Take \/ Receive \/ Disconnect \/ Reconnect

Spec == Init /\ [][Next]_vars

---------------------------------------------------------------------------
(* Properties.                                                             *)

Settled == connected /\ opened /\ sent = <<>> /\ answers = <<>>

\* Once everything is answered, the page tells the truth: what it says of a
\* plugin or an app is so, unless a listing or a change was cut short by a
\* lost connection or an error and nothing was listed since; and a page of
\* more than the installed plugins has the full catalog
\* (refresh_extensions, load_full_plugin_catalog, plugin_card).
PageTrue ==
    Settled =>
      /\ \/ render_extensions.plugin = plugin
         \/ installedOnly /\ plugin = "available" /\ render_extensions.plugin = NotListed
         \/ "plugin" \in cut
      /\ render_extensions.app = app \/ "app" \in cut
      /\ installedOnly \/ catalog.full \/ "plugin" \in cut
      /\ ~render_extensions.more \/ "plugin" \in cut
=============================================================================
