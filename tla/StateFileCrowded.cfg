SPECIFICATION FileSpec
CONSTANTS
  obsidian = obsidian
  watch = watch
  push = push
  Plugins = {obsidian}
  Clis = {watch, push}
  MaxRecords = 2
  MaxDeaths = 2
  Crowded = TRUE
INVARIANT OneHolder
