SPECIFICATION Spec
CONSTANTS
  Paths = {1, 2}
  Cap = 8
  Early = 0
  ProgEarly = 1
  Threshold = 2
  MaxDumps = 1
  FirstIndex = 1
  LoadTries = 2
  ReadyTries = 2
  Keys = {1}
  Scenes <- MCScenes
  backend_open <- driver_open
  backend_reopen <- driver_reopen
  backend_close <- driver_close
  backend_close_raw <- driver_close_raw
  backend_load <- driver_load
  backend_unload <- driver_unload
  backend_reserve_unit <- driver_reserve_unit
  backend_release_unit <- driver_release_unit
  backend_medium_removal <- driver_medium_removal
  backend_test_unit_ready <- driver_test_unit_ready
  backend_remaining_capacity <- driver_remaining_capacity
  backend_set_compression <- driver_set_compression
  backend_allow_overwrite <- driver_allow_overwrite
  backend_get_parameters <- driver_get_parameters
  backend_set_default <- driver_set_default
  backend_rewind <- driver_rewind
  backend_locate <- driver_locate
  backend_readpos <- driver_readpos
  backend_peek <- driver_peek
  backend_space <- driver_space
  backend_write <- driver_write
  backend_writefm <- driver_writefm
  backend_read <- driver_read
  backend_erase <- driver_erase
  backend_setcap <- driver_setcap
  backend_format <- driver_format
  backend_modesense <- driver_modesense
  backend_modeselect <- driver_modeselect
  backend_read_attribute <- driver_read_attribute
  backend_write_attribute <- driver_write_attribute
  backend_get_eod_status <- driver_get_eod_status
  backend_get_tape_alert <- driver_get_tape_alert
  backend_set_key <- driver_set_key
  backend_get_keyalias <- driver_get_keyalias
  backend_set_xattr <- driver_set_xattr
  backend_get_worm_status <- driver_get_worm_status
  backend_get_next_block_to_xfer <- driver_get_next_block_to_xfer
  backend_get_cartridge_health <- driver_get_cartridge_health
  backend_get_xattr <- driver_get_xattr
  backend_logsense <- driver_logsense
  backend_takedump <- driver_takedump
  backend_grao <- driver_grao
  backend_rrao <- driver_rrao
CHECK_DEADLOCK FALSE
INVARIANTS PositionTracked DriveHeld
PROPERTIES AppendExact RecordsKept ReadExact FormatExact UpdateExact LockKept
